SPECIFICATION Spec
CONSTANTS
    MaxPid = 2
    Inodes = {}
    CanHide = FALSE
    MaxBirths = 0
    Unreliable = FALSE
INVARIANTS
    NeverAbortsHalfway
