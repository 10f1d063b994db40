SPECIFICATION Spec
CONSTANTS
    MaxPid = 2
    Inodes = {}
    CanHide = FALSE
    MaxBirths = 1
    Faults = {}
    NoName = NoName
INVARIANTS
    TimingIsNoFinding
