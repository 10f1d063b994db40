SPECIFICATION Spec
CONSTANTS
    MaxPid = 3
    Inodes = {}
    CanHide = TRUE
    MaxBirths = 1
    Unreliable = TRUE
INVARIANTS
    UnexplainedIsHiddenOrReused
    ConcealedIsUnexplained
    LabelsAreTrue
    ThreadsResolveToTheirLeader
