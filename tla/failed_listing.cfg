SPECIFICATION Spec
CONSTANTS
    MaxPid = 2
    Inodes = {}
    CanHide = FALSE
    MaxBirths = 0
    Faults = {"list"}
    NoName = NoName
INVARIANTS
    FailedListingIsNotEmpty
