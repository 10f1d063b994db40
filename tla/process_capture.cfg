SPECIFICATION Spec
CONSTANTS
    MaxPid = 2
    Inodes = {i1}
    CanHide = TRUE
    MaxBirths = 2
    Faults = {"list", "status", "table", "fd"}
    NoName = NoName
INVARIANTS
    CleanHighNeedsReuse
    QuietFindingNeedsLoss
    ConcealedIsReported
    ConcealedSocketOwnerIsHigh
