SPECIFICATION Spec
CONSTANTS
    MaxPid = 3
    Inodes = {}
    CanHide = FALSE
    MaxBirths = 1
    Faults = {"host", "list", "stat", "status", "pidMax", "out"}
    NoName = NoName
INVARIANTS
    TypeOK
    SteadyIsNotReported
    CleanReportIsShortLived
PROPERTIES
    CaptureTerminates
