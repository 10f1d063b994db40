SPECIFICATION Spec
CONSTANTS
    MaxPid = 2
    Inodes = {i1}
    CanHide = FALSE
    MaxBirths = 2
    Faults = {}
    NoName = NoName
INVARIANTS
    SocketVisibleIsSound
