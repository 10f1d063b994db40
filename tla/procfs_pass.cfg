SPECIFICATION Spec
CONSTANTS
    Pids = {1, 2, 3}
    Denied = 3
    Vanished = 4
    Procs = {p1, p2, k1}
    Kernel = {k1}
    Sshd = Sshd
    MaxFaults = 1
INVARIANTS
    OKMeansComplete
    MixedEntityNeedsReuse
    AbsentFieldNeedsCause
    ReplayMatchesRecording
    SyntheticsReplayAsMeant
PROPERTIES
    PassEnds
    ImplementsListing
