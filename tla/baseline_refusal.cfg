SPECIFICATION Spec
CONSTANTS
    m1 = m1
    m2 = m2
    f1 = f1
    i1 = i1
    i2 = i2
    sshd = sshd
    worm = worm
    here = here
    peer = peer
    clean = clean
    grown = grown
    hidden = hidden
    mute = mute
    other = other
    unversioned = unversioned
    sameShape = sameShape
    otherShape = otherShape
    notPids = notPids
    Json <- MCJson
    Contents = {clean, grown, other, notPids}
    Inputs = {clean, grown, hidden, mute, other, unversioned, sameShape, otherShape, notPids}
    Keys = {k1}
    Writers = {w1}
    Foreign = FALSE
    MaxSigned = 1
    OurMajor = 1
    OurMinor = 1
    NoFile = NoFile
    Torn = Torn
    Secret = Secret
    Placeholder = Placeholder
    Unset = Unset
    Pending = Pending
    Refused = Refused
    NoName = NoName
INVARIANTS
    RefusalIsExplained
