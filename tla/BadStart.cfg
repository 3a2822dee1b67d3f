CONSTANTS
    Subs = {s1, s2}
    Publishers = {s1}
    MaxRegs = 3
    MaxInc = 2
    MaxEpoch = 1
    MaxQueue = 10
    MaxMissed = 1
    MaxFaults = 1
    FaultKinds = {"crash"}
    MayStall = TRUE
    CanQuiesce = {}
SPECIFICATION Spec
INVARIANTS
    CopyIsTopicAtVersion
