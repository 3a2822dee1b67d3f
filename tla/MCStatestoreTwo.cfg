CONSTANTS
    Subs = {s1, s2}
    Publishers = {s1}
    MaxRegs = 3
    MaxInc = 1
    MaxEpoch = 1
    MaxQueue = 10
    MaxMissed = 1
    MaxFaults = 1
    FaultKinds = {"lost_update", "recovery"}
    MayStall = TRUE
    CanQuiesce = {}
SPECIFICATION Spec
INVARIANTS
    NoLeakedEntries
    CopyIsTopicAtVersion
