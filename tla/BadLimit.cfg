CONSTANTS
    Subs = {s1, s2}
    Publishers = {s1}
    MaxRegs = 3
    MaxInc = 1
    MaxEpoch = 1
    MaxQueue = 1
    MaxMissed = 1
    MaxFaults = 0
    FaultKinds = {}
    MayStall = TRUE
    CanQuiesce = {s1}
SPECIFICATION Spec
INVARIANTS
    NoLeakedEntries
