CONSTANTS
    Subs = {s1}
    Publishers = {s1}
    MaxRegs = 3
    MaxInc = 1
    MaxEpoch = 1
    MaxQueue = 10
    MaxMissed = 1
    MaxFaults = 1
    FaultKinds = {"lost_update"}
    MayStall = TRUE
    CanQuiesce = {s1}
SPECIFICATION FairSpec
PROPERTIES
    Published
