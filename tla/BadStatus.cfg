CONSTANTS
    Subs = {s1}
    Publishers = {s1}
    MaxRegs = 3
    MaxInc = 1
    MaxEpoch = 1
    MaxQueue = 10
    MaxMissed = 1
    MaxFaults = 1
    FaultKinds = {"late_register"}
    MayStall = TRUE
    CanQuiesce = {s1}
SPECIFICATION Spec
INVARIANTS
    LastIsProcessed
