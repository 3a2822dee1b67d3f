CONSTANTS
    Subs = {s1}
    Publishers = {s1}
    MaxRegs = 3
    MaxInc = 1
    MaxEpoch = 1
    MaxQueue = 10
    MaxMissed = 1
    MaxFaults = 1
    FaultKinds = {"lost_update", "repeat_update", "lost_heartbeat", "recovery", "lost_register"}
    MayStall = TRUE
    CanQuiesce = {s1}
SPECIFICATION Spec
INVARIANTS
    NoLeakedEntries
    RegisteredIsScheduled
    LastIsProcessed
PROPERTIES
    ImplementsReplication
