CONSTANTS
    Subs = {s1}
    Publishers = {s1}
    MaxRegs = 4
    MaxInc = 2
    MaxEpoch = 2
    MaxQueue = 10
    MaxMissed = 1
    MaxFaults = 1
    FaultKinds = {"lost_heartbeat", "recovery", "lost_register", "late_register", "crash", "restart"}
    MayStall = FALSE
    CanQuiesce = {}
SPECIFICATION FairSpec
INVARIANTS
    CopyIsTopicAtVersion
PROPERTIES
    Published
    DeadBackendsRemoved
    CopiesConverge
