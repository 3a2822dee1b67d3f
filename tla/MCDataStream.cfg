CONSTANTS
    NumSenders = 2
    MaxBatches = 2
    Limit = 1
    Threads = 2
    MaxFaults = 1
SPECIFICATION FairSpec
INVARIANTS
    HeldOnce
    WillWakeUp
    Delivered
    WithinLimit
    NothingAfterClose
PROPERTIES
    StreamEnds
CHECK_DEADLOCK FALSE
