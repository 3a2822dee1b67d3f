CONSTANTS
    NumSenders = 3
    MaxBatches = 1
    Limit = 1
    Threads = 1
    MaxFaults = 1
SPECIFICATION Spec
INVARIANTS
    HeldOnce
    WillWakeUp
    Delivered
    WithinLimit
    NothingAfterClose
CHECK_DEADLOCK FALSE
