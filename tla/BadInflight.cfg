CONSTANTS
    Remotes = {"r1"}
    LocalAddress = "local"
    MaxInc = 1
    Queries = {q1}
    MaxCancellationQueue = 2
    FaultKinds = {"crash"}
    MaxFaults = 1
SPECIFICATION Spec
CHECK_DEADLOCK FALSE
PROPERTIES
    SkippedDoesNotRun
