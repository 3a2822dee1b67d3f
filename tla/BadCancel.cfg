CONSTANTS
    Remotes = {"r1"}
    LocalAddress = "local"
    MaxInc = 1
    Queries = {q1, q2}
    MaxCancellationQueue = 1
    FaultKinds = {"crash"}
    MaxFaults = 1
SPECIFICATION FairSpec
CHECK_DEADLOCK FALSE
PROPERTIES
    FailedQueriesEnd
