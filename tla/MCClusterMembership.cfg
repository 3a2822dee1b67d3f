CONSTANTS
    Remotes = {"r1"}
    LocalAddress = "local"
    MaxInc = 2
    Queries = {q1}
    MaxCancellationQueue = 2
    FaultKinds = {"blacklist", "quiesce", "crash", "reconnect", "statestore_restart", "slow"}
    MaxFaults = 3
SPECIFICATION FairSpec
CHECK_DEADLOCK FALSE
INVARIANTS
    GroupIsExact
PROPERTIES
    CancelledHadFailed
    ExecutorsReturn
    FailedQueriesEnd
