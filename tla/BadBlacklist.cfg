CONSTANTS
    Remotes = {"r1"}
    LocalAddress = "local"
    MaxInc = 2
    Queries = {q1}
    MaxCancellationQueue = 2
    FaultKinds = {"blacklist", "crash", "reconnect"}
    MaxFaults = 3
SPECIFICATION Spec
CHECK_DEADLOCK FALSE
INVARIANTS
    SnapshotIsExact
