CONSTANTS
    Coordinators = {"c1", "c2"}
    Queries = {"q1", "q2"}
    Known = {"c1"}
    Users = {"u"}
    Hosts = {"h1"}
    CoordinatorOf <- MCCoordinatorOf
    UserOf <- MCUserOf
    HostsOf <- MCHostsOf
    TrivialQueries = {}
    MaxTrivial = 1
    MaxRequests = 1
    MaxQueued = 2
    MaxMem = 1
    UserLimit = 2
    HostLimit = 1
    MaxHeartbeats = 1
    FaultKinds = {"admit", "status", "cancel", "delay", "duplicate", "crash"}
    MaxFaults = 1
SPECIFICATION FairSpec
CHECK_DEADLOCK FALSE
INVARIANTS
    AggregatesMatchRunning
    QueueIsPending
    WithinLimits
PROPERTIES
    EventuallyReleased
    EventuallyDecided
