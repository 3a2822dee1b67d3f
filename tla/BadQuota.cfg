CONSTANTS
    Coordinators = {"c1", "c2"}
    Queries = {"q1", "q2"}
    Known = {"c1"}
    Users = {"u"}
    Hosts = {"h1"}
    CoordinatorOf <- MCCoordinatorOf
    UserOf <- MCUserOf
    HostsOf <- MCHostsOf
    TrivialQueries = {}
    MaxTrivial = 1
    MaxRequests = 1
    MaxQueued = 2
    MaxMem = 1
    UserLimit = 2
    HostLimit = 1
    MaxHeartbeats = 1
    FaultKinds = {"cancel"}
    MaxFaults = 1
SPECIFICATION Spec
CHECK_DEADLOCK FALSE
INVARIANT UserLoadsAreExact
