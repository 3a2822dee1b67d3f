CONSTANTS
    Coordinators = {"c1", "c2"}
    Queries = {"q1", "q2"}
    Known = {"c1"}
    Users = {"u"}
    Hosts = {"h1"}
    CoordinatorOf <- MCCoordinatorOf
    UserOf <- MCUserOf
    HostsOf <- MCHostsOf
    TrivialQueries = {}
    MaxTrivial = 1
    MaxRequests = 1
    MaxQueued = 2
    MaxMem = 1
    UserLimit = 2
    HostLimit = 1
    MaxHeartbeats = 1
    FaultKinds = {"crash"}
    MaxFaults = 1
SPECIFICATION TimeoutSpec
CHECK_DEADLOCK FALSE
PROPERTY UnknownLeavesQueue
