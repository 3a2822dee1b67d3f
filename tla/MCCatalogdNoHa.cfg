CONSTANTS
    Cat1 = c1
    Cat2 = c2
    Coordinators = {i1}
    Forced = {}
    EnableHa = FALSE
    MaxFaults = 2
    FaultKinds = {"partition", "lost_register", "late_update", "slow_update", "crash", "restart"}
    None = None
SPECIFICATION FairSpec
CHECK_DEADLOCK FALSE
INVARIANTS
    RolesConsistent
PROPERTY
    OneActiveCatalogd
