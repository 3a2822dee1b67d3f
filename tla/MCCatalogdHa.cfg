CONSTANTS
    Cat1 = c1
    Cat2 = c2
    Coordinators = {i1}
    Forced = {c2}
    EnableHa = TRUE
    MaxFaults = 1
    FaultKinds = {"partition", "lost_register", "late_update", "crash", "restart"}
    None = None
SPECIFICATION FairSpec
CHECK_DEADLOCK FALSE
INVARIANTS
    RolesConsistent
    VersionNamesActive
PROPERTY
    OneActiveCatalogd
