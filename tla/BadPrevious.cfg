CONSTANTS
    Cat1 = c1
    Cat2 = c2
    Coordinators = {}
    Forced = {}
    EnableHa = TRUE
    MaxFaults = 3
    FaultKinds = {"late_update", "slow_update", "restart"}
    None = None
SPECIFICATION Spec
CHECK_DEADLOCK FALSE
PROPERTY
    PreviousNotAccepted
