CONSTANTS
    Trackers <- MCTrackers
    Root = "process"
    PathToRoot <- MCPath
    Limit <- MCLimit
    Linked = {"q", "initial", "a", "b"}
    MemLimit = 2
    Address <- MCAddress
    Threads = {"ta", "tb", "tr"}
    Owner <- MCOwner
    Initial = "initial"
    Claims = 1
    MaxBytes = 1
    MaxOther = 1
    NoThread = "none"
SPECIFICATION Spec
INVARIANTS
    Consistent
    ChildrenAddUp
    AccountsAgree
    NoLockCycle
