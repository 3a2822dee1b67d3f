CONSTANTS
    Backends = {"c", "w"}
    Coord = "c"
    Instances = {"i1", "i2"}
    Layout <- MCLayout
    Kinds = {"QUERY", "DML"}
    MaxSeq <- MCMaxSeq
    FaultKinds <- MCFaultKinds
    MaxFaults = 1
    Faulty = {"w"}
SPECIFICATION FairSpec
INVARIANTS
    ReleasedOnce
    ReleasedIsDone
    DmlComplete
    TruthfulReports
PROPERTIES
    StartupEnds
    QueryEnds
CHECK_DEADLOCK FALSE
