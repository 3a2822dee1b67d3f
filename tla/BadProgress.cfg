CONSTANTS
    Backends = {"c", "w"}
    Coord = "c"
    Instances = {"i1", "i2"}
    Layout <- MCLayout
    Kinds = {"QUERY", "DML"}
    MaxSeq <- MCMaxSeq
    FaultKinds <- MCFaultKinds
    MaxFaults = 1
    Faulty = {"w"}
SPECIFICATION Spec
CHECK_DEADLOCK FALSE
PROPERTY RangesGrow
