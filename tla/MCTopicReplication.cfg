CONSTANTS
    Keys = {k1, k2}
    Values = {v1, v2}
    None = None
    NoItem = NoItem
    Deleted = Deleted
    Subs = {s1}
    MaxVersion = 4
    MaxDeltas = 2
SPECIFICATION Spec
INVARIANTS
    LogMatchesEntries
    UpdatesStayTrue
    CopyAgrees
    CaughtUpIsExact
CHECK_DEADLOCK FALSE
