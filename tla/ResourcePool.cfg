SPECIFICATION Spec
CONSTANTS
    Reads = {"small", "large"}
    Signalled = {"small", "large"}
    Limit <- MCLimit
    MaxSize = 2
    None = None
    Workers = {w1, w2}
    Total = 3
    Resource <- MCResource
    Size <- MCSize
INVARIANTS
    BodiesAreWhole
    ReportIsExact
PROPERTIES
    NothingAfterTheDeadline
    PoolEnds
CHECK_DEADLOCK FALSE
