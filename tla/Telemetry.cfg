SPECIFICATION Spec
CONSTANTS
    e1 = e1
    e2 = e2
    None = None
    Ifaces = {e1, e2}
    Idle = {2}
    Bytes = {1, 2}
    W = 32
    SCALE = 3
    MaxRows = 3
    MaxQueue = 1
    MaxEvents = 6
SYMMETRY Symmetric
CHECK_DEADLOCK FALSE
INVARIANT TypeOK
INVARIANT RowsStoredOnce
INVARIANT StoredMetricsTrue
