SPECIFICATION Spec
CONSTANTS
    c1 = c1
    c2 = c2
    None = None
    Cpus = {c1, c2}
    Durations = {1}
    MaxPackets = 3
    MaxTime = 1
    MaxChanges = 2
SYMMETRY Symmetric
CHECK_DEADLOCK FALSE
INVARIANT TypeOK
INVARIANT LatencyOrdered
INVARIANT AverageWithin
PROPERTY AsIfAtOnce
PROPERTY CountsEveryPacket
