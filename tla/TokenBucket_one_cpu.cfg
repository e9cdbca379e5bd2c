SPECIFICATION Spec
CONSTANTS
    c1 = c1
    c2 = c2
    Cpus = {c1}
    UNIT = 2
    W = 64
    Rates = {1, 2}
    MinRate = 1
    MaxRate = 2
    MaxTime = 5
    None = None
    MaxPackets = 6
    MaxRemovals = 0
PROPERTY Refines
