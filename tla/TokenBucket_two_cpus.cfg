SPECIFICATION Spec
CONSTANTS
    c1 = c1
    c2 = c2
    Cpus = {c1, c2}
    UNIT = 1
    W = 32
    Rates = {1, 2}
    MinRate = 1
    MaxRate = 2
    MaxTime = 2
    None = None
    MaxPackets = 4
    MaxRemovals = 1
SYMMETRY Symmetric
INVARIANT TypeOK
INVARIANT LoneRefillRepairs
