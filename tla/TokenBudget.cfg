SPECIFICATION HSpec
CONSTANTS
    UNIT = 4
    W = 128
    Rates = {2, 3, 5}
    MinRate = 2
    MaxRate = 5
    MaxTime = 14
    None = None
INVARIANT HTypeOK
INVARIANT RateBound
INVARIANT HalfRateAtLeast
PROPERTY DropOnlyAboveRate
