SPECIFICATION ScalerFairSpec
CONSTANTS
    Absent = Absent
    Readings = {0, 85}
    SHIFT = 2
    HasManual = TRUE
    MaxWire = 1
    MaxFaults = 0
PROPERTY LoadReturns
