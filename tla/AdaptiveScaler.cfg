SPECIFICATION ScalerFairSpec
CONSTANTS
    Absent = Absent
    Readings = {0, 20, 30, 31, 45, 51, 70, 90, 100}
    SHIFT = 2
    HasManual = TRUE
    MaxWire = 2
    MaxFaults = 1
INVARIANT ScalerTypeOK
INVARIANT AgentFollows
PROPERTY EscalationConfirmed
PROPERTY FullLoadCapped
PROPERTY MildLoadReturns
