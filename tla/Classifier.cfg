SPECIFICATION Spec
CONSTANTS
    a1 = a1
    a2 = a2
    i1 = i1
    i2 = i2
    Agents = {a1,a2}
    IPs = {i1}
    Baselines <- Histories
    MaxQueue = 1
    MaxFaults = 1
SYMMETRY Symmetric
CHECK_DEADLOCK FALSE
INVARIANT TypeOK
INVARIANT BypassTrusted
INVARIANT StaleBypassExplained
INVARIANT MissingBypassExplained
