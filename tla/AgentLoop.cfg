SPECIFICATION FairSpec
CONSTANTS
    ip1 = ip1
    blk = blk
    lim = lim
    lim2 = lim2
    None = None
    NoRule = NoRule
    Ips = {ip1}
    RuleSets <- Several
    Batches = {2, 4}
    POLL = 2
    Evictable = {"count", "config", "block"}
    MaxCount = 8
    MaxFailures = 1
    MaxErrors = 1
    MaxEvictions = 1
INVARIANT TypeOK
INVARIANT LimitsAgree
PROPERTY BlockJustified
PROPERTY BlockPrompt
PROPERTY UnlimitJustified
PROPERTY LimitRemoved
