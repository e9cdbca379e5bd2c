SPECIFICATION FairSpec
CONSTANTS
    edge = edge
    lab = lab
    prod = prod
    staging = staging
    v1 = v1
    v2 = v2
    h1 = h1
    h2 = h2
    NoRule = NoRule
    Global = Global
    Everything = Everything
    Agents = {lab}
    TopicOf <- OnlyLab
    Topics = {Global, prod}
    Values = {v1}
    Handlers = {h1}
    Ops = {"create", "update", "delete"}
    MaxIds = 2
    MaxUpdates = 1
    MaxCrashes = 1
    MaxOutages = 1
    MaxDrops = 1
CHECK_DEADLOCK FALSE
PROPERTY Settles
