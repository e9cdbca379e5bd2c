SPECIFICATION Spec
CONSTANTS
    edge = edge
    lab = lab
    prod = prod
    staging = staging
    v1 = v1
    v2 = v2
    h1 = h1
    h2 = h2
    NoRule = NoRule
    Global = Global
    Everything = Everything
    Agents = {edge}
    TopicOf <- OnlyEdge
    Topics = {prod, staging, edge}
    Values = {v1, v2}
    Handlers = {h1, h2}
    Ops = {"create", "update", "retag", "delete"}
    MaxIds = 1
    MaxUpdates = 2
    MaxCrashes = 1
    MaxOutages = 1
    MaxDrops = 1
SYMMETRY Symmetric
CHECK_DEADLOCK FALSE
INVARIANT TypeOK
INVARIANT OwnRulesOnly
INVARIANT LoadExact
INVARIANT RulesArrive
