SPECIFICATION Spec
CONSTANTS
    NoRule = NoRule
    i1 = i1
    i2 = i2
    i3 = i3
    Ids = {i1, i2, i3}
    RuleValues <- AnySpelling
    Rates = {1, 2, 3}
SYMMETRY Symmetric
INVARIANT TypeOK
INVARIANT MatchReturnsWinner
INVARIANT BlockPriority
INVARIANT CacheExact
INVARIANT MatchSound
