CONSTANTS
    TreeDepth = 3
    LeafOrder <- TreeLeafOrder
    Settings <- AllSettings
    Keywords = {k1, k2}
    Docs = {d1, d2}
    MaxUpdates = 4
    MaxSearches = 2
    MaxLosses = 1
    MaxRestarts = 1
SPECIFICATION Spec
INVARIANTS TablesWithinCounters RevokesOwnDocument AnswerExact SearchCompletes
SYMMETRY Symmetry
CHECK_DEADLOCK FALSE
