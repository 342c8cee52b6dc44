CONSTANTS
    TreeDepth = 3
    LeafOrder <- TreeLeafOrder
    Keywords = {k1}
    Docs = {1, 300}
    MaxUpdates = 5
    MaxSearches = 3
    MaxRestarts = 2
SPECIFICATION Spec
INVARIANTS TablesMatchPending AnswerExact DeletedStaysDeleted
CHECK_DEADLOCK FALSE
