CONSTANTS
    Keys = {1, 2, 3, 4, 5, 6, 7, 8}
    Values = {1, 2}
    Sizes <- MCSizes
    Batches <- MCBatches
    Entries <- MCEntries
    Queries <- MCQueries
SPECIFICATION Spec
CHECK_DEADLOCK FALSE
INVARIANTS OnKnownPath Balanced CallsAnswered
PROPERTY ImplementsMap
