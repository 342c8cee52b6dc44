CONSTANTS
    Keywords = {k1}
    Docs = {1, 2}
    Modes <- AllModes
    MaxCnt = 3
    MaxSearches = 2
    MaxLosses = 1
    MaxRestarts = 1
SPECIFICATION Spec
INVARIANTS LedgerMatchesServer AnswerExact
PROPERTIES SearchPreservesIndex
CHECK_DEADLOCK FALSE
