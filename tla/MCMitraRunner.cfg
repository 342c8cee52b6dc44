CONSTANTS
    Keywords = {k1}
    Docs = {1, 2}
    Junk = 99
    Modes = {TRUE, FALSE}
    MaxCnt = 3
    MaxSearches = 3
    MaxFaults = 2
SPECIFICATION Spec
INVARIANTS AnswerExact NoForeignDocuments
CHECK_DEADLOCK FALSE
