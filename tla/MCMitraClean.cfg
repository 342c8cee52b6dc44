CONSTANTS
    Keywords = {k1, k2}
    Docs = {1, 2}
    Junk = 99
    DeleteFiles = TRUE
    MaxCnt = 2
    MaxSearches = 2
SPECIFICATION Spec
INVARIANTS EntriesDecodable
PROPERTIES CurrentEntriesKept ImplementsIndex
CHECK_DEADLOCK FALSE
