CONSTANTS
    Keywords = {k1, k2}
    Docs = {1, 2}
    UseHDD = FALSE
    DeleteItems = TRUE
    MaxCnt = 3
SPECIFICATION Spec
INVARIANTS HeldIsSuffix
PROPERTIES ImplementsIndex
CHECK_DEADLOCK FALSE
