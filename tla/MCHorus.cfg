CONSTANTS
    Z = 2
    Keywords = {1}
    Docs = {1, 2}
    Depth = 2
    PRF <- MCPRF
    Radix = 20
    MaxSearches = 2
    MaxAccess = 3
    SetupMixed = FALSE
SPECIFICATION Spec
CHECK_DEADLOCK FALSE
INVARIANT SlotsReadable
PROPERTIES ImplementsIndex RoundsClose
