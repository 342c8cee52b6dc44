CONSTANTS
    TreeDepth = 4
    MaxEntries = 9
    MaxThreads = 3
SPECIFICATION Spec
INVARIANTS ListCoversWanted SharesDisjoint AgreesWithSequential
PROPERTIES Returns
CHECK_DEADLOCK FALSE
