CONSTANTS
    MaxCount = 3
    RsaThreads = {1, 2, 4}
    PoolThreads = {p1, p2}
SPECIFICATION ParallelSpec
INVARIANTS ClosedInOrder Complete
PROPERTIES QuietAfterReturn Returns
CHECK_DEADLOCK FALSE
