CONSTANTS
    Workers = {w1, w2}
    Submitters = {s1, s2}
    Tasks = {t1, t2, t3}
SPECIFICATION PoolSpec
INVARIANTS InOrder NoLostWakeup JoinedMeansDone
PROPERTIES ImplementsPool EveryTaskRuns JoinReturns
CHECK_DEADLOCK FALSE
