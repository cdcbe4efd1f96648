\* Three tasks, one of a higher priority, one retry each; the timeout of t1
\* is, or is not, longer than twice the pool's; up to two workers, restarts
\* only after stop() has ended.
CONSTANTS
    t1 = t1
    t2 = t2
    t3 = t3
    Tasks = {t1, t2, t3}
    Workers = {w1, w2, w3}
    NoTask = NoTask
    NoWorker = NoWorker
    Prio <- OneUrgent
    LongTasks <- OneLong
    MinWorkers = 1
    MaxWorkers = 2
    ScaleUpThreshold = 1
    MaxRetries = 1
    OverlapRestart = FALSE
SPECIFICATION FairSpec
INVARIANTS TypeOK SearchFindsSlot TasksKept BeliefIsTrue PoolSize
PROPERTIES DispatchByPriority SettlesWhileRunning
CHECK_DEADLOCK FALSE
