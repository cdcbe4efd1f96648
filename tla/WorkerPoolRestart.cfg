\* start() while stop() is still waiting for a busy worker.
CONSTANTS
    t1 = t1
    t2 = t2
    t3 = t3
    Tasks = {t1, t2, t3}
    Workers = {w1, w2, w3}
    NoTask = NoTask
    NoWorker = NoWorker
    Prio <- OneUrgent
    LongTasks <- NoneLong
    MinWorkers = 1
    MaxWorkers = 2
    ScaleUpThreshold = 1
    MaxRetries = 1
    OverlapRestart = TRUE
SPECIFICATION Spec
INVARIANTS KeepsMinWorkers
CHECK_DEADLOCK FALSE
