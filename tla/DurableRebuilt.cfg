\* The restarted process builds its workflow again, as the builder's ids require.
CONSTANTS
    Parts = {"durable"}
    none = none
    Jobs = {q1, q2}
    MaxPolls = 1
    Adds = {q1, q2}
    Servers = {q1, q2}
    ToolCalls = {q1, q2}
    MaxConcurrent = 1
    MaxFileEvents = 3
    MaxQueued = 1
    N = 3
    DependsOn <- Chain
    Approval <- NoStep
    Ids <- TwoIds
    Rebuilds = TRUE
    Loops <- OneLoop
    MaxRuns = 1
SPECIFICATION CallsSpec
PROPERTIES NoRedo
CHECK_DEADLOCK FALSE
