\* Four steps, one of which needs approval, and one run of the workflow; two calls
\* of a transport and of the pool; three events of a hook.
CONSTANTS
    Parts = {"durable", "transports", "mcp", "hooks", "runtime"}
    none = none
    Jobs = {q1, q2}
    MaxPolls = 1
    Adds = {q1, q2}
    Servers = {q1, q2}
    ToolCalls = {q1, q2}
    MaxConcurrent = 1
    MaxFileEvents = 3
    MaxQueued = 1
    N = 4
    DependsOn <- FanOut
    Approval <- ThirdStep
    Ids <- OneId
    Rebuilds = FALSE
    Loops <- OneLoop
    MaxRuns = 1
SPECIFICATION CallsSpec
INVARIANTS CallsTypeOK NothingMissing CallsAccounted
PROPERTIES NoRedo ImplementsProgress CallsEnd
CHECK_DEADLOCK FALSE
