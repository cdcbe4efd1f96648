\* Two levels of nesting below a request, a breaker that trips at the second
\* escalation, no time passing; two requests at the same time.
CONSTANTS
    worker = worker
    lead = lead
    Agents = {worker, lead}
    NoAgent = NoAgent
    EscalationTarget <- Mutual
    Tier <- Ranks
    Threshold = 2
    Window = 1
    Late <- NobodyLate
    MaxTime = 2
    Requests = {r1, r2}
    External <- LeadOnly
    MaxDepth = 2
    EnableEscalation = TRUE
    MaxSubTasks = 1
SPECIFICATION ExecFairSpec
INVARIANTS ExecTypeOK MetricsBalance NoStuckAgent
PROPERTIES EveryRequestEnds
