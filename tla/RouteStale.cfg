\* Routing alone: an agent whose decision is cached goes offline.
CONSTANTS
    Parts = {"router"}
    q1 = q1
    q2 = q2
    none = none
    Agents = {"worker", "manager", "master"}
    NoAgent = "nobody"
    EscalationTarget <- Above
    Tier <- Ranks
    Threshold = 2
    Window = 2
    Late <- NobodyLate
    MaxTime = 7
    Names <- ThreeProviders
    Models = {"m", "n"}
    Primary = "openai"
    Items = 3
    BatchSize = 2
    MaxRetries = 1
    CheckInterval = 2
    Crew = {q1, q2, none}
    Monitors = {none}
    MaxAgents = 1
    RuleCount = 2
    CooldownMs = 2
    MaxFires = 1
    Signals = {q1, q2}
    MaxInstant = 3
    PowerNames = {q1, q2}
    Callers = {1, 2}
    MaxMishaps = 1
    Keepers = {"nobody"}
    Files = {"a.md", "moved/a.md", "b.md"}
    Ids = {"a", "b"}
    IdOf <- TwoMoves
    Missing = none
    LastWrite = 3
    Edges = {"e", "f"}
    MaxTransitions = 2
    MaxUpdates = 3
    Persists = TRUE
    Absent = none
    MaxEntries = 3
    MaxRetained = 1
    MaxAttempts = 2
    MaxLines = 3
    Posts = {q1, q2, none}
    NoSession = "no session"
    Tasks = 3
    Together = 2
    Team = {q1, q2}
    Named = q1
    Nobody = none
    Routed = {q1, q2}
    Topics = {"t"}
    RouteContexts = {"all", "one"}
    Requests = {q1, q2}
    Configured <- AllOrOne
    RouteCacheSize = 1
    Indexed = {q1, q2}
    Texts = {"x", "y"}
    NoText = none
    ItemLists <- OneOrTwo
    MaxWrites = 2
    MaxDocs = 3
    EmbedCacheSize = 1
    ApiFits = FALSE
    Queries = {q1, q2}
    Spaces = {"x", "y"}
    Volatile = {"x"}
    BitsOf <- TwoBits
    HotCacheSize = 1
    CacheAfterHits = 1
    TTL = 2
    MaxWait = 1
    MaxPending = 2
    MaxHour = 3
    Members = {q1, q2}
    MaxChain = 3
    MaxMessages = 1
    KeptByHandoff = 1
    ContextLimit = 1
    MaxRounds = 1
    MaxSaid = 3
    NoConversation = none
    Speakers = {q1, q2}
    Outputs = {"x", "y"}
    LastStep = 2
    MaxSimilar = 2
    TokenBudget = 2
    WallClock = 1
    MaxEvents = 3
    MaxNow = 2
    NotStarted = none
    Vertices = {q1, q2, none}
    EntryVertex = q1
    MaxIterations = 3
    MaxEdges = 2
    ByCondition = "conditional"
    Nowhere = "nowhere"
    TierNames = {"x", "y", "z"}
    TierRanks = {0, 1}
    MaxTargets = 1
    NoTier = none
SPECIFICATION Spec
PROPERTIES CachedAgentAvailable
CHECK_DEADLOCK FALSE
