\* All nets of four nodes over the chosen wires, reduced two pairs at a time;
\* garbage is collected after three reductions (1000 in the code).
CONSTANTS
    Nodes <- AllNodes
    InitialNets <- SmallNets
    MaxConcurrency = 2
    GcThreshold = 3
    MaxIterations = 8
SPECIFICATION SchedFairSpec
INVARIANTS SchedTypeOK ReducedOnce CacheComplete DoneMeansNormalForm
PROPERTIES PureNetsFinish
\* runToCompletion returns.
CHECK_DEADLOCK FALSE
