\* The parallel DAG of two tasks that executePipeline builds.
CONSTANTS
    Nodes <- AllNodes
    InitialNets <- DagOnly
    MaxConcurrency = 2
    GcThreshold = 3
    MaxIterations = 8
SPECIFICATION SchedFairSpec
PROPERTIES ReachesNormalForm
CHECK_DEADLOCK FALSE
