SPECIFICATION Spec
CONSTANTS
    TotalBlocks = 1
    ActiveBlocks = 1
    PrefetchDepth = 2
    Worker = {w1}
    Main = main
    MaxSessions = 2
    MaxVersion = 1
    MaxFailures = 0
INVARIANTS
    RebuildMatchesFlight
CHECK_DEADLOCK FALSE
