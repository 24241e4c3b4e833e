SPECIFICATION FairSpec
CONSTANTS
    TotalBlocks = 4
    ActiveBlocks = 2
    PrefetchDepth = 3
    Worker = {w1, w2}
    Main = main
    MaxSessions = 2
    MaxVersion = 1
    MaxFailures = 1
INVARIANTS
    TypeOK
    PendingHasOneJob
    PrefetchBounded
PROPERTIES
    AllAdmitted
CHECK_DEADLOCK FALSE
