SPECIFICATION Spec
CONSTANTS
    TotalBlocks = 2
    K = 1
    InitialRepair = 0
    RepairMargin = 1
    FailMargin = 1
    TailNudge = 0
    ActiveBlocks = 2
    MaxDoneRanges = 1
    MaxOpen = 1
    MaxGhost = 0
    OpenCap = 1
    Upload = FALSE
    Faults = {"hello"}
    DecodeSlack = 2
    MaxEsi = 3
    MaxRepair = 3
    MaxFeedback = 2
INVARIANTS
    OpenTableBounded
    RepairNeverStarves
    Consistent
PROPERTIES
    ViewMonotone
CHECK_DEADLOCK FALSE
