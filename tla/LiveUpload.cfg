SPECIFICATION FairSpec
CONSTANTS
    TotalBlocks = 2
    K = 1
    InitialRepair = 0
    RepairMargin = 1
    FailMargin = 1
    TailNudge = 1
    ActiveBlocks = 1
    MaxDoneRanges = 2
    MaxOpen = 2
    MaxGhost = 1
    OpenCap = 2
    Upload = TRUE
    Faults = {"hello", "cancel", "crash"}
    DecodeSlack = 0
    MaxEsi = 2
    MaxRepair = 2
    MaxFeedback = 1
    MaxLoss = 1
INVARIANTS
    TypeOK
PROPERTIES
    ImplementsDelivery
    FileArrives
    SenderFollows
    ServerReceiverFollows
CHECK_DEADLOCK FALSE
