SPECIFICATION FairSpec
CONSTANTS
    MaxObjects = 3
    ObjectSizes = {0, 1, 3, 6}
    BlockUnits = 4
    Hdr = 1
    NameHdr = 1
    ActiveBlocks = 2
INVARIANTS
    TypeOK
    FinTotalIsFinal
    OkMeansWhole
    StreamCompletes
    SentMeansDecoded
PROPERTIES
    ObjectsArrive
CHECK_DEADLOCK FALSE
