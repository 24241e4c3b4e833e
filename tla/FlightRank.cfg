SPECIFICATION FairSpec
CONSTANTS
    K = 2
    R0 = 1
    MaxExtra = 2
    Margin = 2
    DecodeSlack = 3
INVARIANTS
    TypeOK
    RankIsFirstFlight
    SampledOnce
    SlotSound
PROPERTIES
    WaitEnds
CHECK_DEADLOCK FALSE
