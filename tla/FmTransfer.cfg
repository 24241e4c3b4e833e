SPECIFICATION FairSpec
CONSTANTS
    MaxEpoch = 4
    Items = 2
INVARIANTS
    TypeOK
    LockHasAWorker
    ResultIsShown
    CancelStopsDelete
PROPERTIES
    ModalCloses
CHECK_DEADLOCK FALSE
