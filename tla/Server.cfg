SPECIFICATION FairSpec
CONSTANTS
    Client = {c1, c2}
    NoClient = NoClient
    Ops = {"get", "put", "mput", "list", "mkdir", "unlink"}
    Faults = {"silence", "kill", "edit", "empty", "pool"}
    MaxCopies = 1
INVARIANTS
    TypeOK
    PathHoldsWhole
    MkdirToldOnce
    PutOkIsStored
PROPERTIES
    SessionEnds
CHECK_DEADLOCK FALSE
