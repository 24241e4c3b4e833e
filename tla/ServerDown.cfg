SPECIFICATION Spec
CONSTANTS
    Client = {c1}
    NoClient = NoClient
    Ops = {"put"}
    Faults = {}
    MaxCopies = 2
INVARIANTS
    StaysServing
CHECK_DEADLOCK FALSE
