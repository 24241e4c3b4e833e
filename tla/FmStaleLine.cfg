SPECIFICATION Spec
CONSTANTS
    MaxEpoch = 3
    Items = 1
INVARIANTS
    LineIsCurrent
CHECK_DEADLOCK FALSE
