SPECIFICATION FairSpec
CONSTANTS
    MinBps = 8
    MaxBps = 2000
    StartBps = 850
    TwoBlocks = 210
    BwWindow = 3
    BwMinSamples = 3
    QdelayHold = 2
    CliffHold = 2
    OversendHold = 2
    BwStall = 2
    LossHold = 2
    StepTicks = 2
    ClimbWait = 2
    ProbeWait = 3
    ProbeTicks = 1
    DrainTicks = 3
    DrainMaxCuts = 2
    CutHoldoff = 2
    ProbeHoldoff = 1
    Capacity = 800
    Weathers = {"hol", "noise"}
    MaxSpells = 2
PROPERTY
    SoftLockClimbs
