SPECIFICATION FairSpec
CONSTANTS
    HardMax = 2
    SoftMax = 3
    Slice = 2
    MaxEvents = 6
    MaxLives = 2
    MaxBreaks = 2
CHECK_DEADLOCK FALSE
INVARIANTS TypeOK WindowFaithful ShownInOrder
PROPERTIES PageFinishes
