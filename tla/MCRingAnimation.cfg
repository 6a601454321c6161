SPECIFICATION FairSpec
CONSTANTS
    Capacity = 3
    RawCapacity = 2
    DecodeAhead = 8
    LastFrame = 7
    None = None
CHECK_DEADLOCK FALSE
INVARIANTS
    TypeOK
    StreamInOrder
    NoRunaway
    WindowKeepsNextFrame
PROPERTIES
    PlaysOn
