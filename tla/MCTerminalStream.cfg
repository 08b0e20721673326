SPECIFICATION FairSpec
CHECK_DEADLOCK FALSE
CONSTANTS
    CAPACITY = 5
    BATCH = 2
    CREDIT = 3
    MaxOutput = 14
    MaxChunk = 5
    MaxBinds = 2
INVARIANTS
    FramesFit
PROPERTIES
    CatchesUp
