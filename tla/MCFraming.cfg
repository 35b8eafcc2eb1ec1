SPECIFICATION FairSpec
CONSTANTS
    HdrLen = 2
    MaxRecord = 2
    ReadChunk = 4
    MaxOut = 4
    WireUp = 4
    WireDown = 2
    BadLengths <- MCBadLengths
    MaxSent = 2
    MaxReplies = 2
INVARIANTS
    BufferBounded
PROPERTIES
    UpFifo
    DownFifo
    Delivered
CHECK_DEADLOCK FALSE
