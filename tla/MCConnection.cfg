SPECIFICATION FairSpec
CONSTANTS
    HeadLen <- Heads
    BodyLen <- Bodies
    BufMax = 7
    SizeT = 16
    ChunkLens = {0, 1, 2}
    ResMax = 13
    HeaderLens = {4}
    LengthLen = 3
    ServerLen = 3
    DateLen = 3
    KeepLen = 3
    CloseLen = 2
INVARIANTS Framed InStep ResponseFits
PROPERTY EveryRequestAnswered
\* A connection ends.
CHECK_DEADLOCK FALSE
