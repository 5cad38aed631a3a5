\* Files may fail, the volume is set, and the decoder answers at any time or
\* uses up each chunk at its own pace.
SPECIFICATION Spec
CHECK_DEADLOCK FALSE
CONSTANTS
    CmdBufSz = 4
    BufChunks = 2
    ZeroChunks = 1
    FileSizes = {0, 5}
    FileErrors = TRUE
    Decoders = {"slow", "any"}
    MaxPlays = 2
    MaxVolumes = 1
INVARIANTS
    IdleFlagTrue
    VolumeArrives
PROPERTIES
    NoTransferCut
    ChunksInOrder
    ZeroesEnd
    RequestTaken
