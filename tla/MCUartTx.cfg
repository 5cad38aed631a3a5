\* Messages with and without the lock, whether the ring has room for them or not;
\* their lengths do and do not divide it.
\* Nobody has to print.
CONSTANTS
    Word = 64
    Pieces <- MCPieces
    Size = 7
    Formats <- MCFormats
    FormatsC <- MCFormatsC
    MaxOwed = 8
SPECIFICATION FairSpec
INVARIANTS
    RingTrue
    DmaInside
    CutsRight
PROPERTIES
    AllIsSent
CHECK_DEADLOCK FALSE
