\* Bursts that the ring can tell from none.
CONSTANTS
    RxSize = 4
    LineSize = 3
    Chars = {"a", "b"}
    Burst = 3
SPECIFICATION RxFairSpec
INVARIANTS
    LineTrue
PROPERTIES
    LinesAreHandled
CHECK_DEADLOCK FALSE
