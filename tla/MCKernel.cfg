\* Two threads of the common priority, which signal quietly, the receiver below
\* them, the idle thread; two events; a thread that runs yields or sleeps in the end.
CONSTANTS
    a = a
    b = b
    rx = rx
    idle = idle
    NoThread = NoThread
    Threads = {a, b, rx, idle}
    Prio <- MCPrio
    Events = {e1, e2}
    Quiet = {a, b}
    MaxTokens = 2
SPECIFICATION FairSpec
INVARIANTS
    KernelTrue
    NothingLost
    TimerDiesWithCall
PROPERTIES
    ReadyRuns
