\* A poll and a timer with short and long delays, set and reset by threads and
\* by callbacks, while the counter wraps.
CONSTANTS
    Timers = {poll, t1, t2}
    Delays = {1, 4}
    Periodic = {poll}
    Period = 3
    W = 12
    TimeDelta = 2
    Latency = 1
SPECIFICATION VtFairSpec
INVARIANTS
    AlarmTrue
PROPERTIES
    KeepsPromise
