\* Two commands of four kinds, of up to three chunks, and any two faults in their
\* course: the card fails, semSDRW is late, the host resets or recovers, the cable is pulled, an
\* interrupt hits the gap in WaitUntilReady.
\* The host may have no more commands, and a device that has lost step may be deaf.
CONSTANTS
    Ops = {"read", "write", "info", "bad"}
    MaxN = 3
    MaxCmds = 2
    Faults = {"sd", "late", "reset", "recover", "unplug", "gap"}
    MaxFaults = 2
SPECIFICATION FairSpec
INVARIANTS
    GoodMeansDone
    SleepsForTransfer
    BuffersTrue
PROPERTIES
    Answered
CHECK_DEADLOCK FALSE
