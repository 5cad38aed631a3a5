\* Polls of 50 ms or late by 50 ms; the delays of buttons.h in units of 50 ms.
SPECIFICATION BtnSpec
CONSTANTS
    Periods = {1, 2}
    ClickDelay = 12
    LongPressDelay = 20
    QueueLen = 1
INVARIANTS
    OneRowPerPress
PROPERTIES
    RefusedInSleep
