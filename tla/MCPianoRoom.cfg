\* The game: keys, the operator, the timers and a search of files; no USB cable.
CONSTANTS
    Keys = {1, 2}
    Code <- MCCode
    ResetTicks = 2
    SignalTicks = 1
    SleepTicks = 1
    UsbTicks = 1
    ButtonEvents = {"beClick", "beLongPress"}
    PowerLevels = {FALSE}
    Commands = {"Play"}
SPECIFICATION Spec
INVARIANTS
    OutputsFollowGame
PROPERTIES
    CodeOpens
    LockBehaves
