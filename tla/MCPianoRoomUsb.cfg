\* Everything that keeps App busy: USB cable, all button events, commands.
CONSTANTS
    Keys = {1}
    Code <- MCShortCode
    ResetTicks = 2
    SignalTicks = 1
    SleepTicks = 1
    UsbTicks = 1
    ButtonEvents = {"beShortPress", "beLongPress"}
    PowerLevels = {FALSE, TRUE}
    Commands = {"CameToLife", "Play"}
SPECIFICATION Spec
INVARIANTS
    UsbFollowsPower
