\* The sensors at any moment; an operator who once presses the button or gives a
\* command.  An assertion of the kernel may stop the system.
CONSTANTS
    Gestures <- MCGestures
    SoundTicks = {1, 3}
    HeadUpTicks = 1
    TunnelTicks = 2
    WinkTicks = 1
    SignalTicks = 1
    PressTicks = 1
    Longest = 4
    MaxPoss = 3
    Interventions = {"beShortPress", "CameToLife", "Smile", "Wink"}
    MaxGiven = 1
SPECIFICATION FairSpec
INVARIANTS
    
    GesturesFollowTable
PROPERTIES
    WaitsForHead
    HeartOpensDoor
CHECK_DEADLOCK FALSE
