\* The lock with the history of what was typed.
CONSTANTS
    Keys = {1, 2}
    Code <- MCCode
    ResetTicks = 3
    SignalTicks = 1
SPECIFICATION HFairSpec
INVARIANTS
    OkStemsFromCode
    PartialCodeWillBeReset
PROPERTIES
    TypedCodeArms
    CodeIsOffered
