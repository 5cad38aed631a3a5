\* The first call mounts the volume; waits for the semaphore may time out, and the
\* cable may be pulled.  An assertion that fails stops the system.
CONSTANTS
    none = none
    Threads = {Sound, App, UsbOut}
    FatUsers = {Sound, App}
    UsbUsers = {UsbOut}
SPECIFICATION FairSpec
INVARIANTS
    CardTrue
PROPERTIES
    OkMeansOwnTransfer
    CallReturns
    ServesInOrder
CHECK_DEADLOCK FALSE
