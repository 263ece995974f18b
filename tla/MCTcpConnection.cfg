CONSTANTS
    MaxBytes = 3
    SockBuf = 2
    Sizes = {1, 2}
    MaxTasks = 2
SPECIFICATION FairSpec
INVARIANTS
    NoFault
    StreamInOrder
    PendingIsWatched
    DestroyFlushes
PROPERTIES
    NoCallbackWhileDraining
    DestroyedIsFreed
CHECK_DEADLOCK FALSE
