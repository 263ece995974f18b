SPECIFICATION Spec
CONSTANTS
    Styles <- Disciplined
    MaxBytes = 5
    MaxAttempts = 2
    MaxBacklog = 2
    MaxArrivals = 3
    MaxOpen = 2
INVARIANTS FreedOutsideCalls StreamInOrder PendingIsWatched
PROPERTY WaitingServed
CHECK_DEADLOCK FALSE
