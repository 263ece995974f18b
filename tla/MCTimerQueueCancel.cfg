CONSTANTS
    Timer = {t1, t2}
    Intervals = {1, 2}
    PollCap = 2
    MaxNow = 3
    MaxOps = 2
    None = none
    CancelOneShotAcross = TRUE
    RefreshUnlisted = FALSE
SPECIFICATION Spec
INVARIANTS
    NoFault
CHECK_DEADLOCK FALSE
