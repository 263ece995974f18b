CONSTANTS
    Timer = {t1, t2}
    Intervals = {1, 2}
    PollCap = 2
    MaxNow = 3
    MaxOps = 2
    None = none
    CancelOneShotAcross = FALSE
    RefreshUnlisted = FALSE
SPECIFICATION FairSpec
PROPERTIES
    DueTimersRun
CHECK_DEADLOCK FALSE
