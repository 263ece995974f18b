CONSTANTS
    Timer = {t1, t2, t3}
    Intervals = {1, 2}
    PollCap = 2
    MaxNow = 3
    MaxOps = 2
    None = none
    CancelOneShotAcross = FALSE
    RefreshUnlisted = FALSE
SPECIFICATION Spec
SYMMETRY TimerSymmetry
INVARIANTS
    NoFault
    MinIsEarliest
    NoOversleep
    OwnedOnce
PROPERTIES
    CancelledNeverRuns
    NeverEarly
CHECK_DEADLOCK FALSE
