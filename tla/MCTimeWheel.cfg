CONSTANTS
    Timer = {t1, t2, t3}
    MaxSteps = 4
    Steps = {1, 2, 3}
    None = none
SPECIFICATION Spec
INVARIANTS
    TypeOK
    SlotsAgree
    IndexInRange
PROPERTIES
    ImplementsCountdown
CHECK_DEADLOCK FALSE
