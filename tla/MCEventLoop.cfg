CONSTANTS
    Thread = {loopthr, c1, c2}
    LoopThread = loopthr
    Task = {t1, t2, quit}
    Quit = quit
    None = none
    CallsPerCallback = 1
SPECIFICATION FairSpec
INVARIANTS
    TypeOK
    NoLostWakeup
PROPERTIES
    ImplementsExecutor
    WaitingTasksRun
    QuitEndsLoop
CHECK_DEADLOCK FALSE
