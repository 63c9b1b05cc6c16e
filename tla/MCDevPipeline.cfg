\* Two threads, a message delivered three times, every failure but that of a delete.
SPECIFICATION FairSpec
CONSTANTS
    Threads = {t1, t2}
    NoThread = NoThread
    MaxDeliveries = 3
    CallsFail = TRUE
    DeletesFail = FALSE
    RunnerDies = TRUE
INVARIANTS
    TypeOK
    DoneIsClean
    RunIsClosed
PROPERTIES
    TerminalStays
    ZipForgotten
CHECK_DEADLOCK FALSE
