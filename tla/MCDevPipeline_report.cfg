\* A progress report that fails leaves the job to its alarm.
SPECIFICATION Spec
CONSTANTS
    Threads = {t1}
    NoThread = NoThread
    MaxDeliveries = 1
    CallsFail = TRUE
    DeletesFail = FALSE
    RunnerDies = FALSE
INVARIANTS
    AckedIsOverWithoutReports
CHECK_DEADLOCK FALSE
