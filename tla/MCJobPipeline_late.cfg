SPECIFICATION Spec
CONSTANTS
    Workers = {w1}
    Ttl = 3
    Deadline = 1
    Visibility = 4
    MaxDeliveries = 1
    NoWorker = NoWorker
    CallsFail = FALSE
    DeletesFail = FALSE
    Crashes = FALSE
INVARIANTS
    FailedHasNoResult
CHECK_DEADLOCK FALSE
