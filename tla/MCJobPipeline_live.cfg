SPECIFICATION FairSpec
CONSTANTS
    Workers = {w1, w2}
    Ttl = 1
    Deadline = 1
    Visibility = 1
    MaxDeliveries = 2
    NoWorker = NoWorker
    CallsFail = FALSE
    DeletesFail = TRUE
    Crashes = FALSE
PROPERTIES
    ZipForgotten
CHECK_DEADLOCK FALSE
