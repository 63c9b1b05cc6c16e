SPECIFICATION Spec
CONSTANTS
    Workers = {w1, w2}
    Ttl = 2
    Deadline = 3
    Visibility = 3
    MaxDeliveries = 3
    NoWorker = NoWorker
    CallsFail = TRUE
    DeletesFail = FALSE
    Crashes = TRUE
SYMMETRY WorkerSymmetry
INVARIANTS
    TypeOK
    ResultMatchesStatus
    PhotosMatchMessage
    RunsDoNotOverlap
PROPERTIES
    TerminalStays
CHECK_DEADLOCK FALSE
