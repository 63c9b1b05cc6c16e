\* Two submissions, a retry each, beside demo loads.
SPECIFICATION Spec
CONSTANTS
    MaxSubmits = 2
    MaxPolls = 1
    MaxTries = 1
    Demo = TRUE
INVARIANTS
    TypeOK
    ViewerIsCurrent
    OneRetryPerSubmit
    LiveIsWatched
PROPERTIES
    OnlyStalePollsSettle
    BusyIsTrue
CHECK_DEADLOCK FALSE
