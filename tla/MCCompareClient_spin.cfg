\* A second submission, after which a poll of the first one is still answered.
SPECIFICATION Spec
CONSTANTS
    MaxSubmits = 2
    MaxPolls = 1
    MaxTries = 1
    Demo = FALSE
INVARIANTS
    BusyMeansWork
CHECK_DEADLOCK FALSE
