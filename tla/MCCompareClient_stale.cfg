SPECIFICATION Spec
CONSTANTS
    MaxSubmits = 2
    MaxPolls = 1
    MaxTries = 1
    Demo = FALSE
INVARIANTS
    SettledIsOwn
CHECK_DEADLOCK FALSE
