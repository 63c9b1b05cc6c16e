\* One submission whose zip is downloaded while a demo load comes to its end.
SPECIFICATION Spec
CONSTANTS
    MaxSubmits = 1
    MaxPolls = 1
    MaxTries = 1
    Demo = TRUE
INVARIANTS
    WorkIsShown
CHECK_DEADLOCK FALSE
