\* One submission and its retry, two polls in flight at once, beside demo loads,
\* under fairness.
SPECIFICATION FairSpec
CONSTANTS
    MaxSubmits = 1
    MaxPolls = 2
    MaxTries = 2
    Demo = TRUE
PROPERTIES
    WorkEnds
CHECK_DEADLOCK FALSE
