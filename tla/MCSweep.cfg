SPECIFICATION Spec
CONSTANTS
    Keys <- MCKeys
    Passes = {p1, p2}
    Limit = 1
    MaxPages = 2
    MaxFaults = 1
    MaxPuts = 2
INVARIANTS TypeOK PassIsComplete
PROPERTIES OnlyOverIsSwept ZipsAreSwept
