\* Two generations and three loads over one canvas, under fairness.
SPECIFICATION FairSpec
CONSTANTS
    A = A
    B = B
    Faces = {A}
    MaxGens = 2
    MaxLoads = 3
    Frames = 2
INVARIANTS
    TypeOK
    StatusIsTrue
PROPERTIES
    ViewerRests
CHECK_DEADLOCK FALSE
