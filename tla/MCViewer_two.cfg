\* Two faces, two loads, two generations; nothing is violated.
SPECIFICATION Spec
CONSTANTS
    A = A
    B = B
    Faces = {A, B}
    MaxGens = 2
    MaxLoads = 2
    Frames = 2
INVARIANTS
    TypeOK
    StatusIsTrue
SYMMETRY Symmetry
CHECK_DEADLOCK FALSE
