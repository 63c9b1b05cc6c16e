\* A clear while a texture loads.
SPECIFICATION Spec
CONSTANTS
    A = A
    B = B
    Faces = {A}
    MaxGens = 2
    MaxLoads = 1
    Frames = 2
INVARIANTS
    ClearedStaysNeutral
CHECK_DEADLOCK FALSE
