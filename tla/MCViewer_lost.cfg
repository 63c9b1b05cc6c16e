\* A context is lost while the other face loads.
SPECIFICATION Spec
CONSTANTS
    A = A
    B = B
    Faces = {A, B}
    MaxGens = 1
    MaxLoads = 1
    Frames = 2
INVARIANTS
    LostIsSaid
CHECK_DEADLOCK FALSE
