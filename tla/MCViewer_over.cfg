\* A second job is loaded while the first one's texture still is.
SPECIFICATION Spec
CONSTANTS
    A = A
    B = B
    Faces = {A}
    MaxGens = 2
    MaxLoads = 2
    Frames = 2
INVARIANTS
    ReadyShowsJob
CHECK_DEADLOCK FALSE
