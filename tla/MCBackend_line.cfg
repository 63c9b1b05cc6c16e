SPECIFICATION BackendSpec
CONSTANTS
    Parts = {"process"}
    t1 = t1
    t2 = t2
    s1 = s1
    s2 = s2
    Threads = {t1, t2}
    Shapes = {s1, s2}
    MaxJobs = 2
    Modes = {"1", "auto"}
    Disks <- MCDisks
    Roles <- MCRoles
    Volatile = {"bridge"}
    Pieces = 2
    Images <- MCImages
    MaxImage = 2
    Points = 2
    UvLen = 2
    Fits <- MCFits
    Jobs = {"j1", "j2"}
    LetterMax = 2
    MaxMessages = 4
    Size = 8
    Width = 8
    Height = 8
    FeatherPx = 1
    MouthPx = 2
    Scenes <- MCScenes
    SkinCols = 4
    SkinRows = 4
    SkinVerts = 12
    EyeCols = 3
    EyeRows = 2
    SkinTris = 19
    EyeTris = 10
    Heads <- MCHeads
    Pngs = {3, 4, 5, 6}
    Jsons = {9, 12}
INVARIANT MeshLineIsOwn
SYMMETRY Symmetry
CHECK_DEADLOCK FALSE
