CONSTANTS
    NBins = 6
    Blind = {4}
    MaxRange = 3
    AngularTol = 1
    RangeTol = 1
    Depth = 3
    MinSupport = 2
    MinPoints = 2
    Fills <- Fills2
    SparseHits = 3
    MaxMisses = 3
    Coast = 3
    MaxDt = 4
    SectorBins = 2
    NeedPoints = 2
    SectorDepth = 3
    Things <- TwoThings
    Specks <- OneSpeck
    Quiet = 2
    Window = 6
    Memory = 9
    MaxEvents = 3
SPECIFICATION Spec
INVARIANTS
    OnlyObjectsSteer
    SteadyObjectReported
PROPERTIES
    PictureSettles
CHECK_DEADLOCK FALSE
