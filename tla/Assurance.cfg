CONSTANTS
    Reach = 2
    Terrains <- TwoTerrains
    MinArea = 2
    BandMin = 1
    BandMax = 3
    MinScore = 1
    TopK = 2
    Tol = 1
    RssiTol = 1
    Alpha = 1
    Beta = 1
    Margin = 1
    SyncWindow = 0
    Association = 1
    MaxSpeed = 0
    IntrusionRadius = 0
    MaxRetries = 1
    MaxRadius = 2
    Views <- SomeViews
    Signals <- SomeSignals
    MaxGap = 1
    MaxTracks = 2
SPECIFICATION Spec
INVARIANTS
    TypeOK
    EndsByGoingHome
PROPERTIES
    ReleaseIsWitnessed
    CalmAttemptsEnd
CHECK_DEADLOCK FALSE
