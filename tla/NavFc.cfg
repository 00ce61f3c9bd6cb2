SPECIFICATION Spec
CONSTANTS
    Modes <- SmartModes
    PilotPicks <- BrakeOnly
    ReturnMode = "SMART_RTL"
    Router = "fc"
    AboutFace = TRUE
    TurnOntoHome = TRUE
    ScanEnabled = FALSE
    FailsafesEnabled = TRUE
    Plans <- OneDrop
    MaxOrders = 2
    MaxInterventions = 2
INVARIANTS ReturnAsked
PROPERTIES LandingHolds NoLandingMidTurn DropTakesAHold
CHECK_DEADLOCK FALSE
