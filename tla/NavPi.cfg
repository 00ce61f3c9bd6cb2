SPECIFICATION Spec
CONSTANTS
    Modes <- FourModes
    PilotPicks <- BrakeOnly
    ReturnMode = "RTL"
    Router = "pi"
    AboutFace = FALSE
    TurnOntoHome = TRUE
    ScanEnabled = TRUE
    FailsafesEnabled = FALSE
    Plans <- LegAndDrop
    MaxOrders = 3
    MaxInterventions = 1
INVARIANTS TypeOK ReturnAsked ResultBelongsToHold HandshakeGate
PROPERTIES LoopStandsDown Flies
CHECK_DEADLOCK FALSE
