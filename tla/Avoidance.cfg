CONSTANTS
    Half = 2
    Fov = 1
    FrontHalf = 0
    YawRelease = 0
    Stops = {1, 2}
    Outer = 4
    Release = 2
    SideClear = 2
    Vfh = TRUE
    Dodges = TRUE
    MinValley = 1
    VfhRange = 4
    Safety <- MCSafety
    Floor = 25
    SteerRate = 1
    HeadingRate = 2
    DodgeTicks = 2
    ResendTicks = 4
    MaxOff = 1
    Waypoints = 1
    Scenes <- MCScenes
    Goals = {1, 2}
    LegLength = 2
    MaxLateral = 3
    Changes = 2
SPECIFICATION Spec
INVARIANTS BrakeShownHolds DodgeStaysNear
PROPERTIES MissionGoesOn
CHECK_DEADLOCK FALSE
