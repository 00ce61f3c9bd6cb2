SPECIFICATION Spec
CONSTANTS
    Orders <- TwoOrders
    Required = 2
    MaxDrops = 1
    MaxRepeats = 0
    MaxCrashes = 1
    MaxMishaps = 1
INVARIANTS
    TypeOK
    SessionBelongsToOrder
    AnswerIsEarned
PROPERTIES
    DropNeedsPresence
    FollowsTheFlight
CHECK_DEADLOCK FALSE
