SPECIFICATION FairSpec
CONSTANTS
    Orders <- OneOrder
    OldOrders <- NoOrders
    Manual <- NoOrders
    OutOfRange <- NoOrders
    AutoAccept = TRUE
    Buttons <- EveryButton
    MaxPresses = 1
    MaxMishaps = 1
INVARIANTS TypeOK OneAtATime
PROPERTIES VerdictStands EndedIsClosed
CHECK_DEADLOCK FALSE
