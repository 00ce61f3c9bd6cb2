SPECIFICATION Spec
CONSTANTS
    Orders <- OneOrder
    OldOrders <- NoOrders
    Manual <- NoOrders
    OutOfRange <- NoOrders
    AutoAccept = TRUE
    Buttons <- Flying
    MaxPresses = 0
    MaxMishaps = 0
INVARIANTS NoLockCycle
CHECK_DEADLOCK FALSE
