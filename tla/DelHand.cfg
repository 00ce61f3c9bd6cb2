SPECIFICATION Spec
CONSTANTS
    Orders <- ThreeOrders
    OldOrders <- InTheBook
    Manual <- MadeUp
    OutOfRange <- TooFar
    AutoAccept = FALSE
    Buttons <- ByHand
    MaxPresses = 2
    MaxMishaps = 1
INVARIANTS FliesTheActiveOrder DeliveredOnHandshake CreditsItsOwn EvidenceOfThisFlight
CHECK_DEADLOCK FALSE
