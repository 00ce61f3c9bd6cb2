CONSTANTS
    Quick = TRUE
    SlowWriter = FALSE
    MaxStarts = 2
    MaxCrashes = 1
    MaxFaults = 1
SPECIFICATION Spec
INVARIANTS
    NewestSurvives
PROPERTIES
    OwedIsSettled
CHECK_DEADLOCK FALSE
