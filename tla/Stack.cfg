SPECIFICATION Spec
CONSTANTS
    MaxDeaths = 1
    MaxCrashes = 1
    MaxCommands = 2
    Uploads = {2}
    MaxLosses = 1
INVARIANTS
    OneLiveInstance
    CommandsInOrder
PROPERTIES
    AskedNodesEnd
    DeadNodesReturn
    LinkLossReaches
CHECK_DEADLOCK FALSE
