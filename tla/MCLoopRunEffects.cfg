CONSTANTS
    Nodes = {}
    Kind <- NoKind
    Limit <- OneIteration
    Contract = "RestartableRetrieval"
    FailOpen = FALSE
    MaxFaults = 1
    MaxRetrievals = 1
    MaxSkips = 1
    MaxEvents = 4
SPECIFICATION Spec
CHECK_DEADLOCK FALSE
PROPERTIES
    ImplementsLedger
