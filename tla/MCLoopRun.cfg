CONSTANTS
    Nodes = {}
    Kind <- NoKind
    Limit <- TwoIterations
    Contract = "RestartableRetrieval"
    FailOpen = TRUE
    MaxFaults = 2
    MaxRetrievals = 2
    MaxSkips = 1
    MaxEvents = 0
SPECIFICATION FairSpec
CHECK_DEADLOCK FALSE
INVARIANTS
    PhasesInOrder
    EngineMatchesReducer
PROPERTIES
    LoopReturns
