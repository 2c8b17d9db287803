CONSTANTS
    Nodes = {"d", "m", "r", "a", "c"}
    Kind <- RoutedKind
    Successors <- RoutedSuccessors
    StartNode = "d"
    Limit <- OneEach
    Contract = "Graph"
    FailOpen = FALSE
    MaxFaults = 2
    MaxRetrievals = 2
    MaxSkips = 1
SPECIFICATION FairSpec
CHECK_DEADLOCK FALSE
INVARIANTS
    BudgetKept
PROPERTIES
    ImplementsLedger
    EngineReturns
