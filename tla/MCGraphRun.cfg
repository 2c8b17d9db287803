CONSTANTS
    Nodes = {"r", "m", "a", "v", "c", "f"}
    Kind <- WorkflowKind
    Successors <- WorkflowSuccessors
    StartNode = "r"
    Limit <- OneEach
    Contract = "Graph"
    FailOpen = TRUE
    MaxFaults = 2
    MaxRetrievals = 2
    MaxSkips = 1
SPECIFICATION Spec
CHECK_DEADLOCK FALSE
INVARIANTS
    LiveIsReplay
    UnfinishedRunLoads
    SuccessIsDurable
PROPERTIES
    WriteUnderHealthyAudit
