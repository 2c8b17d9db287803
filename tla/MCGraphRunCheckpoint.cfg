CONSTANTS
    Nodes = {"r", "m", "a", "v", "c", "f"}
    Kind <- WorkflowKind
    Successors <- WorkflowSuccessors
    StartNode = "r"
    Limit <- OneEach
    Contract = "Graph"
    FailOpen = FALSE
    MaxFaults = 1
    MaxRetrievals = 1
    MaxSkips = 1
SPECIFICATION Spec
CHECK_DEADLOCK FALSE
INVARIANT CheckpointIsReplay
