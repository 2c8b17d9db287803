CONSTANTS
    Builds = {"readonly", "localwrite"}
    ContractsOf <- BuildContracts
    MaxWrites = 2
    MaxFaults = 2
    Calls = {c1}
    Original = Original
    MaxHangs = 1
    Wanted = "lookup"
    OtherTool = "other"
    Definitions = {"d1", "d2"}
    Pinned = "d1"
    Unsupported = {}
    Cursors = {"next", "again"}
    NoCursor = "none"
    MaxPages = 2
    MaxTools = 2
    MaxMessages = 2
    Payloads <- SomePayloads
    MaxResults = 2
    MaxItemBytes = 2
    MaxTotalBytes = 3
    MaxNodes = 8
    MaxEdges = 10
    MaxBranches = 2
    EvidenceIds = {"e1", "e2"}
    Unfit = {"e2"}
    Forged = "x"
    MaxCitations = 1
    GraphDefinitions <- SomeDefinitions
    People = {"ada", "olga"}
    Workflows = {"health"}
    Allowed = {"health"}
    RequesterMayApprove = FALSE
    RunIds = {1, 2, 3}
    WaitIds = {1}
    SessionIds = {1, 2}
    LegacySession = 0
    Readers <- SomeReaders
    PageItems = 1
    MaxSessions = 1
    MaxRows = 4
SPECIFICATION NodeSpec
CHECK_DEADLOCK FALSE
INVARIANTS
    AuditNeverAhead
    
    ReapedIsDead
    
    CallsPinnedTool
    ServersKilled
    EvidenceDetermined
    AcceptsSound
    ReportsOutcome
    
    CatalogueWhole
PROPERTIES
    Quiesced
    ChildrenEnd
