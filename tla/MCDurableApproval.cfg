CONSTANTS
    Tasks = {t1, t2, t3}
    Waits = {w1}
    NoWait = NoWait
    MaxToolCalls = 1
    MaxApprovals = 1
    FailOpen = TRUE
    Faulty = TRUE
    MaxEvents = 11
SPECIFICATION Spec
SYMMETRY TaskSymmetry
INVARIANTS
    AtMostOneDispatch
    DispatchAuthorized
    RowMatchesJournal
    
