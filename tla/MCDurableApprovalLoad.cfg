CONSTANTS
    Tasks = {t1, t2}
    Waits = {w1}
    NoWait = NoWait
    MaxToolCalls = 1
    MaxApprovals = 1
    FailOpen = FALSE
    Faulty = FALSE
    MaxEvents = 12
SPECIFICATION Spec
INVARIANT RecoveryClassifies
CHECK_DEADLOCK FALSE
