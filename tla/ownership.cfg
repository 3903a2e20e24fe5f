\* Two executions, one startup sweep, two claims; live sessions may lose the lock.
SPECIFICATION FairSpec
CONSTANTS
    e1 = e1
    e2 = e2
    s1 = s1
    Executions = {e1, e2}
    Sweepers = {s1}
    NoHolder = NoHolder
    MaxClaims = 2
    LockMayDrop = TRUE
CHECK_DEADLOCK FALSE
INVARIANT SingleOwner
PROPERTIES HealthyOwnerKeepsRun OutcomeFromOwner ImplementsLifecycle RunLeavesRunning
