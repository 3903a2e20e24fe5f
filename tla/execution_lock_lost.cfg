\* Two supersteps; the lock's session may be lost under a live owner. No sweep.
SPECIFICATION Spec
CONSTANTS
    e1 = e1
    e2 = e2
    s1 = s1
    Executions = {e1, e2}
    Sweepers = {}
    NoHolder = NoHolder
    NoCheckpoint = NoCheckpoint
    MaxClaims = 2
    LockMayDrop = TRUE
    Steps = 2
    PauseAt = 0
    MaxPuts = 1
SYMMETRY Symmetry
CHECK_DEADLOCK FALSE
INVARIANTS EventsContiguous AttemptsInOrder
PROPERTY EventsByOwner
