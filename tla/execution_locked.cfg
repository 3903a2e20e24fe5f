\* Three supersteps, paused after the first; the lock is kept, calls may leave writes behind.
SPECIFICATION Spec
CONSTANTS
    e1 = e1
    e2 = e2
    s1 = s1
    Executions = {e1, e2}
    Sweepers = {s1}
    NoHolder = NoHolder
    NoCheckpoint = NoCheckpoint
    MaxClaims = 3
    LockMayDrop = FALSE
    Steps = 3
    PauseAt = 1
    MaxPuts = 2
SYMMETRY Symmetry
CHECK_DEADLOCK FALSE
INVARIANTS OneGraphAtATime OutcomeIsRecorded CursorIsExact
PROPERTY OwnersCheckpointStands
