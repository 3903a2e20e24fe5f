\* Two workers, one of which may lose the lock, and an operator.
SPECIFICATION FairSpec
CONSTANTS
    w1 = w1
    w2 = w2
    o1 = o1
    n1 = n1
    n2 = n2
    Workers = {w1, w2}
    Operators = {o1}
    Importers = {w1, w2, o1}
    Nobody = Nobody
    NoBundle = NoBundle
    Feed <- MCFeed
    Archive <- MCArchive
    MaxPagesPerRun = 2
    MaxRetries = 1
    MaxRuns = 2
    MaxDisturbances = 1
    MaxFaults = 1
CHECK_DEADLOCK FALSE
INVARIANTS CursorCoversImports RowsHaveObjects VersionsDistinct
PROPERTIES CursorNeverGoesBack ImplementsContract EveryRunEnds
