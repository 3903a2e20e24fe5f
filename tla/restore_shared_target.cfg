\* A backup of two databases, restored into one.
SPECIFICATION Spec
CONSTANTS
    c1 = c1
    c2 = c2
    o1 = o1
    k1 = k1
    Commands = {c1, c2}
    Objects = {o1}
    Checkpoints = {k1}
    Layouts <- MCSharedTarget
    Limit <- MCLimit
    OldBackups = 0
    MaxBackups = 1
    MaxCommands = 2
    MaxFaults = 0
CHECK_DEADLOCK FALSE
INVARIANTS RestoredIsWhole
