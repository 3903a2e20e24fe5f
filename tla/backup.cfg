\* Two commands beside a system with one object and one checkpoint.
SPECIFICATION Spec
CONSTANTS
    c1 = c1
    c2 = c2
    o1 = o1
    k1 = k1
    Commands = {c1, c2}
    Objects = {o1}
    Checkpoints = {k1}
    Layouts <- MCLayouts
    Limit <- MCLimit
    OldBackups = 2
    MaxBackups = 3
    MaxCommands = 3
    MaxFaults = 1
CHECK_DEADLOCK FALSE
INVARIANTS BackupResolves RestoredIsWhole
PROPERTIES PruneKeepsNewest
SYMMETRY Alike
