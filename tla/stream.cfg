\* Two clients that contend for one connection, three events.
SPECIFICATION FairSpec
CONSTANTS
    c1 = c1
    c2 = c2
    Clients = {c1, c2}
    MaxSeq = 2
    MaxConnections = 1
CHECK_DEADLOCK FALSE
INVARIANT NextIsSuccessor
PROPERTY StreamCloses
