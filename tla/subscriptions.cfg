\* Two schedulers, two occurrences, one notice with three contents.
SPECIFICATION FairSpec
CONSTANTS
    w1 = w1
    w2 = w2
    n1 = n1
    Workers = {w1, w2}
    Operator = Operator
    Nobody = Nobody
    Notices = {n1}
    Published <- MCPublished
    Orders = {1}
    NoReport = NoReport
    Patience = 2
    MaxOccurrence = 2
    MaxFailures = 3
    MaxFaults = 1
CHECK_DEADLOCK FALSE
INVARIANTS OneWorkerPerOccurrence InboxMatchesSeen
PROPERTIES ImplementsContract OccurrenceSettles
