\* Two handlers, two runs, two slots.
SPECIFICATION FairSpec
CONSTANTS
    h1 = h1
    h2 = h2
    k1 = k1
    k2 = k2
    Requests = {h1, h2}
    Keys = {k1, k2}
    Limit = 2
    Task = Task
    Nobody = Nobody
CHECK_DEADLOCK FALSE
INVARIANT SlotsMatchHolders
PROPERTIES ScheduledOnce SlotsComeBack
