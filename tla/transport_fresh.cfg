CONSTANTS
    n1 = n1  n2 = n2  n3 = n3
    c1 = c1  c2 = c2
    None = None
    Nodes = {n1, n2}
    Calls = {c1, c2}
    Src <- CrossingSrc
    Dst <- CrossingDst
    Ids = {1, 2}
    MaxAttempts = 2
    QueueCapacity = 1
    FreshIds = TRUE
SPECIFICATION FairSpec
INVARIANTS OwnAnswer SlotOutlivesAwait NoLeakedSlot
PROPERTIES ImplementsService
CHECK_DEADLOCK FALSE
