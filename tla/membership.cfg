CONSTANTS
    IdBits = 3
    Nodes = {0, 1, 4, 5}
    xor_distance <- xor
    K = 2
    ALPHA = 2
    Scenarios <- Networks
    None = None
SPECIFICATION FairSpec
INVARIANTS NeverIsolated
CHECK_DEADLOCK FALSE
PROPERTIES KnowledgeIsMutual DeadIsDropped JoinEnds
