CONSTANTS
    n1 = n1  n2 = n2  n3 = n3
    c1 = c1  c2 = c2
    None = None
    Nodes = {n1, n2, n3}
    Calls = {c1, c2}
    Src <- SameNodeSrc
    Dst <- TwoPeersDst
    Ids = {1}
    MaxAttempts = 2
    QueueCapacity = 1
    FreshIds = FALSE
SPECIFICATION Spec
INVARIANTS AnswerFromPeer
CHECK_DEADLOCK FALSE
