CONSTANTS
    e1 = e1  e2 = e2  e3 = e3  c1 = c1
    None = None
    Endpoints = {e1, e2, e3}
    PortCount = 4
    FirstPort = 3
    Start <- CallerAndPeer
    MaxSent = 1
    Calls = {c1}
    Src <- Src1
    Dst <- Dst1
    Size <- Size1
SPECIFICATION FairSpec
INVARIANTS WholeRequestsOnly RefusalIsNotDeath LearnedIsReachable
CHECK_DEADLOCK FALSE
PROPERTIES ImplementsService
