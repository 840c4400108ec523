CONSTANTS
    Peers = {1, 2, 4, 5}
    me = 3
    K = 3
    ALPHA = 2
    Scenarios <- AllScenarios
SPECIFICATION FairSpec
INVARIANTS SettledOnNearest FindsNearest ReplicasRead AcknowledgedStores
PROPERTIES LookupEnds
