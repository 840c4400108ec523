SPECIFICATION FairSpec
CONSTANTS
    n1 = n1
    n2 = n2
    Nodes <- two_nodes
    Owner = Owner
    Other = Other
    None = None
    MaxChainLength = 2
    Blobs = {"x", "y", "z"}
    Files <- outputs
    Version <- texts
    Stem <- one_stem
    TxtKey <- keys
    Key <- hashes
    Address <- addresses
    PrevOption <- prev
    OtherOptions <- options
    Scenarios <- scenarios
INVARIANTS TypeOK NoDanglingPointer PublishedIsGenuine PublishedIsFound OrderlyIsLinear InstalledIsIntact
PROPERTIES Converges
