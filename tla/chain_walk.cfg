CONSTANTS
    k1 = k1  k2 = k2  k3 = k3  o1 = o1
    Versions = {1, 2, 3}
    Keys = {k1, k2, k3}
    End = End
    Owners = {o1}
    Nobody = Nobody
    MaxChainLength = 2
    Contents <- MCContents
    Pointers <- MCPointers
SPECIFICATION FairWalkSpec
INVARIANTS WalkIsSound WalkIsComplete
PROPERTIES WalkEnds
CHECK_DEADLOCK FALSE
