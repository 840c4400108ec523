CONSTANTS
    p1 = p1  p2 = p2  a1 = a1  a2 = a2
    IdBits = 3
    Ids = {0, 1, 4}
    my_id = 0
    xor_distance <- Metric
    Addresses = {a1, a2}
    Threads = {p1, p2}
    K = 1
    BucketSize = 1
    Siblings = 1
    SearchShift = 1
    MaxBuckets = 2
    None = None
SPECIFICATION Spec
INVARIANTS TypeOK LayersAgree
PROPERTIES RemovalIsComplete
SYMMETRY Symmetry
