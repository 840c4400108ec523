CONSTANTS
    p1 = p1  p2 = p2  a1 = a1  a2 = a2
    IdBits = 3
    Ids = {0, 1, 4, 5}
    my_id = 0
    xor_distance <- Metric
    Addresses = {a1}
    Threads = {p1, p2}
    K = 2
    BucketSize = 1
    Siblings = 2
    SearchShift = 0
    MaxBuckets = 3
    None = None
SPECIFICATION Spec
INVARIANTS QueryMissesNothing NearestOffered
SYMMETRY Symmetry
