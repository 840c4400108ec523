CONSTANTS
    r1 = r1  r2 = r2  r3 = r3  f2 = f2  x4 = x4  n1 = n1
    o1 = o1  o2 = o2  text = text  package = package
    t1 = t1  t2 = t2
    Versions = {1, 2, 3, 4}
    Keys = {r1, r2, r3, f2, x4, n1}
    End = End
    Owners = {o1, o2}
    Nobody = Nobody
    MaxChainLength = 3
    Content <- MCContent
    LatestKey = text
    BlobKeys = {text, package}
    Requests <- MCRequests
    Tasks = {t1, t2}
    None = None
SPECIFICATION Spec
INVARIANTS AcknowledgedIsKept StoredIsGenuine AcceptsExactlyExtensions
PROPERTIES NeverRollsBack SignerNeverChanges
SYMMETRY TaskSymmetry
