CONSTANTS
    a = a  b = b  t1 = t1  t2 = t2  t3 = t3  p1 = p1  p2 = p2  p3 = p3
    Contacts = {a, b}
    Targets = {t1, t2, t3}
    Threads = {p1, p2}
    Capacity = 1
    MaxGeneration = 2
    None = None
SPECIFICATION Spec
INVARIANTS WritesAreSeen OvershootBounded
SYMMETRY Symmetry
