CONSTANTS
    m1 = m1
    m2 = m2
    Msg = {m1, m2}
    Partition = {p1, p2}
    p1 = p1
    p2 = p2
    MaxFaults = 1
SPECIFICATION Spec
SYMMETRY Symmetry
INVARIANT
    StoredOnce
CHECK_DEADLOCK FALSE
