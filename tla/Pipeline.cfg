CONSTANTS
    m1 = m1
    m2 = m2
    Msg = {m1, m2}
    p1 = p1
    p2 = p2
    Partition = {p1}
    MaxFaults = 2
SPECIFICATION OrderedSpec
INVARIANTS
    TypeOK
    NothingLost
    EndsOncePerFault
    StepsInOrder
PROPERTY EverythingSettles
CHECK_DEADLOCK FALSE
