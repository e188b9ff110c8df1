\* Two streams, two publishers with two events each.
SPECIFICATION FairSpec
CONSTANTS
    u1 = u1
    s1 = s1
    s2 = s2
    p1 = p1
    p2 = p2
    Users = {u1}
    Streams = {s1, s2}
    UserOf <- MCUserOf
    Publishers = {p1, p2}
    Capacity = 2
    MaxEvents = 2
INVARIANTS
    TypeOK
    NeverPanics
    MapIsExact
    InOrder
    EachConsidered
PROPERTIES
    CallsReturn
CHECK_DEADLOCK FALSE
