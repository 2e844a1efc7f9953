SPECIFICATION FairSpec
CONSTANTS
    c1 = c1
    c2 = c2
    c3 = c3
    s1 = s1
    s2 = s2
    r1 = r1
    r2 = r2
    r3 = r3
    Conns = {c1, c2, c3}
    Sessions = {s1, s2}
    Requests = {r1, r2}
    SidOf <- SharedSid
    Target <- Named
    NoConn = NoConn
    Garbled = Garbled
INVARIANTS
    TypeOK
    RegistryNeverDangles
    ServedIsReachable
    NeverMisrouted
    UnracedAnswerHonest
PROPERTY
    BrokenIsForgotten
CHECK_DEADLOCK FALSE
