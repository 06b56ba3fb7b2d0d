SPECIFICATION MCSpec
CONSTANTS
    n1 = n1
    n2 = n2
    k1 = k1
    k2 = k2
    k3 = k3
    g1 = g1
    g2 = g2
    p1 = p1
    p2 = p2
    Device = {d1}
    Nr = {n1, n2, g1, g2}
    Garbled = {g1, g2}
    Call = {k1, k2, k3}
    Period = {p1, p2}
    Prefetch = 2
    NoPeriod = NoPeriod
    NoRequest = NoRequest
INVARIANTS
    TypeOK
    SampleBound
    ThrottleFollowsStore
PROPERTIES
    NoSampleOfForgotten
    ReadingsDrain
    CallsAnswered
