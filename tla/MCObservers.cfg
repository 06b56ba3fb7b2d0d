SPECIFICATION MCSpec
CONSTANTS
    m1 = m1
    m2 = m2
    f1 = f1
    f2 = f2
    s1 = s1
    s2 = s2
    Stream = {s1, s2}
    Message = {m1, m2, f1, f2}
    Foreign = {f1, f2}
    Prefetch = 2
    None = None
INVARIANTS
    TypeOK
    ListsAgree
    StreamsFollowStatus
PROPERTY StreamsHear
