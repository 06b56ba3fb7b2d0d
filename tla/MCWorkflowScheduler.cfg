SPECIFICATION FairSpec
CONSTANTS
    Workflow = {w1}
    Call = {k1, k2, k3}
    Graph = {g1}
    Prefetch = 2
    Empty = Empty
    Bad = Bad
    Absent = Absent
    Keep = Keep
INVARIANTS
    TypeOK
    JobFollowsStore
PROPERTIES
    CallsAnswered
    ComesUp
