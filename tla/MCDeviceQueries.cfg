SPECIFICATION FairSpec
CONSTANTS
    Device = {d1, d2}
    Readable = {d1}
    Query = {q1, q2}
    Other = {o1}
    Prefetch = 1
    Error = Error
    Empty = Empty
    None = None
INVARIANTS
    TypeOK
    ElementAnswersFit
    NoQueueLeft
PROPERTIES
    QueriesAnswered
