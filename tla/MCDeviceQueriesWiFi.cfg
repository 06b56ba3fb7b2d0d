SPECIFICATION Spec
CONSTANTS
    Device = {d1}
    Readable = {d1}
    Query = {q1}
    Other = {o1}
    Prefetch = 1
    Error = Error
    Empty = Empty
    None = None
INVARIANT WiFiAnswersFit
