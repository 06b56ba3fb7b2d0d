SPECIFICATION MCSpec
CONSTANTS
    User = {u1, u2}
    Password = {p1}
    Browser = {b1}
    Refresh = {r1}
    Call = {c1, c2}
    Lifetime = 1
    TTL = 1
    None = None
    Unborn = Unborn
    Removed = Removed
INVARIANTS
    TypeOK
    GrantsEntitled
    SessionsStored
PROPERTIES
    CallsEnd
    RemovedSignedOut
