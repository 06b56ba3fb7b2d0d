SPECIFICATION Spec
CONSTANTS
    Device = {d1}
    Message = {m1}
    StateFields <- MCStateFields
    SampleFields <- MCSampleFields
    Online = "online"
    Prefetch = 2
    MaxTry = 2
    None = None
INVARIANT RowMatchesElements
