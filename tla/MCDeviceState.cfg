SPECIFICATION Spec
CONSTANTS
    Device = {d1}
    Message = {m1, m2, m3}
    StateFields <- MCStateFields
    SampleFields <- MCShortSample
    Online = "online"
    Prefetch = 2
    MaxTry = 2
    None = None
SYMMETRY Symmetry
INVARIANTS
    TypeOK
    NamesUnique
    LatestUnlessInDoubt
PROPERTY ImplementsBoard
