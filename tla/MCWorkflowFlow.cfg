SPECIFICATION FairSpec
CONSTANTS
    Node <- Three
    Trigger = Trigger
    Condition = {c1, c2}
    Data = {a1}
    Drawing <- MCDrawing
    MaxDepth = 4
    None = None
INVARIANTS
    TypeOK
    NothingElseRuns
    EverythingReachedRuns
PROPERTY CompilerEnds
CHECK_DEADLOCK FALSE
