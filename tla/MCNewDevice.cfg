SPECIFICATION FairSpec
CONSTANTS
    Client = {c1}
    Copy = {k1, k2, k3}
INVARIANTS
    TypeOK
    IntervalsMatchStore
    AddedMeansStoredUnlessDropped
PROPERTIES
    ImplementsWizard
    FlashedAnswered
