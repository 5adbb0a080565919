SPECIFICATION Spec
CONSTANTS
    Initializers = {p1, p2}
    MaxFaults = 3
SYMMETRY Interchangeable
INVARIANTS
    TypeOK
    OneInitializes
    AuthorityInOrder
    InitializedIsInstalled
PROPERTIES
    ReadyIsTrue
