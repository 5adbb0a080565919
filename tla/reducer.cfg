SPECIFICATION Spec
CONSTANTS
    a = a
    b = b
    Claims = {a, b}
    Rows <- MCRows
    Ids = {0, 1, 2}
    KnowledgeTimes = {0, 1}
    DomainTimes = {0, 1, 2}
INVARIANTS
    FoldIsView
    CorrectionWins
    OnlyOlderDeleted
