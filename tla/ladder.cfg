SPECIFICATION Spec
CONSTANTS
    Contexts = {x1, x2}
    Reports = {"transport", "inferred", "prior"}
    MaxTries = 3
SYMMETRY Interchangeable
INVARIANTS
    TypeOK
    SelectedIsSimplest
    BlockedIsExhausted
    CompleteLadderIsProven
CHECK_DEADLOCK FALSE
