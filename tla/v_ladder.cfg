SPECIFICATION Spec
CONSTANTS
    Contexts = {x1}
    Reports = {"transport", "other"}
    MaxTries = 3
INVARIANTS
    TransientNeverSaved
CHECK_DEADLOCK FALSE
