SPECIFICATION Spec
CONSTANTS
    None = None
    Claims <- RivalClaims
    Lifecycles = {}
    Observed <- RivalObserved
    Scope <- RivalScope
    Slot <- RivalScope
    Value <- RivalValue
    Exempt = {}
    Deps <- NoLifecycle
    Rivals <- NoLifecycle
    Locators = {"e1", "e2"}
    Contexts = {"x1"}
    Payloads <- ChangePayloads
    Finalizers = {f1}
    Resolvers = {}
    MaxTime = 1
    MaxBackdate = 1
    Digests = {0}
INVARIANTS SavedIsReadable
