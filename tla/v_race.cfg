SPECIFICATION Spec
CONSTANTS
    None = None
    Claims <- RivalClaims
    Lifecycles = {}
    Observed <- RivalObserved
    Scope <- RivalScope
    Slot <- RivalScope
    Value <- RivalValue
    Exempt = {}
    Deps <- NoLifecycle
    Rivals <- NoLifecycle
    Locators = {"e1", "e2"}
    Contexts = {"x1"}
    Payloads <- PlainPayloads
    Finalizers = {f1, f2}
    Resolvers = {}
    MaxTime = 0
    MaxBackdate = 0
    Digests = {0}
INVARIANTS ExclusiveSlots
