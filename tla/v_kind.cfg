SPECIFICATION Spec
CONSTANTS
    None = None
    Claims <- KindClaims
    Lifecycles = {}
    Observed <- KindClaims
    Scope <- KindScope
    Slot <- KindSlot
    Value <- KindValue
    Exempt = {}
    Deps <- NoLifecycle
    Rivals <- NoLifecycle
    Locators = {"e1", "e2"}
    Contexts = {"x1"}
    Payloads <- KindPayloads
    Finalizers = {f1}
    Resolvers = {}
    MaxTime = 0
    MaxBackdate = 0
    Digests = {0}
INVARIANTS ExclusiveSlots
