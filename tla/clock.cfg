SPECIFICATION Spec
CONSTANTS
    None = None
    Claims <- ChainClaims
    Lifecycles = {}
    Observed <- ChainClaims
    Scope <- ChainScope
    Slot <- ChainScope
    Value <- ChainValue
    Exempt = {}
    Deps <- NoLifecycle
    Rivals <- NoLifecycle
    Locators = {"e1", "e2"}
    Contexts = {"x1"}
    Payloads <- ChainPayloads
    Finalizers = {f1, f2}
    Resolvers = {}
    MaxTime = 1
    MaxBackdate = 1
    Digests = {0, 1}
SYMMETRY Interchangeable
INVARIANTS TypeOK ViewAgrees
PROPERTIES SavedIsVisible
