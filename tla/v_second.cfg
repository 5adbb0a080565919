SPECIFICATION Spec
CONSTANTS
    None = None
    Claims <- ChainClaims
    Lifecycles = {}
    Observed <- ChainClaims
    Scope <- ChainScope
    Slot <- ChainScope
    Value <- ChainValue
    Exempt = {}
    Deps <- NoLifecycle
    Rivals <- NoLifecycle
    Locators = {"e1", "e2"}
    Contexts = {"x1"}
    Payloads <- ChainPayloads
    Finalizers = {f1}
    Resolvers = {}
    MaxTime = 1
    MaxBackdate = 0
    Digests = {0, 1}
INVARIANTS SavedIsReadable
