SPECIFICATION Spec
CONSTANTS
    None = None
    Claims <- RivalClaims
    Lifecycles = {}
    Observed <- RivalObserved
    Scope <- RivalScope
    Slot <- RivalScope
    Value <- RivalValue
    Exempt = {}
    Deps <- NoLifecycle
    Rivals <- NoLifecycle
    Locators = {"e1", "e2"}
    Contexts = {"x1"}
    Payloads <- RivalPayloads
    Finalizers = {f1, f2}
    Resolvers = {r1}
    MaxTime = 0
    MaxBackdate = 0
    Digests = {0}
SYMMETRY Interchangeable
INVARIANTS SettledOnce OnlyObservedAccepted SupersededForCause
PROPERTIES KeepsTheBook
