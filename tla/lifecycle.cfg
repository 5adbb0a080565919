SPECIFICATION Spec
CONSTANTS
    None = None
    Claims <- LifeClaims
    Lifecycles <- LifeLifecycles
    Observed <- LifeObserved
    Scope <- LifeScope
    Slot <- LifeScope
    Value <- LifeValue
    Exempt <- LifeExempt
    Deps <- LifeDeps
    Rivals <- LifeRivals
    Locators = {"e1", "e2"}
    Contexts = {"x1"}
    Payloads <- LifePayloads
    Finalizers = {f1, f2}
    Resolvers = {r1}
    MaxTime = 0
    MaxBackdate = 0
    Digests = {0}
SYMMETRY Interchangeable
INVARIANTS LifecycleFounded
