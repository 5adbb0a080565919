SPECIFICATION Spec
CONSTANTS
    None = None
    Claims <- LifeClaims
    Lifecycles <- LifeLifecycles
    Observed <- LifeObserved
    Scope <- LifeScope
    Slot <- LifeScope
    Value <- LifeValue
    Exempt <- LifeExempt
    Deps <- LifeDeps
    Rivals <- LifeRivals
    Locators = {"e1", "e2"}
    Contexts = {"x1", "x2"}
    Payloads <- SequencePayloads
    Finalizers = {f1}
    Resolvers = {r1}
    MaxTime = 1
    MaxBackdate = 0
    Digests = {0}
INVARIANTS ExclusiveSlots OneOperationalPath LifecycleFounded SavedIsReadable
