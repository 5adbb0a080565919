SPECIFICATION Spec
CONSTANTS
    Claims = {c1, c2}
    Targets = {t1, t2}
    Home = t1
    Writers = {w1, w2}
SYMMETRY Interchangeable
INVARIANTS
    TypeOK
    HostsUnambiguous
    OneTargetPerReply
    NeverInTwoParts
    SteadyIsReported
PROPERTIES
    FreezeHolds
