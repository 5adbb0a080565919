SPECIFICATION FairSpec
CONSTANTS
    a = a
    b = b
    i = i
    r1 = r1
    r2 = r2
    None = None
    Claims = {a, b, i}
    Observed = {a, b}
    Runs = {r1, r2}
    Procs = {p1, p2}
    Payloads <- AllPayloads
    PayOf <- WidePay
    Final <- WideFinal
    Reviewed = {a, i}
    MaxFaults = 1
INVARIANTS
    TypeOK
    ListedMarkersWhole
    ClosedWithVerdict
    ClosedOnce
PROPERTIES
    OpenRunCloses
    KeepsTheBook
CHECK_DEADLOCK FALSE
