\* Two transactions, two execute and two commit threads.
CONSTANTS
    t1 = t1
    t2 = t2
    w1 = w1
    w2 = w2
    c1 = c1
    c2 = c2
    a = a
    b = b
    c = c
    none = none
    Txns = {t1, t2}
    Keys = {a, b, c}
    Modes <- UpdatedAndRead
    Queries <- Workloads
    NoTxn = none
    ReaderLimit = 3
    IdLimit = 4
    Ids <- AnyId
    Arrival <- TwoArrive
    Callers = {w1, w2}
    Committers = {c1, c2}
    Start = 0
SPECIFICATION FairSystemSpec
INVARIANTS
    WordNamesWriter
    LocksTravel
    PhaseInPlace
    SerialInReadyOrder
PROPERTIES
    RefusedByOneUnderWay
    AllCommit
CHECK_DEADLOCK FALSE
