\* Two transactions: every workload of updates on the rows a and b, and
\* workloads that also read row c.
CONSTANTS
    t1 = t1
    t2 = t2
    a = a
    b = b
    c = c
    none = none
    Txns = {t1, t2}
    Keys = {a, b, c}
    Modes <- OneMixed
    Queries <- Workloads
    Ids = {1}
    NoTxn = none
    ReaderLimit = 2
    IdLimit = 3
SPECIFICATION Spec
INVARIANTS
    TypeOK
    LocksMatchSets
    TxnInv
    WritersExcluded
    OwnerInv
    UpdatesStay
PROPERTIES
    KeepsContract
    ImplementsRWLock
    InstallsUnderLock
    ImplementsSerialStore
CHECK_DEADLOCK FALSE
