\* Two executions of two transactions that update one row.
CONSTANTS
    t1 = t1
    t2 = t2
    a = a
    none = none
    Txns = {t1, t2}
    Keys = {a}
    Modes <- OnlyUpdated
    Queries <- SameUpdate
    Ids = {1}
    NoTxn = none
    ReaderLimit = 2
    IdLimit = 3
SPECIFICATION Spec
INVARIANT Deterministic
CHECK_DEADLOCK FALSE
