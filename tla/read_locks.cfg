\* A transaction reads row c and is refused row a while the other updates both.
CONSTANTS
    t1 = t1
    t2 = t2
    a = a
    b = b
    c = c
    none = none
    Txns = {t1, t2}
    Keys = {a, c}
    Modes <- OneMixed
    Queries <- RefusedReader
    Ids = {1}
    NoTxn = none
    ReaderLimit = 4
    IdLimit = 3
SPECIFICATION Spec
INVARIANT LocksExclude
CHECK_DEADLOCK FALSE
