\* As many readers of one row as the counter has values.
CONSTANTS
    t1 = t1
    t2 = t2
    a = a
    b = b
    c = c
    none = none
    Txns = {t1, t2}
    Keys = {a}
    Modes <- OnlyRead
    Queries <- TwoReaders
    Ids = {1}
    NoTxn = none
    ReaderLimit = 2
    IdLimit = 3
SPECIFICATION Spec
INVARIANT TxnIdUntouched
CHECK_DEADLOCK FALSE
