\* Two transactions given their identifiers by two threads.
CONSTANTS
    t1 = t1
    t2 = t2
    t3 = t3
    w1 = w1
    w2 = w2
    c1 = c1
    c2 = c2
    Txns = {t1, t2}
    Arrival <- TwoArrive
    Callers = {w1, w2}
    Committers = {c1}
    IdLimit = 6
    Start = 0
SPECIFICATION ExecutorSpec
INVARIANT UniqueTxnIds
CHECK_DEADLOCK FALSE
