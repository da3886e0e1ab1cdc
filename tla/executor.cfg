\* Three transactions, two execute and two commit threads.
CONSTANTS
    t1 = t1
    t2 = t2
    t3 = t3
    w1 = w1
    w2 = w2
    c1 = c1
    c2 = c2
    Txns = {t1, t2, t3}
    Arrival <- ThreeArrive
    Callers = {w1, w2}
    Committers = {c1, c2}
    IdLimit = 6
    Start = 0
SPECIFICATION FairExecutorSpec
INVARIANTS
    ExecutorTypeOK
    EachInOnePlace
    CommitsStartInReadyOrder
    OneAtATime
    OneIdPerTxn
    SuccessiveIdsDiffer
PROPERTY EveryTxnCommits
CHECK_DEADLOCK FALSE
