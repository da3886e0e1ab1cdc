\* Three workers, two enqueuing threads, three tasks and the destructor.
CONSTANTS
    w1 = w1
    w2 = w2
    w3 = w3
    e1 = e1
    e2 = e2
    x1 = x1
    x2 = x2
    x3 = x3
    none = none
    Workers = {w1, w2, w3}
    Enqueuers = {e1, e2}
    Tasks = {x1, x2, x3}
    NoTask = none
SPECIFICATION FairSpec
INVARIANTS
    NoLostWakeup
    StartedInOrder
    JoinDrains
    PoolInv
PROPERTIES
    AcceptedRuns
    DestructorReturns
CHECK_DEADLOCK FALSE
