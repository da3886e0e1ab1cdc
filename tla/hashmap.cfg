\* Two threads with any calls, three keys in two buckets.
CONSTANTS
    t1 = t1
    t2 = t2
    k1 = k1
    k2 = k2
    k3 = k3
    Threads = {t1, t2}
    Keys = {k1, k2, k3}
    N = 2
    Hash <- TwoBuckets
SPECIFICATION Spec
INVARIANTS
    SizeWithinBounds
    ClearSweeps
    HashInv
PROPERTY ImplementsKeySet
