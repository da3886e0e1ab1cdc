\* Two threads, one key.
CONSTANTS
    t1 = t1
    t2 = t2
    k1 = k1
    b1 = b1
    Threads = {t1, t2}
    Keys = {k1}
    Buckets = {b1}
    get_bucket_number <- OneBucket
SPECIFICATION Spec
INVARIANT RowsWhole
