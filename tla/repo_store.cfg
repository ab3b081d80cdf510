SPECIFICATION Spec
CONSTANTS
    Jobs = {j1}
    Threads = {t1, t2}
    Columns = {c1, c2}
    Values = {v1, v2}
    None = None
    MaxCrashes = 1
SYMMETRY Symmetry
INVARIANTS TypeOK CacheBacked LockHeldByWriter
PROPERTIES StoreSpec
