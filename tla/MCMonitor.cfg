CONSTANTS
    None = None
    Task = {t1, t2}
    Host = {h1, h2}
    MaxSeq = 3
    Kind = {k1, k2}
    LogLimit = 1
    RecentLimit = 2
    MaxArrived = 3
SPECIFICATION Spec
SYMMETRY Symmetry
INVARIANTS TypeOK LogExact OutOfOrderExact
PROPERTY SinkPromise
