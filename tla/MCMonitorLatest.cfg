CONSTANTS
    None = None
    Task = {t1}
    Host = {h1}
    MaxSeq = 2
    Kind = {k1}
    LogLimit = 2
    RecentLimit = 1
    MaxArrived = 2
SPECIFICATION Spec
INVARIANT HostStateLatest
