CONSTANTS
    None = None
    MaxEvent = 2
    MaxRetry = 2
    MaxSlot = 2
    MaxFault = 2
SPECIFICATION FairSpec
INVARIANTS TypeOK SuspectAtOrAboveFault CacheSound
PROPERTIES Settles RoutePromise
