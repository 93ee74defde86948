CONSTANTS
    None = None
    Task = {t1, t2}
    Event = {e1}
    Reason = {"delivery_failed"}
    NodeId = "r2b"
    MaxRetry = 2
    MaxReset = 1
    MaxReceived = 2
SPECIFICATION FairSpec
INVARIANTS TypeOK AckSound PendingOwned NoConcurrentDelivery Accounting
PROPERTIES Answered HopPromise
