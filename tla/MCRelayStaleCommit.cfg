CONSTANTS
    None = None
    Task = {t1}
    Event = {e1}
    Reason = {"delivery_failed"}
    NodeId = "r1"
    MaxRetry = 2
    MaxReset = 1
    MaxReceived = 2
SPECIFICATION Spec
PROPERTY NoStaleCommit
