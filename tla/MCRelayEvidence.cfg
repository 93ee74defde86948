CONSTANTS
    None = None
    Task = {t1, t2}
    Event = {e1, e2}
    Reason = {"delivery_failed"}
    NodeId = "r1"
    MaxRetry = 2
    MaxReset = 0
    MaxReceived = 2
SPECIFICATION Spec
PROPERTY EvidencePreserved
