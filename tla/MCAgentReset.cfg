CONSTANTS
    None = None
    HostState <- MCHostState
    Reason = {"timeout", "paused"}
    MaxSeq = 2
SPECIFICATION Spec
INVARIANT SilentAfterReset
