CONSTANTS
    None = None
    HostState <- MCHostState
    Reason = {"timeout", "paused"}
    MaxSeq = 3
SPECIFICATION Spec
INVARIANTS TypeOK LocalisationAgrees DetailAgrees SilentOnlyIfReported
PROPERTY NoRepeatedFault
