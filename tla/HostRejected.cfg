CONSTANTS
    None = None
    MaxDuration = 2
    MaxInject = 2
SPECIFICATION Spec
INVARIANT RejectedStartsNothing
