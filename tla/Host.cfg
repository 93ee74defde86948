CONSTANTS
    None = None
    MaxDuration = 2
    MaxInject = 2
SPECIFICATION FairSpec
INVARIANTS TypeOK DetectedIsOrdered
PROPERTY TimedFaultEnds
