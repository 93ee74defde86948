CONSTANTS
    None = None
    Numeral = {"1"}
    NODE_ORDER <- MCNodeOrder
    START_ORDER <- MCStartOrder
    Line <- MCLine
    Watched = {}
    MaxCaller = 2
    MaxRequest = 2
    MaxReport = 2
    MaxSpent = 3
SPECIFICATION Spec
INVARIANTS TypeOK Obeys WholeOrNothing NoOrphan
PROPERTY NoSecondProcess
CHECK_DEADLOCK FALSE
