CONSTANTS
    None = None
    Numeral = {"1"}
    NODE_ORDER <- MCNodeOrder
    START_ORDER <- MCStartOrder
    Line <- MCLine
    Watched = {"r2"}
    MaxCaller = 2
    MaxRequest = 2
    MaxReport = 2
    MaxSpent = 2
SPECIFICATION FairSpec
PROPERTIES Converges PowerAnswered QuitEnds
CHECK_DEADLOCK FALSE
