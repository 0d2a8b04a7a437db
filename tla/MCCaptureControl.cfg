CONSTANTS
    Pipe = {p1, p2}
    Operator = {k1}
    Rigger = {k2}
    MaxStarts = 2
    Beyond = FALSE
SPECIFICATION FairSpec
CHECK_DEADLOCK FALSE
INVARIANTS
    TypeOK
    OneHolderIsShown
    NoHandleInAnEmptyRole
    NothingLeftBehind
PROPERTIES
    StopIsFinal
    StopsAndPausesEnd
