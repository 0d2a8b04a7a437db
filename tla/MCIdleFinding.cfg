CONSTANTS
    Pipe = {p1, p2}
    Operator = {k1}
    Rigger = {k2}
    MaxStarts = 2
    Beyond = TRUE
SPECIFICATION Spec
CHECK_DEADLOCK FALSE
INVARIANT NoCaptureBehindIdle
