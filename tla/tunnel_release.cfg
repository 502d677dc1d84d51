CONSTANTS
    c1 = c1
    Conn = {c1}
    NoConn = NoConn
    IdSpace = 3
    FirstId = 1
    MaxUp = 0
    MaxDown = 1
    MaxStray = 1
    MaxHours = 0
SPECIFICATION Spec

INVARIANT ReleasedOnlyWhenClosed
CHECK_DEADLOCK FALSE
