CONSTANTS
    c1 = c1
    Conn = {c1}
    NoConn = NoConn
    IdSpace = 3
    FirstId = 1
    MaxUp = 0
    MaxDown = 0
    MaxStray = 0
    MaxHours = 0
SPECIFICATION Spec

INVARIANT ServerGoesOn
CHECK_DEADLOCK FALSE
