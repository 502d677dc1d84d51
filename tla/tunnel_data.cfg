CONSTANTS
    c1 = c1
    c2 = c2
    Conn = {c1, c2}
    NoConn = NoConn
    IdSpace = 4
    FirstId = 3
    MaxUp = 2
    MaxDown = 2
    MaxStray = 0
    MaxHours = 1
SPECIFICATION Spec
SYMMETRY Symmetry
INVARIANT PayloadsInOrder
CHECK_DEADLOCK FALSE
