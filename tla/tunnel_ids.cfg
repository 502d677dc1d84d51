CONSTANTS
    c1 = c1
    c2 = c2
    c3 = c3
    Conn = {c1, c2, c3}
    NoConn = NoConn
    IdSpace = 4
    FirstId = 3
    MaxUp = 0
    MaxDown = 1
    MaxStray = 1
    MaxHours = 0
SPECIFICATION Spec
SYMMETRY Symmetry
INVARIANTS TypeOK EverySessionFound NoSessionStarves NoIdLeaked
CHECK_DEADLOCK FALSE
