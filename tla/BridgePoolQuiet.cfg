CONSTANTS
    Worker = {w1, w2, w3, w4}
    Conn = {c1, c2, c3}
    NoConn = NoConn
    LongLived = {}
    MAX_IDLE_WORKERS = 2
SPECIFICATION Spec
SYMMETRY Symmetry
INVARIANT QuietPoolIsSmall
CHECK_DEADLOCK FALSE
