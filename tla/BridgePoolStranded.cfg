CONSTANTS
    Worker = {w1, w2, w3}
    Conn = {c1, c2, c3}
    NoConn = NoConn
    LongLived = {}
    MAX_IDLE_WORKERS = 2
SPECIFICATION FairSpec
PROPERTY NeverStranded
CHECK_DEADLOCK FALSE
