CONSTANTS
    Worker = {w1, w2, w3, w4}
    Conn = {c1, c2}
    NoConn = NoConn
    LongLived = {c1, c2}
    MAX_IDLE_WORKERS = 2
SPECIFICATION FairSpec
INVARIANTS TypeOK IdleCount
PROPERTIES ServedBesideLongLived SlotIsReplaced
CHECK_DEADLOCK FALSE
