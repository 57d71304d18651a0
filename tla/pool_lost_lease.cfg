CONSTANTS
    t1 = t1
    t2 = t2
    t3 = t3
    c1 = c1
    c2 = c2
    NoConn = NoConn
    Tasks = {t1, t2}
    Statements = {}
    Conns = {c1}
    MinSize = 1
    MaxSize = 1
    MaxQueue = 2
    Depth = 1
SPECIFICATION Spec
INVARIANTS NoLeaseIsLost
CHECK_DEADLOCK FALSE
