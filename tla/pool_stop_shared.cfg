CONSTANTS
    t1 = t1
    t2 = t2
    t3 = t3
    c1 = c1
    c2 = c2
    NoConn = NoConn
    Tasks = {t1, t2}
    Statements = {t2}
    Conns = {c1, c2}
    MinSize = 1
    MaxSize = 2
    MaxQueue = 2
    Depth = 2
SPECIFICATION Spec
PROPERTY StopClosesEverything
CHECK_DEADLOCK FALSE
