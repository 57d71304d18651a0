CONSTANTS
    t1 = t1
    t2 = t2
    t3 = t3
    c1 = c1
    c2 = c2
    NoConn = NoConn
    Tasks = {t1, t2, t3}
    Statements = {t2, t3}
    Conns = {c1, c2}
    MinSize = 1
    MaxSize = 1
    MaxQueue = 2
    Depth = 2
SPECIFICATION Spec
INVARIANTS TypeOK LeasesAreExclusive NobodyWaitsForAnIdleConnection ServerLoadIsBounded LeasesAreAccountedFor FreedCapacityIsUsed
PROPERTIES AcquireReturns StopReturns
CHECK_DEADLOCK FALSE
