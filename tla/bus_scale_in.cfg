CONSTANTS
    g1 = g1
    p1 = p1
    p2 = p2
    orders = orders
    NoName = NoName
    Groups = {g1}
    Procs = {p1, p2}
    Subs <- BothConsume
    Name <- OneService
SPECIFICATION Spec
PROPERTIES OnlyTheAbsentAreRemoved
CHECK_DEADLOCK FALSE
