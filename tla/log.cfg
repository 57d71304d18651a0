CONSTANTS
    s1 = s1
    s2 = s2
    r = r
    k = k
    NoKey = NoKey
    Streams = {s1, s2}
    Readers = {r}
    Scope <- ReadsOne
    Limit = 1
    Keys = {k}
    Retain = TRUE
    MaxXid = 3
    MaxSeq = 2
    MaxResumes = 1
    Produced = s1
    Capacity = 2
    Rungs = {1}
    MaxOffers = 3
    Failures = {"error"}
SPECIFICATION BufSpec
INVARIANTS TypeOK NeverSkips LossIsCounted
PROPERTIES ImplementsFeed CatchesUp
CHECK_DEADLOCK FALSE
