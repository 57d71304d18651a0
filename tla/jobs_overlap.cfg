CONSTANTS
    j1 = j1
    j2 = j2
    w1 = w1
    w2 = w2
    NoKey = NoKey
    NoJob = NoJob
    k = k
    Ids = {j1, j2}
    Keys = {}
    Payloads = {1}
    Lease = 2
    MaxDelay = 0
    RowBudgets = {2}
    TaskBudget = 1
    Workers = {w1, w2}
    Batch = 2
    Deadline = 1
    Latency = 0
    Responsive = {w1, w2}
    Registry = FALSE
    MaxFence = 3
    Faults = {}
SPECIFICATION Spec
SYMMETRY FullSymmetry
INVARIANT HandlersNeverOverlap
CHECK_DEADLOCK FALSE
