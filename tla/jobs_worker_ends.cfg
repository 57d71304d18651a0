CONSTANTS
    j1 = j1
    j2 = j2
    w1 = w1
    w2 = w2
    NoKey = NoKey
    NoJob = NoJob
    k = k
    Ids = {j1}
    Keys = {k}
    Payloads = {1, 2}
    Lease = 2
    MaxDelay = 1
    RowBudgets = {1, 2}
    TaskBudget = 2
    Workers = {w1, w2}
    Batch = 2
    Deadline = 1
    Latency = 0
    Responsive = {w1}
    Registry = TRUE
    MaxFence = 3
    Faults = {"selfcancel"}
SPECIFICATION Spec
INVARIANT WorkersOutliveTheirJobs
CHECK_DEADLOCK FALSE
