CONSTANTS
    m1 = m1
    g1 = g1
    p1 = p1
    k1 = k1
    k2 = k2
    NoCopy = NoCopy
    Msgs = {m1}
    Groups = {g1}
    Procs = {p1}
    Consumers = {k1, k2}
    Home <- OneProcess
    GroupOf <- OneGroup
    Lease = 1
    MaxWait = 1
    MaxAttempts = 3
    Retries = 1
SPECIFICATION Spec
INVARIANTS TypeOK NothingHeardIsSleptThrough DeliveriesAreBounded
PROPERTIES ImplementsFencedWork EveryCopySettles
CHECK_DEADLOCK FALSE
