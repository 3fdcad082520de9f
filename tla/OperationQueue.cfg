SPECIFICATION LiveSpec
CONSTANTS
    Workers = {w1, w2, w3}
    Clients = {c1}
    Ops = {o1, o2, o3}
    NoOp = NoOp
    StopOps = {o1}
    MaxConcurrency = 2
    MaxTimeOutCnt = 1
INVARIANTS ThreadAccounting StopIsQuiet
PROPERTIES ImplementsTaskQueue EveryOpSettles StopReturns
CHECK_DEADLOCK FALSE
