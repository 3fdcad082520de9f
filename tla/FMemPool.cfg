SPECIFICATION LiveSpec
CONSTANTS
    t1 = t1  t2 = t2  b1 = b1  b2 = b2  b3 = b3
    Thread = {t1, t2}
    Buffer = {b1, b2, b3}
    Lock = {1, 2}
    MaxNest = 1
    m_nMaxSize = 2
    ULong = 8
    MaxCalls = 5
CHECK_DEADLOCK FALSE
INVARIANTS BlocksInOnePlace CountersHold
PROPERTIES ImplementsReadersWriters CallsReturn
