SPECIFICATION Spec
CONSTANTS
    Size = 4
    Ranges <- FileAndRange
    Threads = {1, 2}
    Retries = 1
    PageSize = 1
    Fickle = FALSE
    Blocks = {2}
INVARIANT FinishedIsWhole
CHECK_DEADLOCK FALSE
