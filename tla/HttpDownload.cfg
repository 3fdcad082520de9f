SPECIFICATION LiveSpec
CONSTANTS
    Size = 4
    Ranges <- FileAndRange
    Threads = {1, 2}
    Retries = 1
    PageSize = 1
    Fickle = FALSE
    Blocks = {2}
INVARIANTS RightPlace SuccessIsWhole DeletedIsOver
PROPERTIES DownloadEnds
CHECK_DEADLOCK FALSE
