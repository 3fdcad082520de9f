SPECIFICATION LiveSpec
CONSTANTS
    MaxStarts = 3
    MaxCalls = 4
INVARIANTS DiesCleanly AtMostOneLate
PROPERTIES DestroyedDies
CHECK_DEADLOCK FALSE
