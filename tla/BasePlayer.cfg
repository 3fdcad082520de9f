SPECIFICATION LiveSpec
CONSTANTS
    b1 = b1
    b2 = b2
    Buffers = {b1, b2}
    Header <- HeaderDef
    QueueMayFail = TRUE
    Callers = {ui}
    Songs = {s1, s2}
    NoSong = NoSong
    worker = worker
    MaxChunks = 2
INVARIANTS PoolConserved NextMeansFinished SilentBetweenSongs
PROPERTIES CommandsSettle RequestSettles
