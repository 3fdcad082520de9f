SPECIFICATION LiveSpec
CONSTANTS
    s1 = s1  s2 = s2
    Song = {s1, s2}
    NoSong = NoSong
    FileLen = 2
    MAX_ERROR_CNT = 2
    MaxSeeks = 1
CHECK_DEADLOCK FALSE
INVARIANTS FileIsSong EndsForCause WritesToOpenDecoder
PROPERTIES SongEnds
