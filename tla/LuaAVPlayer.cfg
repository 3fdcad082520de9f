SPECIFICATION FairLuaSpec
CONSTANTS
    p1 = p1
    p2 = p2
    Player = {p1, p2}
    Kind = {"OnPosChanged", "OnEndReached"}
    Tasks <- TasksDef
    MaxAdds = 3
INVARIANTS UnlockedTestRight NothingLeft DrainedIsSafe
PROPERTIES CallsReturn EventsHandled
CHECK_DEADLOCK FALSE
