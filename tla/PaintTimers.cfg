SPECIFICATION TimersSpec
CONSTANTS
    c1 = c1
    c2 = c2
    Nobody = Nobody
    Control = {c1, c2}
    LocalID = {1, 2}
    IdModulus = 3
    FirstID = 4
    MaxCreated = 4
INVARIANTS SendersAlive EventOfItsOwn
CHECK_DEADLOCK FALSE
