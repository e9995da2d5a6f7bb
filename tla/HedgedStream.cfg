\* A streaming round that races: the stream of the winner against the end of the race.
SPECIFICATION FairHedgeSpec
CONSTANTS
    a = a
    b = b
    c = c
    d = d
    None = None
    Member = {a, b, c, d}
    Configs <- Settings
    Rankings <- Orders
    Loads = {1, 2}
    DefaultWidth = 2
    MaxWidth = 3
CHECK_DEADLOCK FALSE
INVARIANT
    WinnerStreamLives
