\* Four members, every trigger: at most three calls, each may answer, fail, time out
\* or be cancelled.
SPECIFICATION FairHedgeSpec
CONSTANTS
    a = a
    b = b
    c = c
    d = d
    None = None
    Member = {a, b, c, d}
    Configs <- Settings
    Rankings <- Orders
    Loads = {1, 2}
    DefaultWidth = 2
    MaxWidth = 3
CHECK_DEADLOCK FALSE
INVARIANTS
    LostOnlyWhenAllFailed
    LosersAreCanceled
PROPERTIES
    EveryRaceEnds
