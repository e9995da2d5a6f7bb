\* Two members in any ranking, two requests, any database statement may fail.
SPECIFICATION RouteSpec
CONSTANTS
    a = a
    b = b
    None = None
    Member = {a, b}
    Request = {r1, r2}
    Views <- AnyRanking
    MaxAttempts = 2
    CooldownTime = 1
    AffinityTime = 2
    Hint = {0, 2}
    DbFaults = TRUE
    MaxTime = 4
SYMMETRY Symmetry
INVARIANTS
    RouteTypeOK
    CurrentNotCooling
    ProbeSlotExpired
    AffinityWellFounded
    DurableCooldowns
PROPERTIES
    AffinityNotInherited
