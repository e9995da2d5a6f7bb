\* Two clients of one key, by minutes of three ticks with two requests and three tokens; or
\* without limits, two flushes that may meet, two hours, a failing statement.  One restart.
SPECIFICATION KeySpec
CONSTANTS
    Client = {"c1", "c2"}
    Span = 3
    MaxStall = 1
    Limits <- SomeAndNone
    Tokens = {0, 2}
    Target = {"m1"}
    Flush = {"f1", "f2"}
    Retention = 0
    MaxHour = 1
    MaxLogged = 3
    MaxFaults = 1
    MaxBoot = 1
INVARIANTS
    RateKept
    OverrunBounded
    UsageKept
PROPERTIES
    NeverLockedOut
