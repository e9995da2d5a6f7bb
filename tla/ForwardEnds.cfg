\* Fairness of the request goroutines, under a channel switched off and on and the
\* deletion of the group: every request ends, and the routing table under it
\* implements the cooldown gate.
SPECIFICATION FairForwardSpec
CONSTANTS
    a = a
    b = b
    None = None
    Member = {a, b}
    Request = {r1, r2}
    Views <- SubLists
    Priority <- ByPriority
    MaxAttempts = 1
    CooldownTime = 1
    AffinityTime = 1
    Hint = {0}
    DbFaults = FALSE
    MaxTime = 2
    Unusable = {b}
    FailFast = TRUE
    ProbeEnabled = FALSE
    MinAttemptCap = 2
    MaxAttemptCap = 3
    WaitCap = 1
    MaxInterrupts = 0
    MaxToggles = 1
    Deletable = TRUE
CHECK_DEADLOCK FALSE
PROPERTIES
    EveryRequestEnds
    CooldownsRespected
