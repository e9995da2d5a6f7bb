\* Two requests of a failover group, a stable member list, request faults fail over.
SPECIFICATION ForwardSpec
CONSTANTS
    a = a
    b = b
    None = None
    Member = {a, b}
    Request = {r1, r2}
    Views <- SubLists
    Priority <- ByPriority
    MaxAttempts = 2
    CooldownTime = 1
    AffinityTime = 1
    Hint = {0}
    DbFaults = FALSE
    MaxTime = 2
    Unusable = {b}
    FailFast = FALSE
    ProbeEnabled = TRUE
    MinAttemptCap = 3
    MaxAttemptCap = 4
    WaitCap = 1
    MaxInterrupts = 1
    MaxToggles = 0
    Deletable = FALSE
CHECK_DEADLOCK FALSE
SYMMETRY Symmetry
INVARIANTS
    NeverResentToRejecter
