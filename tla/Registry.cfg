\* Requests one after the other and at once, one page, one administrator: the chain
\* is cut after one round, the history after one request, the page after one update.
SPECIFICATION RegistrySpec
CONSTANTS
    w = w
    a = a
    Request <- Three
    Streaming <- Second
    Page = {w}
    Admin = {a}
    StreamBuffer = 1
    MaxFinished = 1
    DetailMax = 1
    MaxRound <- FirstRetries
CHECK_DEADLOCK FALSE
INVARIANTS
    EveryAttemptOnChain
    BusyIsExact
    PagesMissNothing
    RowsAreFinal
