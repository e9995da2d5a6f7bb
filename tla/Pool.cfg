\* One operator, two accounts.
SPECIFICATION PoolSpec
CONSTANTS
    Account = {"a", "b"}
    Operator = {"panel"}
    MaxToken = 2
    MaxRestart = 1
CHECK_DEADLOCK FALSE
INVARIANTS
    OperatorsWordHolds
    ServedAsStored
PROPERTIES
    SyncConverges
