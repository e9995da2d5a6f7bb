\* One request of the panel at a time: two nodes, two ports, one restart of the program.
SPECIFICATION CoreSpec
CONSTANTS
    Node = {1, 2}
    Pool = {1, 2}
    Bound = {}
    Operator = {1}
    MaxCore = 2
    MaxOccupied = 1
    MaxRestarts = 1
CHECK_DEADLOCK FALSE
INVARIANTS
    NeverAnotherExit
    NoCoreLost
