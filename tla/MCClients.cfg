CONSTANTS
    Client = {a, b}
    Version = "V1_0"
    MaxQueries = 3
    MaxAhead = 2
    Alone = a
    Caller = {x, y, z}
    MaxConns = 2
    MinConns = 1
    MaxCreated = 5
SPECIFICATION MCSpec
INVARIANTS  StopFinds Exclusive NoneLeaks
PROPERTY StopEnds
CHECK_DEADLOCK FALSE
