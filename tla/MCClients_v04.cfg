CONSTANTS
    Client = {a, b}
    Version = "V0_4"
    MaxQueries = 2
    MaxAhead = 2
    Alone = a
    Caller = {x, y, z}
    MaxConns = 2
    MinConns = 1
    MaxCreated = 5
SPECIFICATION MCSpec
PROPERTY DriverConnects
CHECK_DEADLOCK FALSE
