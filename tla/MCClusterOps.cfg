CONSTANTS
    User = {admin, guest}
    Admin = {admin}
    Node = {n1, n2}
    Request = {r1, r2}
    Token = {k1}
    None = None
    MaxOps = 2
    Transfer = {x1, x2}
    Steps = 2
SPECIFICATION MCSpec
INVARIANTS TokenAdmitsOne RemovalNeverFails UnderWayIsListed
PROPERTY AcceptedEnds
CHECK_DEADLOCK FALSE
