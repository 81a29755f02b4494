CONSTANTS
    UserId = {u1, u2}
    Name = {root, joe}
    Password = {p, q}
    Db = {db}
    Right = {"read"}
    AdminUser = root
    AdminPassword = p
    Request = {r1, r2}
    Session = {s1}
    None = None
CONSTRAINT TwoAtWork
ACTION_CONSTRAINT NotTwiceFailed
SYMMETRY Symmetry
SPECIFICATION AuthSpec
INVARIANTS MapsAgree AccessIsCurrent FileIsCurrent OpenedByPassword
CHECK_DEADLOCK FALSE
