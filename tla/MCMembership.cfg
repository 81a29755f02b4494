CONSTANTS
    Node = {n1, n2}
    Callers = {n2}
    Mortal = {n1, n2}
    MaxLate = 1
    None = None
SPECIFICATION Spec
INVARIANT LeftStaysOut
PROPERTIES DeadIsNoticed LiveIsSeen CallsEnd
CHECK_DEADLOCK FALSE
