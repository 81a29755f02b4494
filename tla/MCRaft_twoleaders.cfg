CONSTANTS
    Node = {n1, n2, n3}
    Value = {v}
    NoVote = NoVote
    Batch = {b1}
    Lane = {}
    MaxTerm = 3
    MaxLogLen = 0
SYMMETRY Symmetry
SPECIFICATION Spec
INVARIANT ElectionSafety
CHECK_DEADLOCK FALSE
