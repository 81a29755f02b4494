CONSTANTS
    Node = {n1, n2}
    Value = {v}
    NoVote = NoVote
    Batch = {b1}
    Lane = {1}
    MaxTerm = 3
    MaxLogLen = 3
    Writer = {w1, w2}
    SnapshotThreshold = 2
    MaxIndex = 4
SYMMETRY MCSymmetry
SPECIFICATION MCSpec
INVARIANTS TypeOK IndexIsPosition LeaderHasBackers LoopComputesAppendNew Durable KeepsNew
PROPERTY TermMonotonic
CHECK_DEADLOCK FALSE
