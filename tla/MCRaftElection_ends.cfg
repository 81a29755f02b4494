CONSTANTS
    Node = {n1, n2, n3}
    Value = {v}
    NoVote = NoVote
    Batch = {b1}
    Lane = {}
    MaxTerm = 2
    MaxLogLen = 0
SPECIFICATION LiveSpec
INVARIANT VoteOnce
PROPERTY LeaderOrSplitVote
CHECK_DEADLOCK FALSE
