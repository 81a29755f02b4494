CONSTANTS
    Session = {s1, s2}
    Db = {d1}
    DefaultDb = test
    Tab = {t1}
    Key = {k1}
    NoKey = NoKey
    Value = {v1}
    MaxDb = 2
    MaxTable = 2
    MaxMap = 2
    MaxDoc = 2
    MaxAuto = 1
SYMMETRY Symmetry
SPECIFICATION MCSpec
INVARIANTS OneTable  SharedOnRequest
CHECK_DEADLOCK FALSE
