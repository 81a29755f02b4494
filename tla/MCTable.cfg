CONSTANTS
    Key = {1, 2, 3, 4}
    Value = {v, w}
    None = None
    MaxLeafKeys = 2
    MaxInternalKeys = 3
    MaxBlock = 7
    Id = {1, 2}
    FieldValue = {x, y}
    Missing = Missing
    Index = {i1}
    Feed = {f1}
    FeedCap = 2
    MaxEntries = 2
    MaxFailures = 1
SPECIFICATION MCSpec
INVARIANTS Balanced ScanIsGet IndexFinds FeedKnows
PROPERTY ImplementsMap
CHECK_DEADLOCK FALSE
