CONSTANTS
    Thread = {t1, t2}
    Closer = {}
    NoThread = NoThread
    Absent = Absent
    Value = {v1}
    Zero = Zero
    MaxBlock = 3
    MaxSize = 2
    Faulty = FALSE
SYMMETRY Symmetry
SPECIFICATION Spec
INVARIANT OneElementEach
PROPERTY ImplementsStore
CHECK_DEADLOCK FALSE
