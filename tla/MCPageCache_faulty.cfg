CONSTANTS
    Thread = {t1, t2}
    Closer = {t1, t2}
    NoThread = NoThread
    Absent = Absent
    Value = {v1}
    Zero = Zero
    MaxBlock = 2
    MaxSize = 1
    Faulty = TRUE
SPECIFICATION LiveSpec
INVARIANTS CleanIsWritten FreshIds
PROPERTIES ImplementsStore CallsReturn
CHECK_DEADLOCK FALSE
