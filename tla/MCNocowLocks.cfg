SPECIFICATION Spec
CONSTANTS
    NoThread = NoThread
    Threads = {t1, t2, t3}
    Buckets = {0, 1, 2}
    NSlots = 2
    IntMax = 1
    MaxOps = 1
INVARIANTS TypeOK UpdateExcludesCopy CountsAreHolders NoBug
PROPERTY LockGranted
PROPERTY ImplementsModeLocks
CHECK_DEADLOCK FALSE
