CONSTANTS
    t1 = t1
    t2 = t2
    t3 = t3
    Threads <- ThreeThreads
    NoThread = NoThread
    Calls = {"abort"}
    MaxOps <- OneOnce

SPECIFICATION FairSpec

PROPERTY LockReturns

\* Threads stop when they have done MaxOps operations.
CHECK_DEADLOCK FALSE
