CONSTANTS
    t1 = t1
    t2 = t2
    t3 = t3
    Threads <- ThreeThreads
    NoThread = NoThread
    Calls = {"trylock", "relock", "increment", "upgrade", "nested", "abort"}
    MaxOps <- Staggered

SPECIFICATION Spec

INVARIANT TypeOK
INVARIANT Exclusion
INVARIANT CountsMatch
PROPERTY RelockUnchanged

\* Threads stop when they have done MaxOps operations.
CHECK_DEADLOCK FALSE
