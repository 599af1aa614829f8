SPECIFICATION Spec
CONSTANTS
    n1 = n1
    n2 = n2
    t1 = t1
    NoNode = NoNode
    Threads = {t1}
    Nodes = {n1}
    Parent <- OnlyRoots
    JOURNAL_BUF_NR = 2
    JOURNAL_STATE_BUF_NR = 2
    JOURNAL_PIN = 8
    JournalSkip = 1
    TornWrites = "atomic"
    Faults = "none"
    SeqMax = 6
    SeqsPerMount = 2
    MaxBsets = 2
    MaxCrashes = 1
INVARIANT NoReplayError
INVARIANT PrefixRecovered
INVARIANT PinsInFifo
INVARIANT UsersInFifo
CHECK_DEADLOCK FALSE
