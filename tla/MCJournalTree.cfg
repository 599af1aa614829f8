SPECIFICATION Spec
CONSTANTS
    n1 = n1
    n2 = n2
    t1 = t1
    NoNode = NoNode
    Threads = {t1}
    Nodes = {n1, n2}
    Parent <- LeafAndRoot
    JOURNAL_BUF_NR = 2
    JOURNAL_STATE_BUF_NR = 2
    JOURNAL_PIN = 8
    JournalSkip = 1
    TornWrites = "atomic"
    Faults = "faults"
    SeqMax = 4
    SeqsPerMount = 3
    MaxBsets = 2
    MaxCrashes = 0
INVARIANT TypeOK
INVARIANT NoReplayError
INVARIANT FlushedSurvives
INVARIANT PrefixRecovered
CHECK_DEADLOCK FALSE
