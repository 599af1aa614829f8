SPECIFICATION Spec
CONSTANTS
    t1 = t1
    t2 = t2
    w = w
    f = f
    b = b
    NoProc = NoProc
    Threads = {t1, t2}
    Worker = w
    Flushers = {}
    Blockers = {}
    JOURNAL_STATE_BUF_NR = 4
    JOURNAL_BUF_NR = 4
    CountMax = 3
    OFFSET_MAX = 7
    EntrySizes = {1, 2}
    ResSizes = {2}
    Errors = "none"
    MaxSeq = 5
INVARIANT EntryFits
CHECK_DEADLOCK FALSE
