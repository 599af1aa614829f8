SPECIFICATION Spec
CONSTANTS
    t1 = t1
    t2 = t2
    w = w
    f = f
    b = b
    NoProc = NoProc
    Threads = {t1, t2}
    Worker = w
    Flushers = {f}
    Blockers = {}
    JOURNAL_STATE_BUF_NR = 2
    JOURNAL_BUF_NR = 2
    CountMax = 2
    OFFSET_MAX = 7
    EntrySizes = {2}
    ResSizes = {1}
    Errors = "none"
    MaxSeq = 2
INVARIANT FetchQuiesced
CHECK_DEADLOCK FALSE
