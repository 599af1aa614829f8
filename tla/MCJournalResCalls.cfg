SPECIFICATION FairSpec
CONSTANTS
    t1 = t1
    t2 = t2
    w = w
    f = f
    b = b
    NoProc = NoProc
    Threads = {t1}
    Worker = w
    Flushers = {f}
    Blockers = {b}
    JOURNAL_STATE_BUF_NR = 2
    JOURNAL_BUF_NR = 2
    CountMax = 2
    OFFSET_MAX = 7
    EntrySizes = {2}
    ResSizes = {1}
    Errors = "none"
    MaxSeq = 3
INVARIANT ClosedFetchQuiesced
INVARIANT BlockQuiesces
PROPERTY FetchReturns
PROPERTY BlockReturns
CHECK_DEADLOCK FALSE
