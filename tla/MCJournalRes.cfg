SPECIFICATION Spec
CONSTANTS
    t1 = t1
    t2 = t2
    w = w
    f = f
    b = b
    NoProc = NoProc
    Threads = {t1, t2}
    Worker = w
    Flushers = {}
    Blockers = {}
    JOURNAL_STATE_BUF_NR = 2
    JOURNAL_BUF_NR = 2
    CountMax = 2
    OFFSET_MAX = 7
    EntrySizes = {2}
    ResSizes = {1}
    Errors = "errors"
    MaxSeq = 3
INVARIANT TypeOK
INVARIANT ResSeqCorrect
INVARIANT WrittenEntryQuiesced
INVARIANT CountsMatch
INVARIANT PinAccounted
INVARIANT NoBug
CHECK_DEADLOCK FALSE
