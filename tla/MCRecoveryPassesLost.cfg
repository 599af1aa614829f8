\* A node of the alloc btree is lost.
SPECIFICATION Spec
CONSTANTS
    NR = 6
    set_may_go_rw = 4
    When <- Whens
    Options <- Plain
    Explicit = {}
    Persistent = {}
    Lost <- LostAlloc
    Reconstruct = {2, 5}
    Allocs = {"yes"}
    MaxMounts = 1
INVARIANT RequestsNotForgotten
CHECK_DEADLOCK FALSE
