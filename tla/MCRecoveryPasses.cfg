\* Two mounts, with requests of every kind at any time while a pass runs.
SPECIFICATION FairSpec
CONSTANTS
    NR = 6
    set_may_go_rw = 4
    When <- Whens
    Options <- Various
    Explicit = {0}
    Persistent = {2}
    Lost <- LostScanned
    Reconstruct = {2, 5}
    Allocs = {"yes", "no"}
    MaxMounts = 2
INVARIANT TypeOK
INVARIANT CompleteInOrder
INVARIANT RequestsHonoured
PROPERTY RwNotRewound
PROPERTY RequiredKept
 
CHECK_DEADLOCK FALSE
