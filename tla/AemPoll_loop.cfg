SPECIFICATION FairSpec
CONSTANTS
    Evts = {e1, e2, e3}
    Fds <- OneFd
    Interests <- ReadOnly
    MinAlloc = 1
    ShrinkFactor = 3
    OwnEventOnly = FALSE
    None = None
INVARIANTS TypeOK ArraysHold NothingStale
PROPERTIES AbsSpec RoundEnds
