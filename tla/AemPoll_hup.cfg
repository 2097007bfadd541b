SPECIFICATION Spec
CONSTANTS
    Evts = {e1, e2, e3}
    Fds <- OneFd
    Interests <- ReadOnly
    MinAlloc = 1
    ShrinkFactor = 3
    OwnEventOnly = TRUE
    None = None
SYMMETRY Symmetry
INVARIANTS HupReachesAll
