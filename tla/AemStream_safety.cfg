SPECIFICATION Spec
CHECK_DEADLOCK FALSE
CONSTANTS
    Sources = {so1, so2}
    Sinks = {si1, si2}
    Streams = {st1, st2, st3}
    MaxDepth = 3
    Rewire = FALSE
    Reentrant = FALSE
    None = None
SYMMETRY Symmetry
INVARIANTS TypeOK LinksHold FramesLive FinDelivered CountsHold
