SPECIFICATION FairSpec
CONSTANTS
    Objs = {o1, o2, o3}
    Roots = {r1}
    MaxRefs = 1
    MaxEdges = 1
    GenMod = 2
CHECK_DEADLOCK FALSE
INVARIANTS TypeOK NoDangling VisitsExact
PROPERTIES FreesInOrder RunEnds
