CONSTANTS
    Inside = {f1}
    Outside = {f2}
    f1 = f1
    f2 = f2
    Workers = {k1, k2}
    k1 = k1
    k2 = k2
    Capacity = 1
    MaxEvents = 4

SPECIFICATION FairSpec

 
INVARIANT IndexFollowsTree

PROPERTY StopEnds
 

CHECK_DEADLOCK FALSE
