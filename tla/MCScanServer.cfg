CONSTANTS
    c1 = c1
    c2 = c2
    x1 = x1
    l1 = l1
    Cycles = {c1, c2}
    Cancels = {x1}
    Loads = {l1}
    FirstTree = FirstTree
    NoOne = NoOne

SPECIFICATION Spec

INVARIANT OneCycle
 
 
INVARIANT FreeSlotSettled
INVARIANT WatchingIsAsShown
 

CHECK_DEADLOCK FALSE
