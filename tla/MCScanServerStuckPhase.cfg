CONSTANTS
    c1 = c1
    c2 = c2
    x1 = x1
    l1 = l1
    Cycles = {c1}
    Cancels = {x1}
    Loads = {}
    FirstTree = FirstTree
    NoOne = NoOne

SPECIFICATION FairSpec

PROPERTY CancellingEnds

CHECK_DEADLOCK FALSE
