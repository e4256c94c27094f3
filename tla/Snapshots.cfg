CONSTANTS
    Dirs = {1, 2}
    Readers = {"restore"}
    MaxChanges = 2
    MaxFaults = 2

SPECIFICATION FairSpec

INVARIANT FoundIsNewest
INVARIANT LoadsWhole

 

CHECK_DEADLOCK FALSE
