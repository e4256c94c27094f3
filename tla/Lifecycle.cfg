CONSTANTS
    MaxProcs = 2
    MaxConns = 2
    Budget = 3
    Scanners = {1}

SPECIFICATION LifeFairSpec

INVARIANT PresenceCounted
INVARIANT FoundWhenServing

 
PROPERTY HandoverCompletes
 

CHECK_DEADLOCK FALSE
