CONSTANTS
    Callers = {1, 2}
    Workers = 2
    Files <- MCFiles
    Contents <- MCContents
    Size <- MCSize
    Quick <- MCQuick
    Carried <- MCCarried
    Scans <- MCScans
    MinSize = 1
    PrehashMin = 1
    Capacity = 1
    MaxFaults = 1
    NoCaller = NoCaller

SPECIFICATION FairSpec

INVARIANT TwinsHashed
INVARIANT NoLateReport
INVARIANT CancelReaches

PROPERTY RunEnds

CHECK_DEADLOCK FALSE
