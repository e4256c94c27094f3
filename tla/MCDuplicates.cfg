CONSTANTS
    p1 = p1
    p2 = p2
    p3 = p3
    ha = ha
    hb = hb
    hc = hc
    NoHash = NoHash
    Versions = {1, 2}
    Paths <- MCPaths
    Folders <- MCFolders
    Searches <- MCSearches
    Hashes <- MCHashes
    Keys <- MCKeys
    Key <- MCKey
    Size <- MCSize

SPECIFICATION Spec

INVARIANT HeldOnce

PROPERTY AnswersAddUp
PROPERTY KeepsPromise

CHECK_DEADLOCK FALSE
