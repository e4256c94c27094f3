CONSTANTS
    w1 = w1
    w2 = w2
    w3 = w3
    Workers = {w1, w2, w3}
    Dirs <- MCDirs
    RootSeq <- MCRootSeq
    Subdirs <- MCSubdirs
    Links <- MCLinks
    Target <- MCTarget
    RootKeys <- MCRootKeys
    AncestorLinks = {}
    Ignored = {}
    TooDeep <- MCTooDeep
    FollowSymlinks = FALSE
    NoDir = NoDir

SPECIFICATION FairSpec

INVARIANT OkIsComplete

PROPERTY Returns

CHECK_DEADLOCK FALSE
