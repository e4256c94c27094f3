CONSTANTS
    w1 = w1
    w2 = w2
    Workers = {w1, w2}
    Dirs <- MCDirs
    RootSeq <- MCRootSeq
    Subdirs <- MCSubdirs
    Links <- MCLinks
    Target <- MCTarget
    RootKeys <- MCRootKeys
    AncestorLinks <- MCAncestorLinks
    Ignored <- MCIgnored
    TooDeep = {}
    FollowSymlinks = TRUE
    NoDir = NoDir

SPECIFICATION FairSpec

INVARIANT TargetEnteredOnce

PROPERTY ImplementsTraversal

CHECK_DEADLOCK FALSE
