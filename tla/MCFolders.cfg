SPECIFICATION FairSpec
CONSTANTS
    m1 = m1  m2 = m2  q1 = q1  q2 = q2
    root = root  a = a  b = b  as = as  bs = bs
    x = x  u = u  w = w  none = none
    Mutators = {m1, m2}
    Queries = {q1}
    Slots = {as, bs}
    Hashed = {x}
    Arrivals = {x, u}
    Dirs <- MCDirs
    Root = root
    Parent <- MCParent
    Name <- MCName
    Parts <- MCParts
    Versions <- MCVersions
    Size <- MCSize
    Content <- MCContent
    Token <- MCToken
    Worlds <- MCWorlds
    Absent = none
    MaxOps = 2
    Free = Free

 
 
INVARIANT ClonesAreExact
INVARIANT MatchIsExact

 
