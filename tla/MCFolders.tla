----------------------------- MODULE MCFolders ------------------------------
\* Two folders with one subfolder each, of the same name: a/s and b/s.
EXTENDS Folders, TLC

CONSTANTS m1, m2, q1, q2, root, a, b, as, bs, x, u, w, none

MCDirs == {root, a, b, as, bs}
MCParent == (a :> root) @@ (b :> root) @@ (as :> a) @@ (bs :> b)
MCName == (root :> "root") @@ (a :> "a") @@ (b :> "b") @@ (as :> "s") @@ (bs :> "s")
MCParts == <<{as, a}, {bs, b}, {root}>>

\* x is hashed; u and w are not, and share their size and date.
MCVersions == {x, u, w}
MCSize == (x :> 1) @@ (u :> 2) @@ (w :> 2)
MCContent == (x :> "X") @@ (u :> "U") @@ (w :> "W")
MCToken == (x :> "x") @@ (u :> "2 now") @@ (w :> "2 now")

Nothing == [d \in MCDirs |-> none]
MCWorlds == { [Nothing EXCEPT ![as] = u, ![bs] = w] }
=============================================================================
