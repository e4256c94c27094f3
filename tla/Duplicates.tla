----------------------------- MODULE Duplicates -----------------------------
(***************************************************************************)
(* What the duplicate index promises, without its structure.  It is told   *)
(* the content of paths, files them by it, and shows the sets of two or    *)
(* more paths that are filed alike.  Keys fold hashes, so two hashes may   *)
(* share one; a path may then be left out, but it is never shown with a    *)
(* file of another content, nor under a content it no longer has.          *)
(***************************************************************************)
CONSTANTS
    Paths,   \* normalized paths
    Hashes,  \* full content hashes
    NoHash,  \* no file, or a file whose hash is not known
    Key      \* Key[h]: the folded hash (and size) the maps are indexed by

VARIABLES
    told,    \* told[p]: the last hash the index was given for p
    filed,   \* filed[p]: the hash under which the index holds p
    shown    \* the groups: sets of paths

Several(S) == \E a, b \in S : a # b

Alike(f)  == { {p \in Paths : f[p] = h} : h \in Hashes }
Groups(f) == { S \in Alike(f) : Several(S) }

\* A path of another content has the key of h.
Blocked(f, h) == \E q \in Paths : f[q] \in Hashes \ {h} /\ Key[f[q]] = Key[h]

Init ==
    /\ told = [p \in Paths |-> NoHash]
    /\ filed = [p \in Paths |-> NoHash]
    /\ shown = {}

\* The index is told of the paths in S: each is filed as told, or left out
\* because its key is taken.  Of the others nothing changes.
Tell(S) ==
    /\ \A p \in S : \/ filed'[p] = told'[p]
                    \/ /\ filed'[p] = NoHash
                       /\ told'[p] \in Hashes
                       /\ Blocked(filed', told'[p])
    /\ \A p \in Paths \ S : told'[p] = told[p] /\ filed'[p] = filed[p]
    /\ shown' = Groups(filed')

Next == \E S \in SUBSET Paths : Tell(S)

Spec == Init /\ [][Next]_<<told, filed, shown>>
=============================================================================
