--------------------------- MODULE DuplicateIndex ---------------------------
(***************************************************************************)
(* The index of duplicate files (pkg/indexer/duplicate_index.go).  Two     *)
(* maps by content key hold the groups and the files that are still alone, *)
(* and a third remembers, folder by folder, which nodes are indexed, so    *)
(* that a path leads to its node and the node to its group.  Each          *)
(* operation holds the write lock from end to end, so each is one step:    *)
(* what can go wrong is a sequence of them that leaves the three maps      *)
(* telling different stories.                                              *)
(*                                                                         *)
(* A node is an identity: the same path comes back as another node when    *)
(* the monitor has read it again.  The order of a group's files by date    *)
(* and the order and paging of a query's answer are left out.              *)
(***************************************************************************)
EXTENDS Integers, FiniteSets, FiniteSetsExt

CONSTANTS
    Paths,    \* normalized paths
    Folders,  \* the sets of paths that lie below one folder
    Hashes,   \* full content hashes, each of files of one size
    NoHash,   \* a file that is locked, or not hashed yet
    Keys,     \* contentKey: the folded hash and the size
    Key,      \* Key[h]: contentKeyOf; two hashes may fold alike
    Size,     \* Size[h]: the size of the files of that hash
    Searches, \* the sets of paths a search and an extension may let through
    Versions  \* tells apart the nodes one path has had

ASSUME DuplicateIndexAssumption ==
    /\ IsFiniteSet(Paths)
    /\ IsFiniteSet(Versions)
    /\ IsFiniteSet(Hashes)
    /\ Folders \subseteq SUBSET Paths
    /\ Versions # {}
    /\ Key \in [Hashes -> Keys]
    /\ Size \in [Hashes -> Nat]
    /\ NoHash \notin Hashes

VARIABLES
    tracked,  \* dirFiles: the nodes that are indexed, whatever their folder
    files,    \* groups[k].Files; {} when there is no such group
    lead,     \* groups[k].Hash
    wasted,   \* groups[k].WastedBytes
    single,   \* singles[k]: the file that is alone, as a set of one or none
    told,     \* the hash each path was last given with (a history variable)
    answer    \* what the last step counted, when it was a Query

index == <<tracked, files, lead, wasted, single, told>>
vars  == <<index, answer>>

Nodes == [path : Paths, hash : Hashes, version : Versions]
NoAnswer == [min |-> 0, want |-> {}, groups |-> 0, files |-> 0, wasted |-> 0]

Several(S)  == \E a, b \in S : a # b
Waste(S, h) == (Cardinality(S) - 1) * Size[h]

Init ==
    /\ tracked = {}
    /\ files = [k \in Keys |-> {}]
    /\ lead = [k \in Keys |-> NoHash]
    /\ wasted = [k \in Keys |-> 0]
    /\ single = [k \in Keys |-> {}]
    /\ told = [p \in Paths |-> NoHash]
    /\ answer = NoAnswer

-----------------------------------------------------------------------------
\* detachLocked of every node of R, in whatever order: a group that keeps two
\* files stays, one that keeps a single file is dissolved and the file parked.
Own(R, k)  == { f \in R : Key[f.hash] = k }
Left(R, k) == files[k] \ Own(R, k)

FilesLess(R) ==
    [k \in Keys |-> IF Several(Left(R, k)) THEN Left(R, k) ELSE {}]

LeadLess(R) ==
    [k \in Keys |-> IF Several(Left(R, k)) THEN lead[k] ELSE NoHash]

\* The bytes wasted are not counted again when a file leaves a group.
WastedLessStale(R) == [k \in Keys |-> IF Several(Left(R, k)) THEN wasted[k] ELSE 0]

WastedLess(R) ==
    [k \in Keys |-> CASE ~Several(Left(R, k))    -> 0
                      [] Left(R, k) = files[k]   -> wasted[k]
                      [] OTHER                   -> Waste(Left(R, k), lead[k])]

\* The last file of a group is forgotten with the group.
SingleLessForgetting(R) ==
    [k \in Keys |-> IF files[k] = {} THEN single[k] \ Own(R, k) ELSE single[k]]

SingleLess(R) ==
    [k \in Keys |-> CASE files[k] = {}          -> single[k] \ Own(R, k)
                      [] Several(Left(R, k))    -> single[k]
                      [] OTHER                  -> Left(R, k)]

\* The nodes a path has, or had, in the index (untrackLocked finds one).
At(p) == { f \in tracked : f.path = p }
Under(folder) == { f \in tracked : f.path \in folder }

\* The folder forgets the nodes, but they are not looked for in the groups.
DetachTracked(R) ==
    /\ tracked' = tracked \ R
    /\ answer' = NoAnswer
    /\ UNCHANGED <<files, lead, wasted, single>>

Detach(R) ==
    /\ tracked' = tracked \ R
    /\ files' = FilesLess(R) /\ lead' = LeadLess(R)
    /\ wasted' = WastedLess(R) /\ single' = SingleLess(R)
    /\ answer' = NoAnswer

-----------------------------------------------------------------------------
\* UpsertFile(f): the version of the path that was there leaves, and the new
\* one is filed under its own hash.

UpsertUnhashed(p) ==
    /\ Detach(At(p))
    /\ told' = [told EXCEPT ![p] = NoHash]

\* The group, or the file that is alone, has the key but another hash.
UpsertLeftOut(f) ==
    LET k == Key[f.hash] IN
    /\ \/ FilesLess(At(f.path))[k] # {} /\ LeadLess(At(f.path))[k] # f.hash
       \/ /\ FilesLess(At(f.path))[k] = {}
          /\ \E other \in SingleLess(At(f.path))[k] : other.hash # f.hash
    /\ Detach(At(f.path))

UpsertInGroup(f) ==
    LET k == Key[f.hash]
        R == At(f.path)
        all == FilesLess(R)[k] \cup {f}
    IN
    /\ FilesLess(R)[k] # {} /\ LeadLess(R)[k] = f.hash
    /\ tracked' = (tracked \ R) \cup {f}
    /\ files' = [FilesLess(R) EXCEPT ![k] = all]
    /\ wasted' = [WastedLess(R) EXCEPT ![k] = Waste(all, f.hash)]
    /\ lead' = LeadLess(R) /\ single' = SingleLess(R)
    /\ answer' = NoAnswer

\* The file that was alone and this one form a group.
UpsertPair(f) ==
    LET k == Key[f.hash]
        R == At(f.path)
        both == SingleLess(R)[k] \cup {f}
    IN
    /\ FilesLess(R)[k] = {}
    /\ \E other \in SingleLess(R)[k] : other.hash = f.hash
    /\ tracked' = (tracked \ R) \cup {f}
    /\ files' = [FilesLess(R) EXCEPT ![k] = both]
    /\ lead' = [LeadLess(R) EXCEPT ![k] = f.hash]
    /\ wasted' = [WastedLess(R) EXCEPT ![k] = Waste(both, f.hash)]
    /\ single' = [SingleLess(R) EXCEPT ![k] = {}]
    /\ answer' = NoAnswer

UpsertAlone(f) ==
    LET k == Key[f.hash]
        R == At(f.path)
    IN
    /\ FilesLess(R)[k] = {} /\ SingleLess(R)[k] = {}
    /\ tracked' = (tracked \ R) \cup {f}
    /\ single' = [SingleLess(R) EXCEPT ![k] = {f}]
    /\ files' = FilesLess(R) /\ lead' = LeadLess(R) /\ wasted' = WastedLess(R)
    /\ answer' = NoAnswer

UpsertFile(f) ==
    /\ f \notin tracked
    /\ told' = [told EXCEPT ![f.path] = f.hash]
    /\ UpsertLeftOut(f) \/ UpsertInGroup(f) \/ UpsertPair(f) \/ UpsertAlone(f)

RemoveFile(p) ==
    /\ Detach(At(p))
    /\ told' = [told EXCEPT ![p] = NoHash]

RemoveDir(folder) ==
    /\ Detach(Under(folder))
    /\ told' = [p \in Paths |-> IF p \in folder THEN NoHash ELSE told[p]]

\* RebuildIndex over a tree in which path p has hash h[p].  The first file met
\* under a key decides the hash of its group; which one that is depends on the
\* order of the tree, and here on the choice of first.
Anew == CHOOSE v \in Versions : TRUE

Gathered(h, first, k) ==
    { [path |-> p, hash |-> h[p], version |-> Anew] :
         p \in { q \in Paths : h[q] \in Hashes /\ Key[h[q]] = k /\ h[q] = first[k] } }

Leads(h, first) ==
    \A k \in Keys : LET met == { h[p] : p \in Paths } \cap { g \in Hashes : Key[g] = k }
                    IN  first[k] \in (IF met = {} THEN {NoHash} ELSE met)

RebuildIndex(h, first) ==
    /\ Leads(h, first)
    /\ tracked' = UNION { Gathered(h, first, k) : k \in Keys }
    /\ files' = [k \in Keys |-> IF Several(Gathered(h, first, k))
                               THEN Gathered(h, first, k) ELSE {}]
    /\ lead' = [k \in Keys |-> IF Several(Gathered(h, first, k)) THEN first[k] ELSE NoHash]
    /\ wasted' = [k \in Keys |-> IF Several(Gathered(h, first, k))
                                THEN Waste(Gathered(h, first, k), first[k]) ELSE 0]
    /\ single' = [k \in Keys |-> IF Several(Gathered(h, first, k))
                                THEN {} ELSE Gathered(h, first, k)]
    /\ told' = h
    /\ answer' = NoAnswer

-----------------------------------------------------------------------------
\* Query and GetSummaryStats: the groups of files of min bytes or more, with a
\* file among those the search and the extension let through.
Matching(min, want) ==
    { k \in Keys : /\ files[k] # {}
                   /\ Size[lead[k]] >= min
                   /\ \E f \in files[k] : f.path \in want }

Query(min, want) ==
    LET found == Matching(min, want) IN
    /\ answer' = [min |-> min, want |-> want, groups |-> Cardinality(found),
                  files |-> MapThenSumSet(LAMBDA k : Cardinality(files[k]), found),
                  wasted |-> MapThenSumSet(LAMBDA k : wasted[k], found)]
    /\ UNCHANGED index

Next ==
    \/ \E f \in Nodes : UpsertFile(f)
    \/ \E p \in Paths : UpsertUnhashed(p) \/ RemoveFile(p)
    \/ \E folder \in Folders : RemoveDir(folder)
    \/ \E h \in [Paths -> Hashes \cup {NoHash}], first \in [Keys -> Hashes \cup {NoHash}] :
          RebuildIndex(h, first)
    \/ \E min \in {0} \cup { Size[h] : h \in Hashes }, want \in Searches :
          Query(min, want)

Spec == Init /\ [][Next]_vars

-----------------------------------------------------------------------------
\* The index holds nodes, by key, and hashes (duplicate_index.go, the fields
\* of DuplicateIndex).
TypeOK ==
    /\ tracked \subseteq Nodes
    /\ files \in [Keys -> SUBSET Nodes]
    /\ lead \in [Keys -> Hashes \cup {NoHash}]
    /\ wasted \in [Keys -> Int]
    /\ single \in [Keys -> SUBSET Nodes]

\* A file is tracked in its folder exactly when one of the two maps holds it,
\* under its own key, and only one of them does: a removal always finds what
\* it must detach, and leaves no phantom behind (trackedFile, detachLocked).
HeldOnce ==
    /\ \A f \in tracked : f \in files[Key[f.hash]] <=> f \notin single[Key[f.hash]]
    /\ \A k \in Keys : \A f \in files[k] \cup single[k] : f \in tracked /\ Key[f.hash] = k

\* A group has two files at least, and the file that is alone under a key is
\* alone (the comment on DuplicateIndex: "groups only ever holds sets of two
\* or more files").
GroupsAreSeveral ==
    \A k \in Keys : /\ files[k] # {} => Several(files[k]) /\ single[k] = {}
                    /\ ~Several(single[k])

\* Two files are shown together only if their full hashes are equal: a folded
\* key that repeats never makes a false duplicate (the comment on contentKey).
NoFalseDuplicate ==
    \A k \in Keys : \A f \in files[k] : f.hash = lead[k]

\* A path has one version in the index (UpsertFile: the old node leaves).
OneVersion == \A f, g \in tracked : f.path = g.path => f = g

\* What a query counts is what the files say: the groups are the hashes that
\* two or more indexed files share, and what they waste is all their copies
\* but one (Query, the WastedBytes every operation keeps up).
Copies(h) == { f \in tracked : f.hash = h }

TrueAnswer(a) ==
    LET found == { h \in Hashes : /\ Several(Copies(h)) /\ Size[h] >= a.min
                                  /\ \E f \in Copies(h) : f.path \in a.want }
    IN
    /\ a.groups = Cardinality(found)
    /\ a.files = MapThenSumSet(LAMBDA h : Cardinality(Copies(h)), found)
    /\ a.wasted = MapThenSumSet(LAMBDA h : (Cardinality(Copies(h)) - 1) * Size[h], found)

AnswersAddUp == [][answer' = answer \/ TrueAnswer(answer')]_vars

-----------------------------------------------------------------------------
\* The index implements its promise: a path is filed under the hash of its
\* tracked node, and the groups are what is shown (Duplicates.tla).
HashAt(p) ==
    IF At(p) = {} THEN NoHash ELSE (CHOOSE f \in At(p) : TRUE).hash

PathsOf(S) == { f.path : f \in S }

Promise == INSTANCE Duplicates WITH
    filed <- [p \in Paths |-> HashAt(p)],
    shown <- { PathsOf(files[k]) : k \in { j \in Keys : files[j] # {} } }

\* Every step of the index is a step of the promise, or shows nothing.
KeepsPromise == Promise!Spec
=============================================================================
