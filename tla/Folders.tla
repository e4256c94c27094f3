------------------------------ MODULE Folders -------------------------------
(***************************************************************************)
(* The running totals of the tree (pkg/scanner/tree.go, tree_watch.go) and *)
(* the index of duplicate folders computed from it                         *)
(* (pkg/indexer/folder_index.go), under the mutators that run beside each  *)
(* other: the monitor's workers and its removals, the file handlers, the   *)
(* sums a re-scan computes.  Each folder has a lock of its own, so an      *)
(* operation on the tree is a series of steps: a change in one folder and  *)
(* then its effect on the totals of each ancestor, found again by path.    *)
(* The index is rebuilt by the first query that finds it marked dirty.     *)
(*                                                                         *)
(* A folder holds at most one file, whose version stands for its content   *)
(* and for whether its hash is known.  A walk of the sums of a subtree is  *)
(* one step; the walk of the index goes by parts of the tree.              *)
(***************************************************************************)
EXTENDS Integers, Sequences, FiniteSets, Functions

CONSTANTS
    Mutators,   \* goroutines that change the tree
    Queries,    \* requests for the duplicate folders, and the scan's own rebuild
    Dirs,       \* the paths of folders
    Root,       \* the root that was scanned
    Parent,     \* Parent[d]: the folder d is in
    Name,       \* Name[d]: its last component
    Parts,      \* the folders as the walk reads them, those of a part together
    Slots,      \* the folders that may hold a file
    Versions,   \* what that file may be
    Arrivals,   \* the versions a change may bring
    Size,       \* Size[v]
    Content,    \* Content[v]: what is in the file
    Token,      \* Token[v]: its hash, or size and date when it has none
    Hashed,     \* the versions whose hash is known
    Absent,     \* no file
    Worlds,     \* the trees a scan may have left
    MaxOps,     \* how many changes are made
    Free        \* the lock of the index is free

\* The folders are a tree: none of them lies in itself, however deep, and a name
\* is given once in a folder.
ASSUME TreeAssumption ==
    /\ IsFiniteSet(Dirs) /\ Root \in Dirs
    /\ Parent \in [Dirs \ {Root} -> Dirs]
    /\ \A S \in SUBSET (Dirs \ {Root}) : S # {} => \E d \in S : Parent[d] \notin S
    /\ \A d, e \in Dirs \ {Root} : Parent[d] = Parent[e] /\ Name[d] = Name[e] => d = e
    /\ Parts \in Seq(SUBSET Dirs) /\ UNION { Parts[i] : i \in DOMAIN Parts } = Dirs

\* A hash tells contents apart, and nothing but contents.
ASSUME VersionsAssumption ==
    /\ Absent \notin Versions /\ Hashed \cup Arrivals \subseteq Versions
    /\ Size \in [Versions -> Nat]
    /\ \A v, w \in Versions : Content[v] = Content[w] => Size[v] = Size[w]
    /\ \A v, w \in Hashed : Token[v] = Token[w] <=> Content[v] = Content[w]
    /\ \A v \in Versions : Token[v] # "none"

ASSUME FoldersAssumption ==
    /\ IsFiniteSet(Mutators) /\ Free \notin Queries /\ MaxOps \in Nat
    /\ Slots \subseteq Dirs
    /\ Worlds \subseteq [Dirs -> Versions \cup {Absent}]

VARIABLES
    attached,  \* the folders FindDir reaches
    files,     \* files[d]: the file in d
    total,     \* total[d]: TotalSize and FileCount of d
    op,        \* op[m]: what each mutator is doing
    ops,       \* how many operations have begun (a bound of the model)
    drifted,   \* a race has left a total wrong (a history variable)
    dirty,     \* FolderDuplicateIndex.dirty
    lock,      \* the rebuild that holds FolderDuplicateIndex.mu
    seen,      \* the summaries that rebuild has collected
    pc,        \* where each query is
    indexed    \* the summaries the groups of the index were made of

tree == <<attached, files, total>>
view == <<dirty, lock, seen, pc, indexed>>
vars == <<tree, op, ops, drifted, view>>

Chain[d \in Dirs] == IF d = Root THEN <<>> ELSE <<Parent[d]>> \o Chain[Parent[d]]

Above == [d \in Dirs |-> { Chain[d][i] : i \in 1..Len(Chain[d]) }]
Below == [d \in Dirs |-> { e \in Dirs : e = d \/ d \in Above[e] }]
Children(d) == { e \in attached \ {Root} : Parent[e] = d }

SizeOf(v)  == IF v = Absent THEN 0 ELSE Size[v]
CountOf(v) == IF v = Absent THEN 0 ELSE 1

\* sumSubtree, and what computeNodeSize finds: the files that are there.
Sum(d) == LET at == Below[d] \cap attached IN
    [size |-> SumFunctionOnSet([e \in Dirs |-> SizeOf(files[e])], at),
     count |-> SumFunctionOnSet([e \in Dirs |-> CountOf(files[e])], at)]

Zero       == [size |-> 0, count |-> 0]
Plus(a, b) == [size |-> a.size + b.size, count |-> a.count + b.count]
Minus(a)   == [size |-> -a.size, count |-> -a.count]

NoOp == [kind |-> "none", at |-> "idle", dir |-> Root, file |-> Absent,
         delta |-> Zero, left |-> <<>>, lost |-> FALSE, sums |-> <<>>]

-----------------------------------------------------------------------------
\* The summaries of the folders, bottom-up (computeAndCollectFolderMerkle).
\* A folder whose count of files says zero has no hash, and is skipped.
NoEntry == [hash |-> <<>>, size |-> 0, count |-> 0, sure |-> TRUE]

\* The name of the folder itself counts.
EntryNamed(d, under) ==
    LET kids == Children(d)
        sub  == { e \in kids : under[e].hash # <<>> }
        own  == IF files[d] = Absent THEN "none" ELSE Token[files[d]]
        sure == \A e \in kids : under[e].sure
    IN IF total[d].count = 0
         THEN [NoEntry EXCEPT !.sure = sure]
         ELSE [hash |-> <<<<Name[d], own>>, { <<Name[e], under[e].hash>> : e \in sub }>>,
               size |-> total[d].size, count |-> total[d].count,
               sure |-> sure /\ files[d] \in Hashed \cup {Absent}]

Entry(d, under) ==
    LET kids == Children(d)
        sub  == { e \in kids : under[e].hash # <<>> }
        own  == IF files[d] = Absent THEN "none" ELSE Token[files[d]]
        sure == \A e \in kids : under[e].sure
    IN IF total[d].count = 0
         THEN [NoEntry EXCEPT !.sure = sure]
         ELSE [hash |-> <<own, { <<Name[e], under[e].hash>> : e \in sub }>>,
               size |-> total[d].size, count |-> total[d].count,
               sure |-> sure /\ files[d] \in Hashed \cup {Absent}]

Summaries ==
    LET at[d \in Dirs] == IF d \in attached
                            THEN Entry(d, [e \in Children(d) |-> at[e]]) ELSE NoEntry
    IN at

\* rebuild, steps 2 to 4: the folders of one hash and one size, two or more.
Listed(s)   == { d \in Dirs : s[d].hash # <<>> /\ s[d].count # 0 }
Alike(s, d) == { e \in Listed(s) : s[e].hash = s[d].hash /\ s[e].size = s[d].size }
Groups(s)   == { Alike(s, d) : d \in { e \in Listed(s) : Cardinality(Alike(s, e)) > 1 } }

Confident(s, G) == \A d \in G : s[d].sure
IsTopLevel(groups, G) == \A d \in G : \A H \in groups \ {G} : H \cap Above[d] = {}

\* Query: the groups the filter lets through.
Query(s, min, topLevelOnly) ==
    LET groups == Groups(s) IN
    { G \in groups : /\ \A d \in G : s[d].size >= min
                     /\ topLevelOnly => IsTopLevel(groups, G) }

\* CompareFolders: the files of two folders by their path from each, and its
\* verdict.  Is100PercentMatch also asks for one hash.
Path == [d \in Dirs |-> [e \in Below[d] |->
    [i \in 1..(Len(Chain[e]) - Len(Chain[d])) |-> Name[IF i = 1 THEN e ELSE Chain[e][i - 1]]]]]

Relative(d) == { <<Path[d][e], files[e]>> : e \in { e \in Below[d] \cap attached : files[e] # Absent } }

Identical(f, g) ==
    /\ f[1] = g[1] /\ Size[f[2]] = Size[g[2]]
    /\ Token[f[2]] = Token[g[2]]

OnlyIn(A, B)   == { f \in A : ~\E g \in B : f[1] = g[1] }
Modified(A, B) == { f \in A : \E g \in B : f[1] = g[1] /\ ~Identical(f, g) }

\* The confidence of the comparison is left out.
Is100PercentMatchUnhashed(s, a, b) ==
    LET A == Relative(a)
        B == Relative(b)
    IN /\ Modified(A, B) = {} /\ OnlyIn(A, B) = {} /\ OnlyIn(B, A) = {}
       /\ s[a].hash = s[b].hash

Is100PercentMatch(s, a, b) ==
    LET A == Relative(a)
        B == Relative(b)
    IN /\ \A f \in A \cup B : f[2] \in Hashed
       /\ Modified(A, B) = {} /\ OnlyIn(A, B) = {} /\ OnlyIn(B, A) = {}
       /\ s[a].hash = s[b].hash

-----------------------------------------------------------------------------
Init ==
    /\ files \in Worlds
    /\ attached = Dirs
    /\ total = [d \in Dirs |-> Sum(d)]
    /\ op = [m \in Mutators |-> NoOp] /\ ops = 0
    /\ drifted = FALSE
    /\ dirty = FALSE /\ lock = Free
    /\ seen = [d \in {} |-> NoEntry]
    /\ pc = [q \in Queries |-> "idle"]
    /\ indexed = Summaries

Doing(m, kind, at) == op[m].kind = kind /\ op[m].at = at
Idle(m)            == op[m].at = "idle"
Becomes(m, new)    == op' = [op EXCEPT ![m] = new]

Begins(m) == Idle(m) /\ ops < MaxOps /\ ops' = ops + 1

\* An ancestor is found by path and its totals moved; the others follow.
BubbleFrom(d, delta) == IF delta = Zero THEN <<>> ELSE Chain[d]

-----------------------------------------------------------------------------
\* EnsureDirNode: a folder and all it lies in are found or made.
Ensured(d) == attached \cup {d} \cup Above[d]

\* ReplaceFile: the folder is found or made, its list and totals change under
\* its lock, and then the ancestors' totals, one by one.
ReplaceFile(m) ==
    /\ Begins(m)
    /\ \E d \in Slots, v \in Arrivals :
          /\ attached' = Ensured(d)
          /\ Becomes(m, [NoOp EXCEPT !.kind = "replace", !.at = "write", !.dir = d, !.file = v])
    /\ UNCHANGED <<files, total, drifted, view>>

Grow(d, delta) == total' = [total EXCEPT ![d] = Plus(@, delta)]

\* The folder that was found may have left the tree meanwhile: what is written
\* there then changes no list and no total that FindDir can reach.
ReplaceWrite(m) ==
    LET d == op[m].dir
        v == op[m].file
        delta == [size |-> SizeOf(v) - SizeOf(files[d]), count |-> 1 - CountOf(files[d])]
        lone  == [size |-> SizeOf(v), count |-> 1]
    IN
    /\ Doing(m, "replace", "write")
    /\ IF op[m].lost
         THEN /\ Becomes(m, [op[m] EXCEPT !.at = "bubble", !.delta = lone, !.left = BubbleFrom(d, lone)])
              /\ UNCHANGED <<files, total>>
         ELSE /\ files' = [files EXCEPT ![d] = v]
              /\ Grow(d, delta)
              /\ Becomes(m, [op[m] EXCEPT !.at = "bubble", !.delta = delta, !.left = BubbleFrom(d, delta)])
    /\ UNCHANGED <<attached, ops, drifted, view>>

\* RemoveFile: nothing to do unless the folder has the file.
RemoveFile(m) ==
    /\ Begins(m)
    /\ \E d \in Slots \cap attached :
          /\ files[d] # Absent
          /\ LET delta == Minus([size |-> SizeOf(files[d]), count |-> 1]) IN
                /\ Grow(d, delta)
                /\ Becomes(m, [NoOp EXCEPT !.kind = "remove", !.at = "bubble", !.dir = d,
                                           !.delta = delta, !.left = BubbleFrom(d, delta)])
          /\ files' = [files EXCEPT ![d] = Absent]
    /\ UNCHANGED <<attached, drifted, view>>

\* Only the first ancestor is told.
BubbleOnce(m) ==
    LET p == Head(op[m].left) IN
    /\ op[m].at = "bubble" /\ op[m].left # <<>>
    /\ IF p \in attached THEN Grow(p, op[m].delta) ELSE UNCHANGED total
    /\ drifted' = (drifted \/ (p \in attached /\ op[m].lost))
    /\ Becomes(m, [op[m] EXCEPT !.left = <<>>])
    /\ UNCHANGED <<attached, files, ops, view>>

\* bubbleUpSize; a total that an operation on a lost folder moves is wrong.
Bubble(m) ==
    LET p == Head(op[m].left) IN
    /\ op[m].at = "bubble" /\ op[m].left # <<>>
    /\ IF p \in attached THEN Grow(p, op[m].delta) ELSE UNCHANGED total
    /\ drifted' = (drifted \/ (p \in attached /\ op[m].lost))
    /\ Becomes(m, [op[m] EXCEPT !.left = Tail(@)])
    /\ UNCHANGED <<attached, files, ops, view>>

\* RemoveDir: the subtree is summed, and then detached from its parent; what
\* was in it is lost to the operations that had found a folder of it.
RemoveDir(m) ==
    /\ Begins(m)
    /\ \E d \in attached \ {Root} :
          Becomes(m, [NoOp EXCEPT !.kind = "remove dir", !.at = "sum", !.dir = d,
                                  !.delta = Minus(Sum(d))])
    /\ UNCHANGED <<tree, drifted, view>>

Detach(m) ==
    LET d    == op[m].dir
        gone == Below[d]
    IN
    /\ Doing(m, "remove dir", "sum") /\ d \in attached
    /\ drifted' = (drifted \/ op[m].delta # Minus(Sum(d)))
    /\ attached' = attached \ gone
    /\ files' = [e \in Dirs |-> IF e \in gone THEN Absent ELSE files[e]]
    /\ total' = [e \in Dirs |-> CASE e \in gone       -> Zero
                                  [] e = Parent[d]    -> Plus(total[e], op[m].delta)
                                  [] OTHER            -> total[e]]
    /\ op' = [n \in Mutators |->
                CASE n = m -> [op[m] EXCEPT !.at = "bubble", !.left = BubbleFrom(Parent[d], op[m].delta)]
                  [] n # m /\ ~Idle(n) /\ op[n].dir \in gone -> [op[n] EXCEPT !.lost = TRUE]
                  [] OTHER -> op[n]]
    /\ UNCHANGED <<ops, view>>

\* Another operation detached it first.
DetachNothing(m) ==
    /\ Doing(m, "remove dir", "sum") /\ op[m].dir \notin attached
    /\ Becomes(m, NoOp)
    /\ UNCHANGED <<tree, ops, drifted, view>>

\* ComputeAggregatedSizes, at the end of a re-scan that runs beside the
\* monitor: the sums are read, then every total is set.  They are right unless
\* another operation was at work in between.
Aggregate(m) ==
    /\ Begins(m)
    /\ Becomes(m, [NoOp EXCEPT !.kind = "aggregate", !.at = "sum", !.sums = [d \in attached |-> Sum(d)]])
    /\ UNCHANGED <<tree, drifted, view>>

SetTotals(m) ==
    LET sums == op[m].sums IN
    /\ Doing(m, "aggregate", "sum")
    /\ total' = [d \in Dirs |-> IF d \in attached \cap DOMAIN sums THEN sums[d] ELSE total[d]]
    /\ drifted' = ( \/ \E d \in attached : total'[d] # Sum(d)
                    \/ \E n \in Mutators : op[n].at = "bubble" /\ op[n].left # <<>>
                    \/ \E n \in Mutators : op[n].at # "idle" /\ op[n].lost )
    /\ Becomes(m, [op[m] EXCEPT !.at = "bubble"])
    /\ UNCHANGED <<attached, files, ops, view>>

\* The removal of a folder marks nothing.
MarkDirtyForFiles(m) ==
    /\ op[m].at = "bubble" /\ op[m].left = <<>>
    /\ dirty' = (dirty \/ op[m].kind # "remove dir")
    /\ Becomes(m, NoOp)
    /\ UNCHANGED <<tree, ops, drifted, lock, seen, pc, indexed>>

\* Every operation ends by marking the index.
MarkDirty(m) ==
    /\ op[m].at = "bubble" /\ op[m].left = <<>>
    /\ dirty' = TRUE
    /\ Becomes(m, NoOp)
    /\ UNCHANGED <<tree, ops, drifted, lock, seen, pc, indexed>>

-----------------------------------------------------------------------------
\* handleGetFolderDuplicates: rebuild if dirty, then answer.  The flag is
\* lowered before the lock is asked for and the tree read.
RebuildIfDirty(q) ==
    /\ pc[q] = "idle"
    /\ pc' = [pc EXCEPT ![q] = IF dirty THEN "rebuild" ELSE "answer"]
    /\ dirty' = FALSE
    /\ UNCHANGED <<tree, op, ops, drifted, lock, seen, indexed>>

\* RebuildFolderIndex: a scan lowers the flag whatever it says.
RebuildFolderIndex(q) ==
    /\ pc[q] = "idle" /\ pc' = [pc EXCEPT ![q] = "rebuild"]
    /\ dirty' = FALSE
    /\ UNCHANGED <<tree, op, ops, drifted, lock, seen, indexed>>

RebuildBegins(q) ==
    /\ pc[q] = "rebuild" /\ lock = Free
    /\ lock' = q /\ pc' = [pc EXCEPT ![q] = "walk"]
    /\ UNCHANGED <<tree, op, ops, drifted, dirty, seen, indexed>>

Read == { i \in DOMAIN Parts : Parts[i] \subseteq DOMAIN seen }

Walk(q) ==
    LET part == Parts[Cardinality(Read) + 1]
        at   == Summaries
    IN
    /\ pc[q] = "walk" /\ Read # DOMAIN Parts
    /\ seen' = [e \in DOMAIN seen \cup part |->
                   IF e \notin part THEN seen[e]
                   ELSE IF e \in attached THEN Entry(e, [k \in Children(e) |-> IF k \in DOMAIN seen THEN seen[k] ELSE at[k]])
                   ELSE NoEntry]
    /\ UNCHANGED <<tree, op, ops, drifted, dirty, lock, pc, indexed>>

\* The mark is lowered once the tree was read.
RebuildEndsLowering(q) ==
    /\ pc[q] = "walk" /\ Read = DOMAIN Parts
    /\ indexed' = seen /\ seen' = [d \in {} |-> NoEntry]
    /\ lock' = Free /\ pc' = [pc EXCEPT ![q] = "answer"]
    /\ dirty' = FALSE
    /\ UNCHANGED <<tree, op, ops, drifted>>

RebuildEnds(q) ==
    /\ pc[q] = "walk" /\ Read = DOMAIN Parts
    /\ indexed' = seen /\ seen' = [d \in {} |-> NoEntry]
    /\ lock' = Free /\ pc' = [pc EXCEPT ![q] = "answer"]
    /\ UNCHANGED <<tree, op, ops, drifted, dirty>>

\* Query takes the lock for reading.
Answer(q) ==
    /\ pc[q] = "answer" /\ lock = Free
    /\ pc' = [pc EXCEPT ![q] = "idle"]
    /\ UNCHANGED <<tree, op, ops, drifted, dirty, lock, seen, indexed>>

-----------------------------------------------------------------------------
Change(m) ==
    \/ ReplaceFile(m) \/ RemoveFile(m) \/ RemoveDir(m) \/ Aggregate(m)

Proceed(m) ==
    \/ ReplaceWrite(m) \/ Bubble(m) \/ Detach(m) \/ DetachNothing(m)
    \/ SetTotals(m) \/ MarkDirty(m)

Serve(q) ==
    \/ RebuildBegins(q) \/ Walk(q) \/ RebuildEnds(q) \/ Answer(q)

Next ==
    \/ \E m \in Mutators : Change(m) \/ Proceed(m)
    \/ \E q \in Queries : RebuildIfDirty(q) \/ RebuildFolderIndex(q) \/ Serve(q)

Spec == Init /\ [][Next]_vars

\* An operation that has begun goes on, and so does a request: Go's mutexes
\* starve no one who waits for them.
Fairness ==
    /\ \A m \in Mutators : WF_vars(Proceed(m))
    /\ \A q \in Queries : SF_vars(Serve(q))

FairSpec == Spec /\ Fairness

-----------------------------------------------------------------------------
\* Properties.
Quiet == \A m \in Mutators : Idle(m)
Fresh == indexed = Summaries

\* What two folders hold: the same contents under the same relative paths.
Same(a, b) ==
    { <<f[1], Content[f[2]]>> : f \in Relative(a) } = { <<f[1], Content[f[2]]>> : f \in Relative(b) }
AllHashed(d) == \A f \in Relative(d) : f[2] \in Hashed

TypeOK ==
    /\ attached \in SUBSET Dirs /\ Root \in attached
    /\ \A d \in attached \ {Root} : Parent[d] \in attached
    /\ files \in [Dirs -> Versions \cup {Absent}]
    /\ \A d \in Dirs \ attached : files[d] = Absent /\ total[d] = Zero
    /\ \A d \in Dirs : total[d].size \in Int /\ total[d].count \in Int
    /\ \A m \in Mutators : op[m].dir \in Dirs /\ op[m].file \in Versions \cup {Absent}
    /\ ops \in 0..MaxOps /\ drifted \in BOOLEAN /\ dirty \in BOOLEAN
    /\ lock \in Queries \cup {Free}
    /\ \A q \in Queries : pc[q] \in {"idle", "rebuild", "walk", "answer"}
    /\ \A q \in Queries : pc[q] = "walk" <=> lock = q

\* Once the changes under way are done, every folder's total is the sum of the
\* files below it, whatever the order in which they and the sums of a re-scan
\* met, unless one of the races recorded in `drifted` happened (tree_watch.go,
\* tree.go: bubbleUpSize moves each ancestor by itself, no lock held across).
TotalsSettle == TypeOK /\ (Quiet /\ ~drifted => \A d \in attached : total[d] = Sum(d))

\* With no mark standing, no rebuild on its way and no change half made, the
\* index shown is that of the tree as it is: no mark is lost between the flag
\* being lowered and the tree being read (RebuildIfDirty's comment).
FreshUnlessDirty ==
    Quiet /\ ~dirty /\ (\A q \in Queries : pc[q] \notin {"rebuild", "walk"}) => Fresh

\* Folders shown as clones on the strength of hashes hold the same contents
\* under the same names, and folders that do, with every hash known, are shown:
\* an empty folder in one of them, or a folder that lost its files, makes no
\* difference, as long as the index is that of the tree.  The topmost clones
\* share nothing, so the space they waste adds up (rebuild, step 4; Query).
ClonesAreExact ==
    /\ Fresh /\ Quiet /\ ~drifted =>
          /\ \A G \in Groups(indexed) : Confident(indexed, G) => \A a, b \in G : Same(a, b)
          /\ \A a, b \in attached :
                a # b /\ Same(a, b) /\ Relative(a) # {} /\ AllHashed(a) /\ AllHashed(b)
                    => \E G \in Groups(indexed) : {a, b} \subseteq G
    /\ LET shown == Query(indexed, 0, TRUE) IN
       \A G, H \in shown : G # H => \A d \in G : H \cap Above[d] = {}

\* A comparison claims a full match exactly when both folders are hashed to the
\* last file and hold the same contents: two walks, one over the files and one
\* over the hashes, agree (CompareFolders).
MatchIsExact ==
    Quiet /\ ~drifted => LET s == Summaries IN
        \A a, b \in attached :
            Is100PercentMatch(s, a, b) <=> Same(a, b) /\ AllHashed(a) /\ AllHashed(b)

\* Once changes stop, a view that is asked for again and again comes to show
\* the tree as it is, and goes on showing it.
ViewCatchesUp ==
    (<>[]Quiet /\ []<>(\E q \in Queries : pc[q] = "answer")) => <>[]Fresh
=============================================================================
