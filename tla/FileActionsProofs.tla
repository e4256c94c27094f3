------------------------- MODULE FileActionsProofs -------------------------
(***************************************************************************)
(* Whatever the person approves and asks for, in whatever order: no file   *)
(* is lost, a Proposta acts once, and the answers are about the right      *)
(* items; for any number of requests, files and Propostas.                 *)
(*                                                                         *)
(* The invariant has a part about each request by itself (Sound), which    *)
(* ties what it took to the results of its batch through the places of the *)
(* items in the list, and parts about what requests share: the lock, the   *)
(* table of the Propostas and the disk.                                    *)
(*                                                                         *)
(* What was recycled or deleted is forgotten by tree and index when it is  *)
(* answered (GoneIsForgotten); for that the parts say how far each request *)
(* has come in forgetting, against the scan that puts files back.          *)
(***************************************************************************)
EXTENDS FileActions, TLAPS, FiniteSetTheorems

USE FileActionsAssumption DEF FileActionsAssumption, Jobs, Ids

Takers  == {"RECYCLE", "DELETE", "MOVE"}
Labels  == {"idle", "waiting", "acting", "checked", "forgetting", "answered"}
Indices == { S \in SUBSET Nat : IsFiniteSet(S) }
Lists   == UNION { [S -> Paths] : S \in Indices }
Plans   == UNION { [S -> BOOLEAN] : S \in Indices }
Records == [how : Kinds \cup {"DELETE", "none"}, files : Lists, id : Nat, plan : Plans,
            batch : Seq(Verdicts), forgot : SUBSET Nat, took : SUBSET Paths]
Propostas == [kind : Kinds, files : Lists, executed : BOOLEAN, good : Nat, refused : Nat, failed : Nat]

\* The item at i of the list was done.
Did(r, i)   == /\ r.plan[i] /\ Before(r.plan, i) \in DOMAIN r.batch
               /\ r.batch[Before(r.plan, i)] = "done"
Ahead(r)    == { i \in DOMAIN r.plan : r.plan[i] /\ Before(r.plan, i) = Len(r.batch) + 1 }
Matches(r)  == \A p \in Paths : p \in r.took <=> \E i \in DOMAIN r.plan : r.files[i] = p /\ Did(r, i)

Sound(r, at) ==
    /\ r \in Records
    /\ DOMAIN r.plan \subseteq DOMAIN r.files
    /\ at \in {"idle", "waiting"} => r.batch = <<>> /\ r.took = {}
    /\ IF r.how \in Takers THEN Matches(r) ELSE r.took = {}
    /\ at = "checked" => r.how \in Takers /\ Ahead(r) # {}

\* The requests one by one.
Apart ==
    /\ pc \in [Jobs -> Labels] /\ job \in [Jobs -> Records]
    /\ \A j \in Jobs : Sound(job[j], pc[j])
    /\ \A j \in Manual : job[j].how # "MOVE"
    /\ \A j \in Approvals : pc[j] # "idle" => job[j].id \in 1 .. issued

\* The table, and the approval that holds execMu.
Table ==
    /\ proposals \in [Ids -> Propostas \cup {Absent}] /\ issued \in 0 .. MaxProposals
    /\ acted \in [Ids -> Nat]
    /\ \A i \in Ids : Stored(i) => i \in 1 .. issued
Locked ==
    /\ execMu \in Approvals \cup {Nobody}
    /\ LockIsWorkedUnder
    /\ \A j \in Approvals : Inside(j) =>
          /\ Stored(job[j].id) => ~proposals[job[j].id].executed
          /\ job[j].took = {} => acted[job[j].id] = 0

\* What acted is executed, or gone from the table, or at it.
Once ==
    \A i \in Ids :
        /\ acted[i] \in {0, 1}
        /\ acted[i] = 1 =>
              /\ i <= issued
              /\ \/ ~Stored(i) \/ proposals[i].executed
                 \/ \E j \in Approvals : Inside(j) /\ job[j].id = i /\ job[j].took # {}

\* The disk, and the destination a MOVE has found empty.
Kept ==
    /\ disk \in [Places -> Paths \cup {Stranger, Absent}]
    /\ NothingLost
    /\ \A j \in Jobs : (pc[j] = "checked" /\ job[j].how = "MOVE") => ~Exists(Target[Current(j)])

IInv == Apart /\ Table /\ Locked /\ Once /\ Kept

-----------------------------------------------------------------------------
(* The places of the items. *)
LEMMA BeforeGrows ==
    ASSUME NEW plan \in Plans
    PROVE  /\ IsFiniteSet(DOMAIN plan) /\ DOMAIN plan \subseteq Nat
           /\ \A i \in DOMAIN plan : Before(plan, i) \in Nat
           /\ \A i, k \in DOMAIN plan : i < k /\ plan[k] => Before(plan, i) < Before(plan, k)
<1>1. IsFiniteSet(DOMAIN plan) /\ DOMAIN plan \subseteq Nat
  BY DEF Plans, Indices
<1> DEFINE B(i) == { k \in DOMAIN plan : k <= i /\ plan[k] }
<1>2. ASSUME NEW i \in DOMAIN plan PROVE IsFiniteSet(B(i)) /\ Before(plan, i) \in Nat
  <2>1. IsFiniteSet(B(i))
    BY <1>1, FS_Subset
  <2>2. QED
    BY <2>1, FS_CardinalityType DEF Before
<1>3. ASSUME NEW i \in DOMAIN plan, NEW k \in DOMAIN plan, i < k, plan[k]
      PROVE  Before(plan, i) < Before(plan, k)
  <2>1. B(i) \subseteq B(k) /\ k \in B(k) /\ k \notin B(i)
    BY <1>1, <1>3
  <2>2. B(i) # B(k)
    BY <2>1
  <2>3. Cardinality(B(i)) <= Cardinality(B(k)) /\ Cardinality(B(i)) # Cardinality(B(k))
    BY <1>2, <2>1, <2>2, FS_Subset
  <2>4. Cardinality(B(i)) \in Nat /\ Cardinality(B(k)) \in Nat
    BY <1>2, FS_CardinalityType
  <2>5. QED
    BY <2>3, <2>4 DEF Before
<1>4. QED
  BY <1>1, <1>2, <1>3

LEMMA AheadAlone ==
    ASSUME NEW r \in Records
    PROVE  \A i, k \in Ahead(r) : i = k
<1>1. r.plan \in Plans
  BY DEF Records
<1>2. SUFFICES ASSUME NEW i \in Ahead(r), NEW k \in Ahead(r), i < k PROVE FALSE
  <2>1. \A n \in DOMAIN r.plan : n \in Nat
    BY <1>1, BeforeGrows
  <2>2. QED
    BY <2>1 DEF Ahead
<1>3. Before(r.plan, i) < Before(r.plan, k)
  BY <1>1, <1>2, BeforeGrows DEF Ahead
<1>4. Before(r.plan, i) = Before(r.plan, k) /\ Before(r.plan, i) \in Nat
  BY <1>1, BeforeGrows DEF Ahead
<1>5. QED
  BY <1>3, <1>4

LEMMA PathAhead ==
    ASSUME NEW j \in Jobs, job[j] \in Records, DOMAIN job[j].plan \subseteq DOMAIN job[j].files,
           ~BatchOver(j)
    PROVE  Current(j) \in Paths /\ \A i \in Ahead(job[j]) : job[j].files[i] = Current(j)
<1>1. Due(j) = Ahead(job[j])
  BY DEF Due, Ahead
<1>2. PICK i \in Ahead(job[j]) : TRUE
  BY <1>1 DEF BatchOver
<1>3. \A k \in Ahead(job[j]) : k = (CHOOSE n \in Due(j) : TRUE)
  BY <1>1, <1>2, AheadAlone
<1>4. \A n \in DOMAIN job[j].files : job[j].files[n] \in Paths
  BY DEF Records, Lists
<1>5. QED
  BY <1>2, <1>3, <1>4 DEF Current, Ahead

\* One more result.
LEMMA OneMore ==
    ASSUME NEW r \in Records, NEW v \in Verdicts, NEW q \in Records,
           q.plan = r.plan, q.files = r.files, q.batch = Append(r.batch, v),
           NEW i \in DOMAIN r.plan, r.plan[i]
    PROVE  Did(q, i) <=> (Did(r, i) \/ (i \in Ahead(r) /\ v = "done"))
<1>1. r.batch \in Seq(Verdicts)
  BY DEF Records
<1>2. Before(r.plan, i) \in Nat
  BY BeforeGrows DEF Records
<1>3. /\ DOMAIN r.batch = 1 .. Len(r.batch) /\ Len(r.batch) \in Nat
      /\ DOMAIN q.batch = 1 .. Len(r.batch) + 1
      /\ \A n \in 1 .. Len(r.batch) : q.batch[n] = r.batch[n]
      /\ q.batch[Len(r.batch) + 1] = v
  BY <1>1
<1>4. QED
  BY <1>2, <1>3 DEF Did, Ahead

\* A result keeps the rest of the request.
Filed(r, v, S) == [[r EXCEPT !.batch = Append(@, v)] EXCEPT !.took = S]

LEMMA FilesResult ==
    ASSUME NEW r \in Records, NEW v \in Verdicts
    PROVE  Append(r.batch, v) \in Seq(Verdicts) /\ [r EXCEPT !.batch = Append(@, v)] \in Records
<1>1. Append(r.batch, v) \in Seq(Verdicts)
  BY DEF Records
<1>2. ASSUME NEW b \in Seq(Verdicts) PROVE [r EXCEPT !.batch = b] \in Records
  BY DEF Records
<1>3. QED
  BY <1>1, <1>2

LEMMA FilesTaking ==
    ASSUME NEW r \in Records, NEW v \in Verdicts, NEW S \in SUBSET Paths
    PROVE  LET q == Filed(r, v, S) IN
           /\ q \in Records /\ q.batch = Append(r.batch, v) /\ q.took = S
           /\ q.plan = r.plan /\ q.files = r.files /\ q.how = r.how /\ q.id = r.id
<1>1. Append(r.batch, v) \in Seq(Verdicts)
  BY FilesResult
<1>2. ASSUME NEW b \in Seq(Verdicts)
      PROVE  LET q == [[r EXCEPT !.batch = b] EXCEPT !.took = S] IN
             /\ q \in Records /\ q.batch = b /\ q.took = S
             /\ q.plan = r.plan /\ q.files = r.files /\ q.how = r.how /\ q.id = r.id
  BY DEF Records
<1>3. QED
  BY <1>1, <1>2 DEF Filed

LEMMA ResultKeeps ==
    ASSUME NEW j \in Jobs, job[j] \in Records, NEW v
    PROVE  LET q == HasResult(j, v)
           IN  q.id = job[j].id /\ q.took = job[j].took /\ q.how = job[j].how
<1>1. ASSUME NEW b PROVE LET q == [job[j] EXCEPT !.batch = b]
                         IN  q.id = job[j].id /\ q.took = job[j].took /\ q.how = job[j].how
  BY DEF Records
<1>2. QED
  BY <1>1 DEF HasResult

LEMMA RefusedSound ==
    ASSUME NEW j \in Jobs, NEW at, Sound(job[j], at), at \notin {"idle", "waiting"},
           NEW v \in Verdicts, v # "done" \/ job[j].how \notin Takers
    PROVE  Sound(HasResult(j, v), "acting")
<1> DEFINE q == HasResult(j, v)
           r == job[j]
<1>1. r \in Records /\ DOMAIN r.plan \subseteq DOMAIN r.files
  BY DEF Sound
<1>2. /\ q \in Records /\ q.batch = Append(r.batch, v)
      /\ q.plan = r.plan /\ q.files = r.files /\ q.took = r.took /\ q.how = r.how
  <2>1. q \in Records
    BY <1>1, FilesResult DEF HasResult, Records
  <2>2. q = [r EXCEPT !.batch = Append(r.batch, v)]
    BY DEF HasResult
  <2>3. QED
    BY <1>1, <2>1, <2>2 DEF Records
<1>3. ASSUME q.how \in Takers PROVE Matches(q)
  <2>1. \A i \in DOMAIN r.plan : Did(q, i) <=> Did(r, i)
    BY <1>1, <1>2, <1>3, OneMore DEF Did
  <2>2. Matches(r)
    BY <1>2, <1>3 DEF Sound
  <2>3. QED
    BY <1>2, <2>1, <2>2 DEF Matches
<1>4. QED
  BY <1>1, <1>2, <1>3 DEF Sound

LEMMA TookSound ==
    ASSUME NEW j \in Jobs, NEW at, Sound(job[j], at), at \notin {"idle", "waiting"},
           job[j].how \in Takers, ~BatchOver(j)
    PROVE  LET q == [HasResult(j, "done") EXCEPT !.took = @ \cup {Current(j)}]
           IN  Sound(q, "acting") /\ q.took # {} /\ q.id = job[j].id /\ q.how = job[j].how
<1> DEFINE q == [HasResult(j, "done") EXCEPT !.took = @ \cup {Current(j)}]
           r == job[j]
<1>1. r \in Records /\ DOMAIN r.plan \subseteq DOMAIN r.files
  BY DEF Sound
<1>2. Current(j) \in Paths /\ \A i \in Ahead(r) : r.files[i] = Current(j)
  BY <1>1, PathAhead
<1>3. /\ q \in Records /\ q.batch = Append(r.batch, "done") /\ q.took = r.took \cup {Current(j)}
      /\ q.plan = r.plan /\ q.files = r.files /\ q.how = r.how /\ q.id = r.id
  <2>1. "done" \in Verdicts
    BY DEF Verdicts
  <2> DEFINE t == r.took \cup {Current(j)}
  <2>2. t \in SUBSET Paths
    BY <1>1, <1>2 DEF Records
  <2>3. q = Filed(r, "done", t)
    BY <1>1 DEF HasResult, Records, Filed
  <2> HIDE DEF t, q, r
  <2>5. /\ q \in Records /\ q.batch = Append(r.batch, "done") /\ q.took = t
        /\ q.plan = r.plan /\ q.files = r.files /\ q.how = r.how /\ q.id = r.id
    BY <1>1, <2>1, <2>2, <2>3, FilesTaking
  <2>6. QED
    BY <2>5 DEF t
<1>4. \A i \in DOMAIN r.plan : Did(q, i) <=> (Did(r, i) \/ i \in Ahead(r))
  <2>1. "done" \in Verdicts
    BY DEF Verdicts
  <2>2. ASSUME NEW i \in DOMAIN r.plan, r.plan[i]
        PROVE  Did(q, i) <=> (Did(r, i) \/ i \in Ahead(r))
    <3> HIDE DEF q
    <3>1. QED
      BY <1>1, <1>3, <2>1, <2>2, OneMore
  <2>3. \A i \in DOMAIN r.plan : (Did(q, i) \/ Did(r, i) \/ i \in Ahead(r)) => r.plan[i]
    BY <1>3 DEF Did, Ahead
  <2>4. QED
    BY <2>2, <2>3, Zenon
<1>5. Matches(r)
  BY DEF Sound
<1>6. \E i \in DOMAIN r.plan : i \in Ahead(r)
  <2>1. Due(j) = Ahead(r)
    BY DEF Due, Ahead
  <2>2. QED
    BY <2>1 DEF BatchOver, Ahead
<1>7. Matches(q)
  <2>1. ASSUME NEW p \in Paths, p \in q.took
        PROVE  \E i \in DOMAIN q.plan : q.files[i] = p /\ Did(q, i)
    BY <1>2, <1>3, <1>4, <1>5, <1>6, <2>1 DEF Matches
  <2>2. ASSUME NEW p \in Paths, NEW i \in DOMAIN q.plan, q.files[i] = p, Did(q, i)
        PROVE  p \in q.took
    BY <1>2, <1>3, <1>4, <1>5, <2>2, ZenonT(40) DEF Matches
  <2>3. QED
    BY <2>1, <2>2 DEF Matches
<1>8. QED
  BY <1>1, <1>3, <1>7 DEF Sound

\* What was taken shows in the answer.
LEMMA TookIsNumbered ==
    ASSUME NEW j \in Jobs, NEW at, Sound(job[j], at), job[j].took # {}
    PROVE  Number(Outcome(j), "done") > 0
<1> DEFINE r == job[j]
           S == { i \in DOMAIN Outcome(j) : Outcome(j)[i] = "done" }
<1>1. r \in Records /\ r.took \subseteq Paths /\ r.plan \in Plans /\ Matches(r)
  BY DEF Sound, Records
<1>2. PICK i \in DOMAIN r.plan : Did(r, i)
  BY <1>1 DEF Matches
<1>3. DOMAIN Outcome(j) = DOMAIN r.plan /\ Outcome(j)[i] = "done"
  BY <1>2 DEF Outcome, Answer, Did
<1>4. IsFiniteSet(S) /\ S # {}
  <2>1. IsFiniteSet(DOMAIN r.plan)
    BY <1>1, BeforeGrows
  <2>2. S \subseteq DOMAIN r.plan /\ i \in S
    BY <1>2, <1>3
  <2>3. QED
    BY <2>1, <2>2, FS_Subset
<1>5. Cardinality(S) \in Nat /\ Cardinality(S) # 0
  BY <1>4, FS_CardinalityType, FS_EmptySet
<1>6. QED
  BY <1>5 DEF Number

-----------------------------------------------------------------------------
(* Requests that begin. *)
LEMMA ListsOfPaths ==
    /\ <<>> \in Lists /\ <<>> \in Plans
    /\ \A files \in Seq(Paths) : files \in Lists
    /\ \A files \in Lists : IsFiniteSet(DOMAIN files) /\ DOMAIN files \subseteq Nat
<1>1. {} \in Indices
  BY FS_EmptySet DEF Indices
<1>2. <<>> \in [{} -> Paths] /\ <<>> \in [{} -> BOOLEAN]
  OBVIOUS
<1>3. ASSUME NEW files \in Seq(Paths) PROVE files \in Lists
  <2>1. files \in [1 .. Len(files) -> Paths] /\ Len(files) \in Nat
    OBVIOUS
  <2>2. 1 .. Len(files) \in Indices
    BY <2>1, FS_Interval DEF Indices
  <2>3. QED
    BY <2>1, <2>2 DEF Lists
<1>4. ASSUME NEW files \in Lists PROVE IsFiniteSet(DOMAIN files) /\ DOMAIN files \subseteq Nat
  BY DEF Lists, Indices
<1>5. QED
  BY <1>1, <1>2, <1>3, <1>4 DEF Lists, Plans

LEMMA FoundIsList ==
    ASSUME NEW files \in Lists PROVE Found(files) \in Lists
<1> DEFINE S == { k \in DOMAIN files : Exists(files[k]) }
<1>1. S \in Indices
  <2>1. IsFiniteSet(S)
    BY ListsOfPaths, FS_Subset
  <2>2. QED
    BY <2>1, ListsOfPaths DEF Indices
<1>2. Found(files) \in [S -> Paths]
  BY DEF Found, Lists
<1>3. QED
  BY <1>1, <1>2 DEF Lists

\* What a request is before it has done anything.
LEMMA FreshSound ==
    ASSUME NEW r \in Records, NEW at, at \in {"idle", "waiting", "acting", "answered"},
           DOMAIN r.plan \subseteq DOMAIN r.files, r.batch = <<>>, r.took = {}
    PROVE  Sound(r, at)
<1>1. \A i \in DOMAIN r.plan : ~Did(r, i)
  <2>1. DOMAIN r.batch = {}
    OBVIOUS
  <2>2. QED
    BY <2>1 DEF Did
<1>2. Matches(r)
  BY <1>1 DEF Matches
<1>3. QED
  BY <1>2 DEF Sound

LEMMA NoJobSound == NoJob \in Records /\ Sound(NoJob, "idle")
<1>1. <<>> \in Seq(Verdicts) /\ {} \in SUBSET Nat /\ {} \in SUBSET Paths
  OBVIOUS
<1>2. NoJob \in Records
  BY <1>1, ListsOfPaths DEF NoJob, Records
<1>3. QED
  BY <1>2, FreshSound DEF NoJob

\* One request moves and the others stay.
Moves(j, x, at) == job' = [job EXCEPT ![j] = x] /\ pc' = [pc EXCEPT ![j] = at]

SoundMove(j, x, at) == /\ Apart /\ issued' = issued
                       /\ at \in Labels /\ Moves(j, x, at) /\ Sound(x, at)
                       /\ j \in Manual => x.how # "MOVE"
                       /\ j \in Approvals /\ at # "idle" => x.id \in 1 .. issued

Moved(j, x, at) == /\ Apart' /\ job'[j] = x /\ pc'[j] = at
                   /\ \A k \in Jobs \ {j} : job'[k] = job[k] /\ pc'[k] = pc[k]

LEMMA OneMoves ==
    ASSUME NEW j \in Jobs, NEW x, NEW at, SoundMove(j, x, at)
    PROVE  Moved(j, x, at)
<1>1. /\ x \in Records /\ at \in Labels /\ Moves(j, x, at) /\ Sound(x, at)
      /\ Apart /\ issued' = issued
  BY DEF Sound, SoundMove
<1>2. /\ job'[j] = x /\ pc'[j] = at
      /\ \A k \in Jobs \ {j} : job'[k] = job[k] /\ pc'[k] = pc[k]
      /\ pc' \in [Jobs -> Labels] /\ job' \in [Jobs -> Records]
  BY <1>1 DEF Apart, Moves
<1>3. \A k \in Jobs : Sound(job'[k], pc'[k])
  BY <1>1, <1>2 DEF Apart
<1>4. \A k \in Manual : job'[k].how # "MOVE"
  BY <1>1, <1>2 DEF Apart, SoundMove, Jobs
<1>5. \A k \in Approvals : pc'[k] # "idle" => job'[k].id \in 1 .. issued'
  BY <1>1, <1>2 DEF Apart, SoundMove, Jobs
<1>6. QED
  BY <1>2, <1>3, <1>4, <1>5 DEF Apart, Moved

LEMMA InitHolds == Init => IInv
<1> SUFFICES ASSUME Init PROVE IInv
  OBVIOUS
<1>1. Apart
  <2>1. NoJob.how = "none"
    BY DEF NoJob
  <2>2. pc = [j \in Jobs |-> "idle"] /\ job = [j \in Jobs |-> NoJob]
    BY DEF Init
  <2>3. \A j \in Jobs : pc[j] = "idle" /\ job[j] = NoJob
    BY <2>2
  <2>4. pc \in [Jobs -> Labels] /\ job \in [Jobs -> Records]
    <3>1. NoJob \in Records
      BY NoJobSound
    <3>2. pc \in [Jobs -> Labels]
      BY <2>2 DEF Labels
    <3>3. job \in [Jobs -> Records]
      BY <2>2, <3>1
    <3>4. QED
      BY <3>2, <3>3
  <2>5. \A j \in Jobs : Sound(job[j], pc[j])
    BY <2>3, NoJobSound
  <2>6. QED
    BY <2>1, <2>3, <2>4, <2>5 DEF Apart
<1>2. Table
  BY DEF Init, Table, Stored
<1>3. Locked /\ Once
  BY DEF Init, Locked, LockIsWorkedUnder, Inside, Once
<1>4. Kept
  <2>1. \A p \in Places : disk[p] = IF p \in Paths THEN p ELSE Absent
    BY DEF Init
  <2>2. Paths \subseteq Places
    BY DEF Places
  <2>3. NothingLost
    BY <2>1, <2>2 DEF Init, NothingLost
  <2>4. QED
    BY <2>3 DEF Init, Kept
<1>5. QED
  BY <1>1, <1>2, <1>3, <1>4 DEF IInv

LEMMA KeptStill == ASSUME Kept, UNCHANGED <<disk, bin, erased, pc, job>> PROVE Kept'
<1>1. \A j \in Jobs : Current(j)' = Current(j)
  BY DEF Current, Due
<1>2. NothingLost'
  BY DEF Kept, NothingLost
<1>3. QED
  BY <1>1, <1>2 DEF Kept, Exists

\* Scans, the clock and what changes nothing.
LEMMA BystanderStep ==
    ASSUME IInv, UNCHANGED <<disk, bin, erased, proposals, issued, execMu, pc, job, acted>>
    PROVE  IInv'
<1>1. Apart' /\ Table'
  BY DEF IInv, Apart, Table, Stored
<1>2. Locked' /\ Once'
  BY DEF IInv, Locked, Once, LockIsWorkedUnder, Inside, Stored
<1>3. Kept'
  BY KeptStill DEF IInv
<1>4. QED
  BY <1>1, <1>2, <1>3 DEF IInv

-----------------------------------------------------------------------------
(* Steps of one request that leave the table and the disk as they are. *)
LEMMA OthersPaths ==
    ASSUME NEW j, \A k \in Jobs \ {j} : job'[k] = job[k]
    PROVE  \A k \in Jobs \ {j} : Current(k)' = Current(k)
BY DEF Current, Due

LEMMA KeptBeside ==
    ASSUME Kept, NEW j \in Jobs, UNCHANGED <<disk, bin, erased>>,
           \A k \in Jobs \ {j} : job'[k] = job[k] /\ pc'[k] = pc[k],
           (pc'[j] = "checked" /\ job'[j].how = "MOVE") => ~Exists(Target[Current(j)'])
    PROVE  Kept'
<1>1. \A k \in Jobs \ {j} : Current(k)' = Current(k)
  BY ZenonT(40) DEF Current, Due
<1>2. NothingLost'
  BY DEF Kept, NothingLost
<1>3. QED
  BY <1>1, <1>2 DEF Kept, Exists

\* Propostas may leave the table, and new ones may come.
Thinner == /\ issued' \in issued .. MaxProposals
           /\ \A i \in 1 .. issued : proposals'[i] \in {proposals[i], Absent}

LEMMA SharedBeside ==
    ASSUME Apart, Table, Locked, Once, Thinner, UNCHANGED <<execMu, acted>>,
           \A k \in Approvals : Inside(k)' <=> Inside(k),
           \A k \in Approvals : Inside(k) => job'[k].id = job[k].id /\ job'[k].took = job[k].took
    PROVE  Locked' /\ Once'
<1>1. LockIsWorkedUnder'
  <2>1. ASSUME NEW k \in Approvals PROVE Inside(k)' <=> execMu' = k
    BY DEF Locked, LockIsWorkedUnder
  <2>2. QED
    BY <2>1 DEF LockIsWorkedUnder
<1>2. ASSUME NEW k \in Approvals, Inside(k)'
      PROVE  /\ Stored(job[k].id)' => ~proposals'[job'[k].id].executed
             /\ job'[k].took = {} => acted'[job'[k].id] = 0
  <2>1. Inside(k) /\ job'[k].id = job[k].id /\ job'[k].took = job[k].took
    BY <1>2
  <2>2. job[k].id \in 1 .. issued
    BY <2>1 DEF Apart, Inside
  <2>3. QED
    BY <2>1, <2>2 DEF Locked, Stored, Thinner
<1>3. ASSUME NEW i \in Ids, acted'[i] = 1
      PROVE  /\ i <= issued'
             /\ \/ ~Stored(i)' \/ proposals'[i].executed
                \/ \E k \in Approvals : Inside(k)' /\ job'[k].id = i /\ job'[k].took # {}
  <2>0. i \in 1 .. issued /\ i <= issued'
    BY <1>3 DEF Once, Table, Thinner
  <2>1. CASE \E k \in Approvals : Inside(k) /\ job[k].id = i /\ job[k].took # {}
    <3>1. PICK k \in Approvals : Inside(k) /\ job[k].id = i /\ job[k].took # {}
      BY <2>1
    <3>2. Inside(k)' /\ job'[k].id = i /\ job'[k].took # {}
      BY <3>1
    <3>3. QED
      BY <2>0, <3>2
  <2>2. CASE ~\E k \in Approvals : Inside(k) /\ job[k].id = i /\ job[k].took # {}
    <3>1. ~Stored(i) \/ proposals[i].executed
      BY <1>3, <2>2 DEF Once
    <3>2. QED
      BY <2>0, <3>1 DEF Stored, Thinner
  <2>3. QED
    BY <2>1, <2>2
<1>4. Locked'
  BY <1>1, <1>2 DEF Locked
<1>5. Once'
  BY <1>3 DEF Once
<1>6. QED
  BY <1>4, <1>5

LEMMA QuietStep ==
    ASSUME IInv, NEW j \in Jobs, Inside(j), NEW x, NEW at \in {"acting", "checked", "forgetting"},
           Moves(j, x, at),
           x.id = job[j].id, x.took = job[j].took, x.how = job[j].how, Sound(x, at),
           (at = "checked" /\ x.how = "MOVE") => ~Exists(Target[Current(j)']),
           UNCHANGED <<disk, bin, erased, proposals, issued, execMu, acted>>
    PROVE  IInv'
<1>1. /\ Apart' /\ job'[j] = x /\ pc'[j] = at
      /\ \A k \in Jobs \ {j} : job'[k] = job[k] /\ pc'[k] = pc[k]
  <2>1. Apart /\ at \in Labels /\ issued' = issued
    BY DEF IInv, Labels
  <2>2. j \in Manual => x.how # "MOVE"
    BY DEF IInv, Apart
  <2>3. j \in Approvals => x.id \in 1 .. issued
    BY DEF IInv, Apart, Inside
  <2>4. SoundMove(j, x, at)
    BY <2>1, <2>2, <2>3 DEF SoundMove
  <2>5. Moved(j, x, at)
    BY <2>4, OneMoves
  <2>6. QED
    BY <2>5 DEF Moved
<1>2. \A k \in Approvals : Inside(k)' <=> Inside(k)
  BY <1>1 DEF Inside
<1>3. \A k \in Approvals : job'[k].id = job[k].id /\ job'[k].took = job[k].took
  BY <1>1
<1>4. Locked' /\ Once'
  <2>1. Thinner
    BY DEF IInv, Table, Thinner
  <2>2. QED
    BY <1>2, <1>3, <2>1, SharedBeside DEF IInv
<1>5. Kept'
  BY <1>1, KeptBeside DEF IInv
<1>6. Table'
  BY DEF IInv, Table, Stored
<1>7. QED
  BY <1>1, <1>4, <1>5, <1>6 DEF IInv

\* Of the same kind, with nothing said of the request.
LEMMA SameJob == ASSUME Apart, NEW j \in Jobs, UNCHANGED job PROVE job' = [job EXCEPT ![j] = job[j]]
BY DEF Apart
LEMMA SamePlace == ASSUME Apart, NEW j \in Jobs, UNCHANGED pc PROVE pc' = [pc EXCEPT ![j] = pc[j]]
BY DEF Apart

LEMMA MkdirFailsStep == ASSUME IInv, NEW j \in Jobs, MkdirFails(j) PROVE IInv'
<1> DEFINE r == job[j]
           x == [r EXCEPT !.plan = <<>>]
<1>1. r \in Records /\ Sound(r, "acting") /\ r.how = "MOVE" /\ r.batch = <<>>
  BY DEF IInv, Apart, MkdirFails, Sound
<1>2. x \in Records /\ x.plan = <<>> /\ x.files = r.files /\ x.how = r.how
      /\ x.batch = r.batch /\ x.took = r.took /\ x.id = r.id
  BY <1>1, ListsOfPaths DEF Records
<1>3. r.took = {}
  <2>1. DOMAIN r.batch = {}
    BY <1>1
  <2>2. r.took \subseteq Paths /\ Matches(r)
    BY <1>1 DEF Records, Sound, Takers
  <2>3. QED
    BY <2>1, <2>2 DEF Matches, Did
<1>4. Sound(x, "acting")
  <2>1. DOMAIN x.plan = {}
    BY <1>2
  <2> HIDE DEF x, r
  <2>2. QED
    BY <1>1, <1>2, <1>3, <2>1, FreshSound
<1>5. Inside(j)
  BY DEF MkdirFails, Inside
<1>6. Moves(j, x, "acting")
  BY SamePlace DEF IInv, MkdirFails, Moves
<1> HIDE DEF x, r
<1>7. x.id = job[j].id /\ x.took = job[j].took /\ x.how = job[j].how
  BY <1>2 DEF r
<1>8. QED
  BY <1>4, <1>5, <1>6, <1>7, QuietStep DEF MkdirFails, world, table

\* A step that leaves the request itself alone.
LEMMA SameSound == ASSUME Apart, NEW j \in Jobs PROVE Sound(job[j], pc[j]) /\ job[j] \in Records
BY DEF Apart

LEMMA CheckStep == ASSUME IInv, NEW j \in Jobs, Check(j) PROVE IInv'
<1> DEFINE v == Looked(job[j].how, Current(j))
<1>1. Apart /\ Inside(j) /\ job[j].how \in Takers /\ ~BatchOver(j)
  BY DEF IInv, Check, Inside, Takers
<1>2. Sound(job[j], "acting")
  BY <1>1, SameSound DEF Check
<1>3. UNCHANGED <<disk, bin, erased, proposals, issued, execMu, acted>>
  BY DEF Check, world, table
<1>4. CASE v = "go" /\ Goto(j, "checked") /\ UNCHANGED job
  <2>1. Moves(j, job[j], "checked")
    BY <1>1, <1>4, SameJob DEF Moves, Goto
  <2>2. Ahead(job[j]) # {}
    BY <1>1 DEF BatchOver, Due, Ahead
  <2>3. Sound(job[j], "checked")
    BY <1>1, <1>2, <2>2 DEF Sound
  <2>4. job[j].how = "MOVE" => ~Exists(Target[Current(j)'])
    <3>1. Current(j)' = Current(j)
      BY <1>4 DEF Current, Due
    <3>2. QED
      BY <1>4, <3>1 DEF Looked
  <2>5. QED
    BY <1>1, <1>3, <2>1, <2>3, <2>4, QuietStep
<1>5. CASE v # "go" /\ Result(j, v) /\ UNCHANGED pc
  <2>1. v \in Verdicts /\ v # "done"
    BY <1>1, <1>5 DEF Looked, Verdicts, Takers
  <2>2. Moves(j, HasResult(j, v), "acting")
    BY <1>1, <1>5, SamePlace DEF Moves, Result, Check
  <2>3. Sound(HasResult(j, v), "acting")
    BY <1>2, <2>1, RefusedSound
  <2>4. /\ HasResult(j, v).id = job[j].id /\ HasResult(j, v).took = job[j].took
        /\ HasResult(j, v).how = job[j].how
    BY <1>1, SameSound, ResultKeeps
  <2>5. QED
    BY <1>1, <1>3, <2>2, <2>3, <2>4, QuietStep
<1>6. QED
  BY <1>4, <1>5 DEF Check

LEMMA ActFailsStep == ASSUME IInv, NEW j \in Jobs, ActFails(j) PROVE IInv'
<1>1. Apart /\ Inside(j) /\ Sound(job[j], "checked") /\ job[j] \in Records
  BY SameSound DEF IInv, ActFails, Inside
<1>2. UNCHANGED <<disk, bin, erased, proposals, issued, execMu, acted>>
  BY DEF ActFails, world, table
<1>3. Moves(j, HasResult(j, "failed"), "acting")
  BY DEF Moves, Result, ActFails, Goto
<1>4. Sound(HasResult(j, "failed"), "acting")
  BY <1>1, RefusedSound DEF Verdicts
<1>5. /\ HasResult(j, "failed").id = job[j].id /\ HasResult(j, "failed").took = job[j].took
      /\ HasResult(j, "failed").how = job[j].how
  BY <1>1, ResultKeeps
<1>6. QED
  BY <1>1, <1>2, <1>3, <1>4, <1>5, QuietStep

LEMMA AnnotateStep == ASSUME IInv, NEW j \in Jobs, Annotate(j) PROVE IInv'
<1> DEFINE v == IF job[j].how = "MARK_REVIEW" \/ (Current(j) \in scope /\ Exists(Current(j)))
                THEN "done" ELSE "failed"
<1>1. /\ Apart /\ Inside(j) /\ Sound(job[j], "acting") /\ job[j] \in Records
      /\ job[j].how \notin Takers
  BY SameSound DEF IInv, Annotate, Inside, Takers
<1>2. UNCHANGED <<disk, bin, erased, proposals, issued, execMu, acted>>
  BY DEF Annotate, world, table
<1>3. Moves(j, HasResult(j, v), "acting")
  BY <1>1, SamePlace DEF Moves, Result, Annotate
<1>4. v \in Verdicts
  BY DEF Verdicts
<1> HIDE DEF v
<1>5. Sound(HasResult(j, v), "acting")
  BY <1>1, <1>4, RefusedSound
<1>6. /\ HasResult(j, v).id = job[j].id /\ HasResult(j, v).took = job[j].took
      /\ HasResult(j, v).how = job[j].how
  BY <1>1, ResultKeeps
<1>7. QED
  BY <1>1, <1>2, <1>3, <1>5, <1>6, QuietStep

LEMMA ForgetStep ==
    ASSUME IInv, NEW j \in Jobs, ForgetInTree(j) \/ ForgetInIndex(j) PROVE IInv'
<1>1. Apart /\ Inside(j) /\ Sound(job[j], pc[j]) /\ job[j] \in Records
  BY SameSound DEF IInv, ForgetInTree, ForgetInIndex, Inside
<1>2. UNCHANGED <<disk, bin, erased, proposals, issued, execMu, acted>>
  BY DEF ForgetInTree, ForgetInIndex, world, table
<1>3. CASE ForgetInTree(j)
  <2>1. Moves(j, job[j], "forgetting")
    BY <1>1, <1>3, SameJob DEF Moves, ForgetInTree, Goto
  <2>2. Sound(job[j], "forgetting")
    BY <1>1, <1>3 DEF Sound, ForgetInTree
  <2>3. QED
    BY <1>1, <1>2, <2>1, <2>2, QuietStep
<1>4. CASE ForgetInIndex(j)
  <2>1. PICK i \in ToForget(j) : job' = [job EXCEPT ![j].forgot = @ \cup {i}]
    BY <1>4 DEF ForgetInIndex
  <2> DEFINE r == job[j]
             x == [r EXCEPT !.forgot = @ \cup {i}]
  <2>2. i \in Nat
    <3>1. i \in DOMAIN r.plan /\ r.plan \in Plans
      BY <1>1 DEF ToForget, Outcome, Answer, Records
    <3>2. QED
      BY <3>1, BeforeGrows
  <2>3. /\ x \in Records /\ x.how = r.how /\ x.files = r.files /\ x.plan = r.plan
        /\ x.batch = r.batch /\ x.took = r.took /\ x.id = r.id
    BY <1>1, <2>2 DEF Records
  <2>4. Moves(j, x, "acting")
    BY <1>4, <2>1 DEF Moves, ForgetInIndex, Goto
  <2> HIDE DEF x
  <2>5. Sound(x, "acting")
    BY <1>1, <1>4, <2>3 DEF Sound, ForgetInIndex, Matches, Did
  <2>6. x.id = job[j].id /\ x.took = job[j].took /\ x.how = job[j].how
    BY <2>3
  <2>7. QED
    BY <1>1, <1>2, <2>4, <2>5, <2>6, QuietStep
<1>5. QED
  BY <1>3, <1>4

-----------------------------------------------------------------------------
(* Requests that come, wait and leave. *)
LEMMA AsideStep ==
    ASSUME IInv, NEW j \in Jobs, NEW x, NEW at \in Labels \ {"checked"}, Moves(j, x, at), Sound(x, at),
           j \in Manual => x.how # "MOVE",
           j \in Approvals => /\ ~Inside(j) /\ at \in {"waiting", "answered"}
                             /\ x.id \in 1 .. issued,
           Thinner, Table', UNCHANGED <<disk, bin, erased, execMu, acted, issued>>
    PROVE  IInv'
<1>1. /\ Apart' /\ job'[j] = x /\ pc'[j] = at
      /\ \A k \in Jobs \ {j} : job'[k] = job[k] /\ pc'[k] = pc[k]
  <2>1. Apart /\ at \in Labels /\ issued' = issued
    BY DEF IInv
  <2>2. SoundMove(j, x, at)
    BY <2>1 DEF SoundMove
  <2>3. Moved(j, x, at)
    BY <2>2, OneMoves
  <2>4. QED
    BY <2>3 DEF Moved
<1>2. \A k \in Approvals : Inside(k)' <=> Inside(k)
  BY <1>1 DEF Inside
<1>3. \A k \in Approvals : Inside(k) => job'[k].id = job[k].id /\ job'[k].took = job[k].took
  BY <1>1
<1>4. Locked' /\ Once'
  BY <1>2, <1>3, SharedBeside DEF IInv
<1>5. Kept'
  BY <1>1, KeptBeside DEF IInv
<1>6. QED
  BY <1>1, <1>4, <1>5 DEF IInv

LEMMA SameTable == ASSUME Table, UNCHANGED <<proposals, issued, acted>> PROVE Table' /\ Thinner
BY DEF Table, Thinner, Stored

LEMMA PlanIsPlan ==
    ASSUME NEW files \in Lists, NEW c
    PROVE  PlanOf(files, c) \in Plans /\ DOMAIN PlanOf(files, c) = DOMAIN files
<1>1. DOMAIN files \in Indices
  BY ListsOfPaths DEF Indices
<1>2. PlanOf(files, c) \in [DOMAIN files -> BOOLEAN]
  BY DEF PlanOf
<1>3. QED
  BY <1>1, <1>2 DEF Plans

\* A request is told what to do.
Told(r, how, files, plan) == [r EXCEPT !.how = how, !.files = files, !.plan = plan]

LEMMA ToldKeeps ==
    ASSUME NEW r \in Records, NEW how \in Kinds \cup {"DELETE"}, NEW files \in Lists, NEW plan \in Plans
    PROVE  LET x == Told(r, how, files, plan) IN
           /\ x \in Records /\ x.how = how /\ x.files = files /\ x.plan = plan
           /\ x.batch = r.batch /\ x.took = r.took /\ x.id = r.id
BY DEF Records, Told

LEMMA NumberedKeeps ==
    ASSUME NEW i \in Nat
    PROVE  LET x == [NoJob EXCEPT !.id = i] IN
           /\ x \in Records /\ x.id = i
           /\ x.how = NoJob.how /\ x.plan = NoJob.plan /\ x.batch = NoJob.batch /\ x.took = NoJob.took
<1>1. NoJob \in Records
  BY NoJobSound
<1>2. QED
  BY <1>1 DEF Records

LEMMA NoJobFields == NoJob.how = "none" /\ NoJob.plan = <<>> /\ NoJob.batch = <<>> /\ NoJob.took = {}
BY DEF NoJob

LEMMA AskStep == ASSUME IInv, NEW j \in Manual, NEW r \in Requests, Ask(j, r) PROVE IInv'
<1> DEFINE plan == PlanOf(r.files, r.confirmed)
           x == Told(NoJob, r.how, r.files, plan)
<1>1. r.files \in Lists /\ r.how \in {"RECYCLE", "DELETE"}
  BY ListsOfPaths
<1>2. plan \in Plans /\ DOMAIN plan = DOMAIN r.files
  BY <1>1, PlanIsPlan
<1>3. Moves(j, x, "acting")
  BY DEF Ask, Moves, Goto, Told
<1>4. r.how \in Kinds \cup {"DELETE"} /\ NoJob \in Records
  BY <1>1, NoJobSound DEF Kinds
<1> HIDE DEF plan
<1>5. /\ x \in Records /\ x.how = r.how /\ x.files = r.files /\ x.plan = plan
      /\ x.batch = <<>> /\ x.took = {}
  BY <1>1, <1>2, <1>4, ToldKeeps, NoJobFields, SMTT(40)
<1> HIDE DEF x
<1>6. Sound(x, "acting")
  BY <1>2, <1>5, FreshSound
<1>7. Table' /\ Thinner
  BY SameTable DEF IInv, Ask, table
<1>8. QED
  BY <1>1, <1>3, <1>5, <1>6, <1>7, AsideStep DEF Ask, world, table, Labels

LEMMA ReplyStep == ASSUME IInv, NEW j \in Jobs, Reply(j) PROVE IInv'
<1>1. Apart /\ j \in Manual /\ Sound(job[j], "acting") /\ job[j] \in Records
  BY SameSound DEF IInv, Reply, Over
<1>2. Moves(j, job[j], "answered")
  BY <1>1, SameJob DEF Moves, Reply, Goto
<1>3. Sound(job[j], "answered")
  BY <1>1 DEF Sound
<1>4. Table' /\ Thinner
  BY SameTable DEF IInv, Reply, table
<1>5. job[j].how # "MOVE"
  BY <1>1 DEF Apart
<1>6. QED
  BY <1>1, <1>2, <1>3, <1>4, <1>5, AsideStep DEF Reply, world, table, Labels

LEMMA ApproveStep == ASSUME IInv, NEW j \in Approvals, NEW i \in Ids, Approve(j, i) PROVE IInv'
<1> DEFINE x == [NoJob EXCEPT !.id = i]
<1>1. /\ x \in Records /\ x.id = i /\ x.plan = <<>> /\ x.batch = <<>> /\ x.took = {}
  BY NumberedKeeps, NoJobFields
<1>3. Moves(j, x, "waiting")
  BY DEF Approve, Moves, Goto
<1> HIDE DEF x
<1>4. Sound(x, "waiting")
  <2>1. DOMAIN x.plan = {}
    BY <1>1
  <2>2. QED
    BY <1>1, <2>1, FreshSound
<1>5. Table' /\ Thinner
  BY SameTable DEF IInv, Approve, table
<1>6. ~Inside(j) /\ i \in 1 .. issued
  BY DEF Approve, Inside, IInv, Table
<1>7. QED
  BY <1>1, <1>3, <1>4, <1>5, <1>6, AsideStep DEF Approve, world, table, Labels

-----------------------------------------------------------------------------
(* Steps on the table of the Propostas. *)
LEMMA PurgedIsThinner ==
    ASSUME Table
    PROVE  /\ Purged \in [Ids -> Propostas \cup {Absent}]
           /\ \A i \in Ids : Purged[i] \in {proposals[i], Absent}
BY DEF Table, Purged

LEMMA ProposeStep == ASSUME IInv, NEW s \in Suggestions, Propose(s) PROVE IInv'
<1> DEFINE found == Found(s.files)
           new == [kind |-> s.kind, files |-> found, executed |-> FALSE,
                   good |-> 0, refused |-> 0, failed |-> 0]
<1>1. Apart /\ Table /\ Locked /\ Once /\ Kept
  BY DEF IInv
<1>2. /\ issued < MaxProposals /\ s.kind \in Kinds /\ issued' = issued + 1
      /\ proposals' = [Purged EXCEPT ![issued + 1] = new]
      /\ UNCHANGED <<disk, bin, erased, execMu, pc, job, acted>>
  BY DEF Propose, world
<1>3. found \in Lists
  <2>1. s.files \in Lists
    BY ListsOfPaths
  <2>2. QED
    BY <2>1, FoundIsList
<1> HIDE DEF found
<1>4. new \in Propostas
  BY <1>2, <1>3 DEF Propostas
<1> HIDE DEF new
<1>5. issued \in 0 .. MaxProposals /\ issued + 1 \in Ids
  BY <1>1, <1>2 DEF Table
<1>6. /\ proposals' \in [Ids -> Propostas \cup {Absent}]
      /\ \A i \in Ids \ {issued + 1} : proposals'[i] \in {proposals[i], Absent}
  BY <1>1, <1>2, <1>4, <1>5, PurgedIsThinner
<1>7. Table'
  BY <1>1, <1>2, <1>5, <1>6 DEF Table, Stored
<1>8. Thinner
  BY <1>2, <1>5, <1>6 DEF Thinner
<1>9. Apart'
  BY <1>1, <1>2, <1>5 DEF Apart
<1>10. Locked' /\ Once'
  <2>1. \A k \in Approvals : /\ Inside(k)' <=> Inside(k)
                             /\ job'[k].id = job[k].id /\ job'[k].took = job[k].took
    BY <1>2 DEF Inside
  <2>2. QED
    BY <1>1, <1>2, <1>8, <2>1, SharedBeside
<1>11. Kept'
  BY <1>1, <1>2, KeptStill
<1>12. QED
  BY <1>7, <1>9, <1>10, <1>11 DEF IInv

\* What an approval finds, and the request it becomes.
Work(j, p) == Told(job[j], p.kind, p.files,
                   IF p.kind = "RECYCLE" THEN PlanOf(p.files, TRUE) ELSE [k \in DOMAIN p.files |-> TRUE])

LEMMA WorkSound ==
    ASSUME Apart, NEW j \in Approvals, pc[j] = "waiting", NEW p \in Propostas
    PROVE  Sound(Work(j, p), "acting") /\ Work(j, p).id = job[j].id /\ Work(j, p).took = {}
<1> DEFINE plan == IF p.kind = "RECYCLE" THEN PlanOf(p.files, TRUE) ELSE [k \in DOMAIN p.files |-> TRUE]
<1>1. job[j] \in Records /\ job[j].batch = <<>> /\ job[j].took = {}
  BY DEF Apart, Sound
<1>2. p.files \in Lists /\ p.kind \in Kinds
  BY DEF Propostas
<1>3. plan \in Plans /\ DOMAIN plan = DOMAIN p.files
  <2>1. [k \in DOMAIN p.files |-> TRUE] \in [DOMAIN p.files -> BOOLEAN]
    OBVIOUS
  <2>2. DOMAIN p.files \in Indices
    BY <1>2, ListsOfPaths DEF Indices
  <2>3. [k \in DOMAIN p.files |-> TRUE] \in Plans
    BY <2>1, <2>2 DEF Plans
  <2>4. PlanOf(p.files, TRUE) \in Plans /\ DOMAIN PlanOf(p.files, TRUE) = DOMAIN p.files
    BY <1>2, PlanIsPlan
  <2>5. QED
    BY <2>3, <2>4
<1>4. Work(j, p) = Told(job[j], p.kind, p.files, plan)
  BY DEF Work
<1> HIDE DEF plan
<1> DEFINE x == Work(j, p)
<1>5. /\ x \in Records /\ x.files = p.files /\ x.plan = plan
      /\ x.batch = <<>> /\ x.took = {} /\ x.id = job[j].id
  BY <1>1, <1>2, <1>3, <1>4, ToldKeeps
<1> HIDE DEF x
<1>6. Sound(x, "acting")
  BY <1>3, <1>5, FreshSound
<1>7. QED
  BY <1>5, <1>6 DEF x

LEMMA EnterStep == ASSUME IInv, NEW j \in Approvals, Enter(j) PROVE IInv'
<1> DEFINE i == job[j].id
           p == Purged[i]
<1>1. Apart /\ Table /\ Locked /\ Once /\ Kept
  BY DEF IInv
<1>2. /\ pc[j] = "waiting" /\ execMu = Nobody /\ proposals' = Purged
      /\ UNCHANGED <<disk, bin, erased, issued, acted>>
  BY DEF Enter, world
<1>3. i \in 1 .. issued /\ i \in Ids
  BY <1>1, <1>2 DEF Apart, Table
<1>4. Table' /\ Thinner
  BY <1>1, <1>2, PurgedIsThinner DEF Table, Thinner, Stored
<1>5. \A k \in Approvals : ~Inside(k)
  BY <1>1, <1>2 DEF Locked, LockIsWorkedUnder
<1>6. CASE p = Absent \/ p.executed
  <2>1. Goto(j, "answered") /\ UNCHANGED <<execMu, job>>
    BY <1>6 DEF Enter
  <2>2. Moves(j, job[j], "answered")
    BY <1>1, <2>1, SameJob DEF Moves, Goto
  <2>3. Sound(job[j], "answered")
    BY <1>1 DEF Apart, Sound
  <2>4. QED
    BY <1>2, <1>3, <1>4, <1>5, <2>1, <2>2, <2>3, AsideStep DEF Labels
<1>7. CASE ~(p = Absent \/ p.executed)
  <2> DEFINE x == Work(j, p)
  <2>1. /\ execMu' = j /\ Moves(j, x, "acting")
    BY <1>7 DEF Enter, Moves, Goto, Work, Told
  <2>2. p \in Propostas /\ p = proposals[i] /\ Stored(i)
    BY <1>1, <1>3, <1>7, PurgedIsThinner DEF Stored
  <2>3. Sound(x, "acting") /\ x.id = i /\ x.took = {}
    BY <1>1, <1>2, <2>2, WorkSound
  <2> HIDE DEF x, p
  <2>4. /\ Apart' /\ job'[j] = x /\ pc'[j] = "acting"
        /\ \A k \in Jobs \ {j} : job'[k] = job[k] /\ pc'[k] = pc[k]
    <3>1. "acting" \in Labels /\ j \notin Manual /\ issued' = issued
      BY <1>2 DEF Labels
    <3>2. SoundMove(j, x, "acting")
      BY <1>1, <1>3, <2>1, <2>3, <3>1 DEF SoundMove
    <3>3. Moved(j, x, "acting")
      BY <3>2, OneMoves
    <3>4. QED
      BY <3>3 DEF Moved
  <2>5. \A k \in Approvals : Inside(k)' <=> k = j
    BY <1>5, <2>4 DEF Inside
  <2>6. acted[i] = 0
    BY <1>1, <1>3, <1>5, <1>7, <2>2 DEF Once
  <2>7. Locked'
    <3>1. LockIsWorkedUnder'
      BY <2>1, <2>5 DEF LockIsWorkedUnder
    <3>2. ~proposals'[i].executed
      BY <1>2, <1>7 DEF p
    <3>3. QED
      BY <1>2, <2>1, <2>3, <2>4, <2>5, <2>6, <3>1, <3>2 DEF Locked
  <2>8. Once'
    <3>1. ASSUME NEW k \in Ids, acted'[k] = 1
          PROVE  k <= issued' /\ (~Stored(k)' \/ proposals'[k].executed)
      <4>1. k <= issued /\ (~Stored(k) \/ proposals[k].executed)
        BY <1>1, <1>2, <1>5, <3>1 DEF Once
      <4>2. proposals'[k] \in {proposals[k], Absent}
        BY <1>1, <1>2, PurgedIsThinner
      <4>3. QED
        BY <1>2, <4>1, <4>2 DEF Stored
    <3>2. QED
      BY <1>1, <1>2, <3>1 DEF Once
  <2>9. Kept'
    BY <1>1, <1>2, <2>4, KeptBeside
  <2>10. QED
    BY <1>4, <2>4, <2>7, <2>8, <2>9 DEF IInv
<1>8. QED
  BY <1>6, <1>7

LEMMA NumberIsNat == ASSUME NEW j \in Jobs, job[j] \in Records, NEW v PROVE Number(Outcome(j), v) \in Nat
<1> DEFINE S == { i \in DOMAIN Outcome(j) : Outcome(j)[i] = v }
<1>1. DOMAIN Outcome(j) = DOMAIN job[j].plan /\ job[j].plan \in Plans
  BY DEF Outcome, Answer, Records
<1>2. IsFiniteSet(S)
  <2>1. IsFiniteSet(DOMAIN Outcome(j))
    BY <1>1, BeforeGrows
  <2>2. QED
    BY <2>1, FS_Subset
<1>3. QED
  BY <1>2, FS_CardinalityType DEF Number

LEMMA CountedKeeps ==
    ASSUME NEW p \in Propostas, NEW g \in Nat, NEW r \in Nat, NEW n \in Nat
    PROVE  LET q == [p EXCEPT !.good = g, !.refused = r, !.failed = n, !.executed = g > 0]
           IN  q \in Propostas /\ (g > 0 => q.executed)
<1>1. ASSUME NEW b \in BOOLEAN
      PROVE  LET q == [p EXCEPT !.good = g, !.refused = r, !.failed = n, !.executed = b]
             IN  q \in Propostas /\ q.executed = b
  BY DEF Propostas
<1>2. (g > 0) \in BOOLEAN
  OBVIOUS
<1>3. QED
  BY <1>1, <1>2

LEMMA RecordStep == ASSUME IInv, NEW j \in Jobs, Record(j) PROVE IInv'
<1> DEFINE i == job[j].id
           good == Number(Outcome(j), "done")
           refused == Number(Outcome(j), "refused")
           failed == Number(Outcome(j), "failed")
           new == [proposals[i] EXCEPT !.good = good, !.refused = refused, !.failed = failed,
                                       !.executed = good > 0]
<1>1. Apart /\ Table /\ Locked /\ Once /\ Kept
  BY DEF IInv
<1>2. /\ j \in Approvals /\ pc[j] = "acting" /\ Inside(j)
      /\ execMu' = Nobody /\ UNCHANGED <<disk, bin, erased, issued, acted, job>>
      /\ pc' = [pc EXCEPT ![j] = "answered"]
  BY DEF Record, Over, Goto, Inside, world
<1>3. i \in 1 .. issued /\ i \in Ids /\ job[j] \in Records /\ Sound(job[j], "acting")
  BY <1>1, <1>2 DEF Apart, Table
<1>4. good \in Nat /\ refused \in Nat /\ failed \in Nat
  BY <1>3, NumberIsNat
<1>5. proposals' = IF Stored(i) THEN [proposals EXCEPT ![i] = new] ELSE proposals
  BY DEF Record
<1>6. job[j].took # {} => good > 0
  BY <1>3, TookIsNumbered
<1> HIDE DEF good, refused, failed
<1>7. ASSUME Stored(i) PROVE new \in Propostas /\ (good > 0 => new.executed)
  <2>1. proposals[i] \in Propostas
    BY <1>1, <1>3, <1>7 DEF Table, Stored
  <2>2. QED
    BY <1>4, <2>1, CountedKeeps
<1> HIDE DEF new
<1>8. /\ proposals' \in [Ids -> Propostas \cup {Absent}]
      /\ \A k \in Ids \ {i} : proposals'[k] = proposals[k]
      /\ Stored(i) => proposals'[i] = new
      /\ ~Stored(i) => proposals'[i] = proposals[i]
  BY <1>1, <1>3, <1>5, <1>7 DEF Table
<1>9. Table'
  BY <1>1, <1>2, <1>3, <1>8 DEF Table, Stored
<1>10. Moves(j, job[j], "answered")
  BY <1>1, <1>2, SameJob DEF Moves
<1>11. /\ Apart' /\ pc'[j] = "answered"
       /\ \A k \in Jobs \ {j} : job'[k] = job[k] /\ pc'[k] = pc[k]
  <2>1. Sound(job[j], "answered")
    BY <1>3 DEF Sound
  <2>2. "answered" \in Labels /\ issued' = issued /\ j \notin Manual
    BY <1>2 DEF Labels
  <2>3. SoundMove(j, job[j], "answered")
    BY <1>1, <1>10, <1>3, <2>1, <2>2 DEF SoundMove
  <2>4. Moved(j, job[j], "answered")
    BY <2>3, OneMoves
  <2>5. QED
    BY <2>4 DEF Moved
<1>12. \A k \in Approvals : Inside(k) => k = j
  BY <1>1, <1>2 DEF Locked, LockIsWorkedUnder
<1>13. \A k \in Approvals : ~Inside(k)'
  BY <1>11, <1>12 DEF Inside
<1>14. Locked'
  <2>1. LockIsWorkedUnder'
    BY <1>2, <1>13 DEF LockIsWorkedUnder
  <2>2. QED
    BY <1>2, <1>13, <2>1 DEF Locked
<1>15. Once'
  <2>1. ASSUME NEW k \in Ids, acted[k] = 1
        PROVE  k <= issued /\ (~Stored(k)' \/ proposals'[k].executed)
    <3>1. CASE k = i
      <4>1. ~Stored(i) \/ job[j].took # {}
        <5>1. Stored(i) => ~proposals[i].executed
          BY <1>1, <1>2 DEF Locked
        <5>2. QED
          BY <1>1, <1>12, <2>1, <3>1, <5>1 DEF Once
      <4>2. CASE Stored(i)
        BY <1>3, <1>6, <1>7, <1>8, <3>1, <4>1, <4>2
      <4>3. CASE ~Stored(i)
        BY <1>3, <1>8, <3>1, <4>3 DEF Stored
      <4>4. QED
        BY <4>2, <4>3
    <3>2. CASE k # i
      <4>1. ~(\E n \in Approvals : Inside(n) /\ job[n].id = k /\ job[n].took # {})
        BY <1>12, <3>2
      <4>2. k <= issued /\ (~Stored(k) \/ proposals[k].executed)
        BY <1>1, <2>1, <4>1 DEF Once
      <4>3. QED
        BY <1>8, <3>2, <4>2 DEF Stored
    <3>3. QED
      BY <3>1, <3>2
  <2>2. QED
    BY <1>1, <1>2, <2>1 DEF Once
<1>16. Kept'
  BY <1>1, <1>2, <1>11, KeptBeside
<1>17. QED
  BY <1>9, <1>11, <1>14, <1>15, <1>16 DEF IInv

-----------------------------------------------------------------------------
(* Steps on the disk. *)
LEMMA AppearsStep == ASSUME IInv, NEW q \in Places, Appears(q) PROVE IInv'
<1>1. Apart /\ Table /\ Locked /\ Once /\ Kept
  BY DEF IInv
<1>2. /\ q \in Contested /\ disk[q] = Absent /\ disk' = [disk EXCEPT ![q] = Stranger]
      /\ UNCHANGED <<bin, erased, proposals, issued, execMu, pc, job, acted>>
  BY DEF Appears, Exists, table
<1>3. Apart' /\ Table'
  BY <1>1, <1>2 DEF Apart, Table, Stored
<1>4. Locked' /\ Once'
  <2>1. Thinner
    BY <1>1, <1>2 DEF Table, Thinner
  <2>2. \A k \in Approvals : /\ Inside(k)' <=> Inside(k)
                             /\ job'[k].id = job[k].id /\ job'[k].took = job[k].took
    BY <1>2 DEF Inside
  <2>3. QED
    BY <1>1, <1>2, <2>1, <2>2, SharedBeside
<1>5. NothingLost'
  <2>1. \A t \in Paths : \A p \in Places : disk'[p] = t <=> disk[p] = t
    BY <1>1, <1>2 DEF Kept
  <2>2. QED
    BY <1>1, <1>2, <2>1 DEF Kept, NothingLost
<1>6. Kept'
  <2>1. disk' \in [Places -> Paths \cup {Stranger, Absent}]
    BY <1>1, <1>2 DEF Kept
  <2>2. ASSUME NEW j \in Jobs, pc'[j] = "checked", job'[j].how = "MOVE"
        PROVE  ~Exists(Target[Current(j)])'
    <3>1. Current(j)' = Current(j)
      BY <1>2 DEF Current, Due
    <3>2. Current(j) \in Paths
      <4>1. Sound(job[j], "checked")
        BY <1>1, <1>2, <2>2 DEF Apart
      <4>2. ~BatchOver(j)
        BY <4>1 DEF Sound, BatchOver, Due, Ahead
      <4>3. QED
        BY <4>1, <4>2, PathAhead DEF Sound
    <3>3. Target[Current(j)] # q
      BY <1>2, <3>2
    <3>4. ~Exists(Target[Current(j)])
      BY <1>1, <1>2, <2>2 DEF Kept
    <3>5. QED
      BY <1>1, <1>2, <3>1, <3>3, <3>4 DEF Exists, Kept
  <2>3. QED
    BY <1>5, <2>1, <2>2 DEF Kept
<1>7. QED
  BY <1>3, <1>4, <1>6 DEF IInv

\* One thing leaves its place, for the Lixeira, for good or for an empty place.
LEMMA LeavesOnce ==
    ASSUME NothingLost, disk \in [Places -> Paths \cup {Stranger, Absent}],
           NEW p \in Places, disk[p] # Absent,
           \/ /\ disk' = [disk EXCEPT ![p] = Absent]
              /\ \/ bin' = bin \cup {disk[p]} /\ erased' = erased
                 \/ bin' = bin /\ erased' = erased \cup {disk[p]}
           \/ \E q \in Places : /\ disk[q] = Absent
                               /\ disk' = [disk EXCEPT ![q] = disk[p], ![p] = Absent]
                               /\ UNCHANGED <<bin, erased>>
    PROVE  NothingLost'
<1>1. ASSUME NEW t \in Paths
      PROVE  /\ \A x, y \in Places : disk'[x] = t /\ disk'[y] = t => x = y
             /\ (\E x \in Places : disk'[x] = t) <=> t \notin bin' \cup erased'
             /\ t \notin bin' \cap erased'
  <2>1. /\ \A x, y \in Places : disk[x] = t /\ disk[y] = t => x = y
        /\ (\E x \in Places : disk[x] = t) <=> t \notin bin \cup erased
        /\ t \notin bin \cap erased
    BY DEF NothingLost
  <2>2. t # Absent
    OBVIOUS
  <2>3. CASE disk' = [disk EXCEPT ![p] = Absent]
    <3>1. \A x \in Places : disk'[x] = t <=> (disk[x] = t /\ x # p)
      BY <2>2, <2>3
    <3>2. /\ t = disk[p] => t \in bin' \cup erased' /\ t \notin bin' \cap erased'
          /\ t # disk[p] => (t \in bin' <=> t \in bin) /\ (t \in erased' <=> t \in erased)
      <4>1. \/ bin' = bin \cup {disk[p]} /\ erased' = erased
            \/ bin' = bin /\ erased' = erased \cup {disk[p]}
        <5>1. \A q \in Places : disk[q] = Absent => disk' # [disk EXCEPT ![q] = disk[p], ![p] = Absent]
          BY <2>3
        <5>2. QED
          BY <5>1
      <4>2. QED
        BY <2>1, <4>1
    <3>3. QED
      BY <2>1, <3>1, <3>2
  <2>4. CASE \E q \in Places : /\ disk[q] = Absent
                              /\ disk' = [disk EXCEPT ![q] = disk[p], ![p] = Absent]
                              /\ UNCHANGED <<bin, erased>>
    <3>1. PICK q \in Places : /\ disk[q] = Absent
                              /\ disk' = [disk EXCEPT ![q] = disk[p], ![p] = Absent]
                              /\ UNCHANGED <<bin, erased>>
      BY <2>4
    <3>2. p # q
      BY <3>1
    <3>3. \A x \in Places : disk'[x] = t <=> IF x = q THEN disk[p] = t ELSE disk[x] = t /\ x # p
      BY <2>2, <3>1, <3>2
    <3>4. QED
      BY <2>1, <2>2, <3>1, <3>3
  <2>5. QED
    BY <2>3, <2>4
<1>2. QED
  BY <1>1 DEF NothingLost

\* No MOVE but this one has found its destination empty.
LEMMA ActOnDisk ==
    ASSUME Apart, Locked, Kept, NEW j \in Jobs, Act(j), pc[j] = "checked", pc'[j] = "acting",
           Current(j) \in Paths, Current(j) \in Places, disk[Current(j)] # Absent,
           job[j].how = "MOVE" => Target[Current(j)] \in Places /\ disk[Target[Current(j)]] = Absent,
           \A k \in Jobs \ {j} : job'[k] = job[k] /\ pc'[k] = pc[k]
    PROVE  Kept'
<1> DEFINE p == Current(j)
<1>1. disk \in [Places -> Paths \cup {Stranger, Absent}] /\ NothingLost
  BY DEF Kept
<1>2. job[j].how \in Takers
  BY DEF Apart, Sound
<1>3. /\ disk' = IF job[j].how = "MOVE" THEN [disk EXCEPT ![Target[p]] = disk[p], ![p] = Absent]
                  ELSE [disk EXCEPT ![p] = Absent]
      /\ bin' = IF job[j].how = "RECYCLE" THEN bin \cup {disk[p]} ELSE bin
      /\ erased' = IF job[j].how = "DELETE" THEN erased \cup {disk[p]} ELSE erased
  BY DEF Act
<1> HIDE DEF p
<1>4. p \in Places /\ disk[p] # Absent
  BY DEF p
<1>5. job[j].how = "MOVE" => Target[p] \in Places /\ disk[Target[p]] = Absent
  BY DEF p
<1>6. NothingLost'
  <2>1. CASE job[j].how = "MOVE"
    BY <1>1, <1>3, <1>4, <1>5, <2>1, LeavesOnce
  <2>2. CASE job[j].how # "MOVE"
    BY <1>1, <1>2, <1>3, <1>4, <2>2, LeavesOnce DEF Takers
  <2>3. QED
    BY <2>1, <2>2
<1>7. disk' \in [Places -> Paths \cup {Stranger, Absent}]
  BY <1>1, <1>3, <1>4, <1>5
<1>8. ASSUME NEW k \in Jobs, pc'[k] = "checked", job'[k].how = "MOVE"
      PROVE  ~Exists(Target[Current(k)])'
  <2>1. k # j /\ pc[k] = "checked" /\ job[k].how = "MOVE" /\ job'[k] = job[k]
    BY <1>8
  <2>2. Current(k)' = Current(k)
    <3>1. \A n \in Jobs \ {j} : job'[n] = job[n]
      OBVIOUS
    <3>2. QED
      BY <2>1, <3>1, OthersPaths, SMTT(40)
  <2>3. ~Exists(Target[Current(k)])
    BY <2>1 DEF Kept
  <2>4. job[j].how # "MOVE"
    <3>1. k \in Approvals /\ Inside(k)
      BY <2>1 DEF Apart, Inside
    <3>2. ASSUME job[j].how = "MOVE" PROVE j \in Approvals /\ Inside(j)
      BY <3>2 DEF Apart, Inside
    <3>3. QED
      BY <2>1, <3>1, <3>2 DEF Locked, LockIsWorkedUnder
  <2>5. \A q \in Places : disk'[q] # Absent => disk[q] # Absent
    BY <1>1, <1>3, <1>4, <2>4
  <2>6. QED
    BY <2>2, <2>3, <2>5 DEF Exists
<1>9. QED
  BY <1>6, <1>7, <1>8 DEF Kept

LEMMA ActStep == ASSUME IInv, NEW j \in Jobs, Act(j) PROVE IInv'
<1> DEFINE p == Current(j)
           x == [HasResult(j, "done") EXCEPT !.took = @ \cup {p}]
<1>1. Apart /\ Table /\ Locked /\ Once /\ Kept
  BY DEF IInv
<1>2. /\ pc[j] = "checked" /\ Inside(j) /\ Exists(p) /\ Took(j, p)
      /\ UNCHANGED <<proposals, issued, execMu>>
  BY DEF Act, Inside, table
<1>3. /\ Sound(job[j], "checked") /\ job[j].how \in Takers /\ ~BatchOver(j)
      /\ job[j] \in Records
  BY <1>1, <1>2 DEF Apart, Sound, BatchOver, Due, Ahead
<1>4. p \in Paths /\ p \in Places /\ disk[p] # Absent
  BY <1>2, <1>3, PathAhead DEF Exists, Sound
<1>5. Sound(x, "acting") /\ x.took # {} /\ x.id = job[j].id /\ x.how = job[j].how
  BY <1>3, TookSound
<1>6. Moves(j, x, "acting")
  BY DEF Act, Took, Goto, Moves
<1>7. job[j].how = "MOVE" => Target[p] \in Places /\ disk[Target[p]] = Absent
  BY <1>1, <1>2, <1>4 DEF Kept, Exists
<1> HIDE DEF x, p
<1>8. /\ Apart' /\ job'[j] = x /\ pc'[j] = "acting"
      /\ \A k \in Jobs \ {j} : job'[k] = job[k] /\ pc'[k] = pc[k]
  <2>1. "acting" \in Labels /\ issued' = issued
    BY <1>2 DEF Labels
  <2>2. j \in Manual => x.how # "MOVE"
    BY <1>1, <1>5 DEF Apart
  <2>3. j \in Approvals => x.id \in 1 .. issued
    BY <1>1, <1>2, <1>5 DEF Apart
  <2>4. SoundMove(j, x, "acting")
    BY <1>1, <1>5, <1>6, <2>1, <2>2, <2>3 DEF SoundMove
  <2>5. Moved(j, x, "acting")
    BY <2>4, OneMoves
  <2>6. QED
    BY <2>5 DEF Moved
<1>9. \A k \in Approvals : Inside(k)' <=> Inside(k)
  BY <1>2, <1>8 DEF Inside
<1>10. j \in Approvals => \A k \in Approvals : Inside(k) => k = j
  BY <1>1, <1>2 DEF Locked, LockIsWorkedUnder
<1>11. CASE j \in Manual \/ job[j].took # {}
  <2>1. acted' = acted
    BY <1>2, <1>11 DEF Took
  <2>2. j \in Approvals => job[j].id \in Ids
    BY <1>1, <1>2 DEF Apart, Table
  <2>3. Locked'
    <3>1. LockIsWorkedUnder'
      <4>1. ASSUME NEW k \in Approvals PROVE Inside(k)' <=> execMu' = k
        BY <1>1, <1>2, <1>9 DEF Locked, LockIsWorkedUnder
      <4>2. QED
        BY <4>1 DEF LockIsWorkedUnder
    <3>2. ASSUME NEW k \in Approvals, Inside(k)'
          PROVE  /\ Stored(job[k].id)' => ~proposals'[job'[k].id].executed
                 /\ job'[k].took = {} => acted'[job'[k].id] = 0
      <4>1. Inside(k) /\ job'[k].id = job[k].id /\ (job'[k].took = {} => job[k].took = {})
        BY <1>5, <1>8, <1>9, <3>2
      <4>2. QED
        BY <1>1, <1>2, <2>1, <4>1 DEF Locked, Stored
    <3>3. QED
      BY <1>1, <1>2, <3>1, <3>2 DEF Locked
  <2>4. Once'
    <3>1. ASSUME NEW i \in Ids, acted[i] = 1, Stored(i), ~proposals[i].executed
          PROVE  \E k \in Approvals : Inside(k)' /\ job'[k].id = i /\ job'[k].took # {}
      <4>1. PICK k \in Approvals : Inside(k) /\ job[k].id = i /\ job[k].took # {}
        BY <1>1, <3>1 DEF Once
      <4>2. Inside(k)' /\ job'[k].id = i /\ job'[k].took # {}
        BY <1>5, <1>8, <1>9, <4>1
      <4>3. QED
        BY <4>2
    <3>2. QED
      BY <1>1, <1>2, <2>1, <3>1 DEF Once, Stored
  <2>5. QED
    BY <1>8, <2>1, <2>3, <2>4, ActOnDisk, <1>1, <1>2, <1>4, <1>7, SameTable DEF IInv, p
<1>12. CASE j \in Approvals /\ job[j].took = {}
  <2> DEFINE i == job[j].id
  <2>1. i \in Ids /\ i \in 1 .. issued
    BY <1>1, <1>2, <1>12 DEF Apart, Table
  <2>2. acted' = [acted EXCEPT ![i] = 1] /\ acted[i] = 0
    <3>1. acted' = [acted EXCEPT ![i] = acted[i] + 1]
      BY <1>2, <1>12 DEF Took
    <3>2. acted[i] = 0
      BY <1>1, <1>2, <1>12 DEF Locked
    <3>3. QED
      BY <3>1, <3>2
  <2>3. acted' \in [Ids -> Nat] /\ acted'[i] = 1 /\ \A k \in Ids \ {i} : acted'[k] = acted[k]
    BY <1>1, <2>1, <2>2 DEF Table
  <2>4. Table'
    BY <1>1, <1>2, <2>3 DEF Table, Stored
  <2>5. Locked'
    <3>1. LockIsWorkedUnder'
      <4>1. ASSUME NEW k \in Approvals PROVE Inside(k)' <=> execMu' = k
        BY <1>1, <1>2, <1>9 DEF Locked, LockIsWorkedUnder
      <4>2. QED
        BY <4>1 DEF LockIsWorkedUnder
    <3>2. Stored(job[j].id)' => ~proposals'[job'[j].id].executed
      <4>1. Stored(i) => ~proposals[i].executed
        BY <1>1, <1>2, <1>12 DEF Locked
      <4>2. proposals' = proposals /\ job'[j].id = i
        BY <1>2, <1>5, <1>8
      <4>3. QED
        BY <4>1, <4>2 DEF Stored
    <3>3. \A k \in Approvals : Inside(k)' => k = j
      BY <1>9, <1>10, <1>12
    <3>4. QED
      BY <1>1, <1>2, <1>5, <1>8, <3>1, <3>2, <3>3 DEF Locked, Stored
  <2>6. Once'
    <3>1. ASSUME NEW n \in Ids, acted'[n] = 1
          PROVE  /\ n <= issued'
                 /\ \/ ~Stored(n)' \/ proposals'[n].executed
                    \/ \E k \in Approvals : Inside(k)' /\ job'[k].id = n /\ job'[k].took # {}
      <4>1. CASE n = i
        <5>1. Inside(j)' /\ job'[j].id = n /\ job'[j].took # {}
          BY <1>2, <1>5, <1>8, <1>9, <1>12, <4>1
        <5>2. QED
          BY <1>2, <1>12, <2>1, <4>1, <5>1
      <4>2. CASE n # i
        <5>1. acted[n] = 1
          BY <2>3, <3>1, <4>2
        <5>2. ~\E k \in Approvals : Inside(k) /\ job[k].id = n /\ job[k].took # {}
          BY <1>10, <1>12, <4>2
        <5>3. n <= issued /\ (~Stored(n) \/ proposals[n].executed)
          BY <1>1, <5>1, <5>2 DEF Once
        <5>4. QED
          BY <1>2, <5>3 DEF Stored
      <4>3. QED
        BY <4>1, <4>2
    <3>2. \A n \in Ids : acted'[n] \in {0, 1}
      BY <1>1, <2>3 DEF Once
    <3>3. QED
      BY <3>1, <3>2 DEF Once
  <2>7. QED
    BY <1>8, <2>4, <2>5, <2>6, ActOnDisk, <1>1, <1>2, <1>4, <1>7 DEF IInv, p
<1>13. QED
  BY <1>11, <1>12

-----------------------------------------------------------------------------
(* The invariant, and what it gives. *)
LEMMA IInvStep == IInv /\ [Next]_vars => IInv'
<1> SUFFICES ASSUME IInv, [Next]_vars PROVE IInv'
  OBVIOUS
<1>1. CASE \E s \in Suggestions : Propose(s)
  BY <1>1, ProposeStep
<1>2. CASE \E i \in Ids : Expire(i)
  BY <1>2, BystanderStep DEF Expire, world
<1>3. CASE \E j \in Jobs : Person(j)
  BY <1>3, AskStep, ApproveStep DEF Person
<1>4. CASE \E j \in Jobs : Serve(j)
  <2>1. PICK j \in Jobs : Serve(j)
    BY <1>4
  <2>2. CASE j \in Approvals /\ Enter(j)
    BY <2>2, EnterStep
  <2>3. CASE MkdirFails(j) \/ Check(j) \/ ActFails(j) \/ Annotate(j)
    BY <2>3, MkdirFailsStep, CheckStep, ActFailsStep, AnnotateStep
  <2>4. CASE Act(j)
    BY <2>4, ActStep
  <2>5. CASE ForgetInTree(j) \/ ForgetInIndex(j)
    BY <2>5, ForgetStep
  <2>6. CASE Reply(j) \/ Record(j)
    BY <2>6, ReplyStep, RecordStep
  <2>7. QED
    BY <2>1, <2>2, <2>3, <2>4, <2>5, <2>6 DEF Serve
<1>5. CASE Scan
  BY <1>5, BystanderStep DEF Scan, ScanBegins, ScanFillsTree, ScanCollects, ScanRebuilds, world, table
<1>6. CASE \E q \in Places : Appears(q)
  BY <1>6, AppearsStep
<1>7. CASE UNCHANGED vars
  BY <1>7, BystanderStep DEF vars
<1>8. QED
  BY <1>1, <1>2, <1>3, <1>4, <1>5, <1>6, <1>7 DEF Next

LEMMA IInvInvariant == Spec => []IInv
<1>1. QED
  BY InitHolds, IInvStep, PTL DEF Spec

\* execMu is held exactly while an approval is at work (tools.go:960-961).
THEOREM LockIsWorkedUnderCorrect == Spec => []LockIsWorkedUnder
<1>1. IInv => LockIsWorkedUnder
  BY DEF IInv, Locked
<1>2. QED
  BY <1>1, IInvInvariant, PTL

\* No file is lost, doubled or written over, whatever is approved and deleted at
\* once, as long as no other program fills a destination (tools.go:1023-1040).
THEOREM NothingLostCorrect == Spec => []NothingLost
<1>1. IInv => NothingLost
  BY DEF IInv, Kept
<1>2. QED
  BY <1>1, IInvInvariant, PTL

\* A Proposta takes files off their places in one approval at most
\* (tools.go:983-985).
THEOREM ActedOnceCorrect == Spec => []ActedOnce
<1>1. IInv => ActedOnce
  BY DEF IInv, Once, ActedOnce
<1>2. QED
  BY <1>1, IInvInvariant, PTL

\* A Proposta that took something and is in nobody's hands is executed
\* (tools.go:1109-1120).
THEOREM OutcomeIsRecordedCorrect == Spec => []OutcomeIsRecorded
<1>1. IInv => OutcomeIsRecorded
  BY DEF IInv, Once, OutcomeIsRecorded, Inside
<1>2. QED
  BY <1>1, IInvInvariant, PTL

\* The answers are about the right items (handlers_files.go:215-236).
THEOREM AnswersAreTrueCorrect == Spec => []AnswersAreTrue
<1>1. ASSUME IInv, NEW j \in Jobs, job[j].how \in Takers, NEW i \in DOMAIN Outcome(j)
      PROVE  job[j].files[i] \in job[j].took <=>
                (\E k \in DOMAIN Outcome(j) : job[j].files[k] = job[j].files[i] /\ Outcome(j)[k] = "done")
  <2> DEFINE r == job[j]
  <2>1. r \in Records /\ DOMAIN r.plan \subseteq DOMAIN r.files /\ Matches(r)
    BY <1>1 DEF IInv, Apart, Sound
  <2>2. DOMAIN Outcome(j) = DOMAIN r.plan /\ r.files[i] \in Paths
    BY <2>1 DEF Outcome, Answer, Records, Lists
  <2>3. \A k \in DOMAIN r.plan : Outcome(j)[k] = "done" <=> Did(r, k)
    BY DEF Outcome, Answer, Did
  <2>4. QED
    BY <2>1, <2>2, <2>3 DEF Matches
<1>2. IInv => AnswersAreTrue
  BY <1>1 DEF AnswersAreTrue, Takers
<1>3. QED
  BY <1>2, IInvInvariant, PTL

\* A Proposta that was executed never becomes pending again (tools.go:1122-1133).
THEOREM ExecutedStaysCorrect == Spec => ExecutedStays
<1> DEFINE Stays == \A i \in Ids : (Stored(i) /\ proposals[i].executed) =>
                       (proposals'[i] = Absent \/ proposals'[i].executed)
<1>1. ASSUME IInv, [Next]_vars PROVE Stays
  <2> SUFFICES ASSUME NEW i \in Ids, Stored(i), proposals[i].executed
               PROVE  proposals'[i] = Absent \/ proposals'[i].executed
    OBVIOUS
  <2>1. Table /\ Locked
    BY <1>1 DEF IInv
  <2>2. Purged[i] \in {proposals[i], Absent} /\ Purged \in [Ids -> Propostas \cup {Absent}]
    BY <2>1, PurgedIsThinner
  <2>3. CASE \E s \in Suggestions : Propose(s)
    <3>1. PICK s \in Suggestions : Propose(s)
      BY <2>3
    <3>2. i # issued + 1
      BY <2>1 DEF Table
    <3>3. proposals'[i] = Purged[i]
      BY <2>1, <2>2, <3>1, <3>2 DEF Propose
    <3>4. QED
      BY <2>2, <3>3
  <2>4. CASE \E j \in Jobs : Enter(j)
    BY <2>2, <2>4 DEF Enter
  <2>5. CASE \E j \in Jobs : Record(j)
    <3>1. PICK j \in Jobs : Record(j)
      BY <2>5
    <3>2. j \in Approvals /\ Inside(j)
      BY <3>1 DEF Record, Over, Inside
    <3>3. i # job[j].id
      BY <2>1, <3>2 DEF Locked
    <3>4. proposals'[i] = proposals[i]
      BY <2>1, <3>1, <3>3 DEF Record, Table
    <3>5. QED
      BY <3>4
  <2>6. CASE UNCHANGED proposals
    BY <2>6
  <2>7. QED
    BY <1>1, <2>3, <2>4, <2>5, <2>6
       DEF Next, Person, Serve, Scan, Expire, Ask, Approve, MkdirFails, Check, Act, ActFails, Annotate,
           ForgetInTree, ForgetInIndex, Reply, ScanBegins, ScanFillsTree, ScanCollects, ScanRebuilds,
           Appears, table, vars
<1>2. IInv /\ [Next]_vars => [Stays]_vars
  BY <1>1
<1>3. QED
  BY <1>2, IInvInvariant, PTL DEF Spec, ExecutedStays
-----------------------------------------------------------------------------
(* What is shown of the files: the second part of the invariant rests on the *)
(* first.                                                                    *)
\* What a request has still to forget, and what it has dropped from the tree.
Disposing == {"RECYCLE", "DELETE"}
Rest(r)   == { i \in DOMAIN r.plan : r.how \in Disposing /\ Did(r, i) } \ r.forgot
Past(r, at) == r.forgot \cup (IF at = "forgetting" THEN { i \in Rest(r) : \A k \in Rest(r) : i <= k } ELSE {})

\* A request forgets after its batch, and all of it before it is answered.
Orderly(r, at) ==
    /\ r.forgot \subseteq DOMAIN r.files
    /\ at \in {"idle", "waiting"} => r.how = "none"
    /\ (r.forgot # {} \/ at = "forgetting") => (r.how \in Disposing /\ Ahead(r) = {})
    /\ (at = "answered" /\ r.how \in Disposing) => Rest(r) = {}

\* What a request has dropped is out, or is there again, or was put back.
Cleared(S, j, p) ==
    \/ p \notin S \/ Exists(p) \/ p \in ghosts
    \/ \E k \in Jobs \ {j} : p \in job[k].took

Forgotten ==
    /\ \A j \in Jobs : Orderly(job[j], pc[j])
    /\ \A j \in Jobs : \A i \in Past(job[j], pc[j]) : Cleared(tree, j, job[j].files[i])
    /\ \A j \in Jobs : \A i \in job[j].forgot : Cleared(index, j, job[j].files[i])

\* The tree, the index and the scan know the places, the Lixeira the files.
Views ==
    /\ bin \subseteq Paths \cup {Stranger} /\ erased \subseteq Paths \cup {Stranger}
    /\ scope \in Scopes /\ tree \subseteq Places /\ index \subseteq Places /\ ghosts \subseteq Places
    /\ scan \in [at : {"off", "listed", "filled", "collected", "over"}, files : SUBSET Places]
    /\ expired \subseteq Ids

\* The numbers of a Proposta add up to no more than its items, and say whether
\* it is executed; the approval at work has its items.
Adds(p) ==
    /\ p.executed = (p.good > 0)
    /\ p.good + p.refused + p.failed <= Cardinality(DOMAIN p.files)

Tallies ==
    /\ \A i \in Ids : Stored(i) => Adds(proposals[i])
    /\ \A j \in Approvals : Inside(j) /\ Stored(job[j].id) => job[j].files = proposals[job[j].id].files

LEMMA ViewsStep == IInv /\ Views /\ [Next]_vars => Views'
<1> SUFFICES ASSUME IInv, Views, [Next]_vars PROVE Views'
  OBVIOUS
<1>a. scan.files \in SUBSET Places /\ scan.at \in {"off", "listed", "filled", "collected", "over"}
  BY DEF Views
<1>1. ASSUME NEW j \in Jobs, Act(j) PROVE Views'
  <2>1. UNCHANGED <<scope, tree, index, scan, expired, ghosts>>
    BY <1>1 DEF Act, views, table
  <2>2. Exists(Current(j)) /\ disk \in [Places -> Paths \cup {Stranger, Absent}]
    BY <1>1 DEF Act, IInv, Kept
  <2>3. disk[Current(j)] \in Paths \cup {Stranger}
    BY <2>2 DEF Exists
  <2>4. bin' \subseteq Paths \cup {Stranger} /\ erased' \subseteq Paths \cup {Stranger}
    BY <1>1, <2>3 DEF Act, Views
  <2> QED
    BY <2>1, <2>4 DEF Views
<1>2. ASSUME NEW j \in Jobs, ForgetInTree(j) \/ ForgetInIndex(j) PROVE Views'
  <2>1. UNCHANGED <<bin, erased, scope, scan, expired, ghosts>> /\ tree' \subseteq tree /\ index' \subseteq index
    BY <1>2 DEF ForgetInTree, ForgetInIndex, world, table
  <2> QED
    BY <2>1 DEF Views
<1>3. ASSUME NEW i \in Ids, Expire(i) PROVE Views'
  BY <1>3 DEF Expire, Views, world, views
<1>4. ASSUME NEW roots \in Scopes, ScanBegins(roots) PROVE Views'
  <2>1. { p \in roots : Exists(p) } \in SUBSET Places
    BY DEF Exists
  <2> QED
    BY <1>4, <2>1 DEF ScanBegins, Views, world, table
<1>5. CASE ScanFillsTree
  <2>1. Gone(scan.files) \subseteq Places
    BY <1>a DEF Gone
  <2> QED
    BY <1>5, <1>a, <2>1 DEF ScanFillsTree, Views, world, table
<1>6. CASE ScanCollects
  BY <1>6 DEF ScanCollects, Views, world, views, table
<1>7. CASE ScanRebuilds
  <2>1. Gone(scan.files) \subseteq Places
    BY <1>a DEF Gone
  <2> QED
    BY <1>7, <1>a, <2>1 DEF ScanRebuilds, Views, world, table
<1>8. CASE UNCHANGED <<bin, erased, scope, tree, index, scan, expired, ghosts>>
  BY <1>8 DEF Views
<1>9. ASSUME NEW j \in Jobs, Person(j) \/ Serve(j)
      PROVE  \/ Act(j) \/ ForgetInTree(j) \/ ForgetInIndex(j)
             \/ UNCHANGED <<bin, erased, scope, tree, index, scan, expired, ghosts>>
  BY <1>9 DEF Person, Serve, Ask, Approve, Enter, MkdirFails, Check, ActFails, Annotate, Reply, Record,
              world, views, table
<1>10. (\E s \in Suggestions : Propose(s)) \/ (\E p \in Places : Appears(p)) \/ UNCHANGED vars
         => UNCHANGED <<bin, erased, scope, tree, index, scan, expired, ghosts>>
  BY DEF Propose, Appears, world, views, table, vars
<1> QED
  BY <1>1, <1>2, <1>3, <1>4, <1>5, <1>6, <1>7, <1>8, <1>9, <1>10 DEF Next, Scan

\* The results of one value, counted.
LEMMA Counts ==
    ASSUME NEW j \in Jobs, Sound(job[j], pc[j])
    PROVE  LET n(v) == Number(Outcome(j), v) IN
           /\ n("done") \in Nat /\ n("refused") \in Nat /\ n("failed") \in Nat
           /\ n("done") + n("refused") + n("failed") <= Cardinality(DOMAIN job[j].files)
<1> DEFINE D == DOMAIN Outcome(j)
           F == DOMAIN job[j].files
           S(v) == { i \in D : Outcome(j)[i] = v }
<1>1. D \subseteq F /\ IsFiniteSet(F)
  <2>1. job[j].files \in Lists /\ DOMAIN job[j].plan \subseteq F
    BY DEF Sound, Records
  <2>2. D = DOMAIN job[j].plan
    BY DEF Outcome, Answer
  <2> QED
    BY <2>1, <2>2, ListsOfPaths
<1> HIDE DEF D, F
<1>2. \A v : S(v) \in SUBSET F
  BY <1>1
<1>3. \A T \in SUBSET F : IsFiniteSet(T) /\ Cardinality(T) \in Nat /\ Cardinality(T) <= Cardinality(F)
  BY <1>1, FS_Subset, FS_CardinalityType
<1>4. \A A, B \in SUBSET F : A \cap B = {} =>
         A \cup B \in SUBSET F /\ Cardinality(A \cup B) = Cardinality(A) + Cardinality(B)
  <2> SUFFICES ASSUME NEW A \in SUBSET F, NEW B \in SUBSET F, A \cap B = {}
               PROVE  Cardinality(A \cup B) = Cardinality(A) + Cardinality(B)
    OBVIOUS
  <2>1. Cardinality(A \cup B) = Cardinality(A) + Cardinality(B) - Cardinality(A \cap B)
    BY <1>3, FS_Union
  <2>2. Cardinality(A \cap B) = 0
    BY FS_EmptySet
  <2>3. Cardinality(A) \in Nat /\ Cardinality(B) \in Nat
    BY <1>3
  <2> QED
    BY <2>1, <2>2, <2>3
<1>5. /\ S("done") \cap S("refused") = {}
      /\ (S("done") \cup S("refused")) \cap S("failed") = {}
  OBVIOUS
<1>6. \A v : Number(Outcome(j), v) = Cardinality(S(v))
  BY DEF Number, D
<1> HIDE DEF S
<1> DEFINE U == S("done") \cup S("refused")
           a == Cardinality(S("done"))
           b == Cardinality(S("refused"))
           c == Cardinality(S("failed"))
           u == Cardinality(U)
           w == Cardinality(U \cup S("failed"))
<1>7. U \in SUBSET F /\ u = a + b
  BY <1>2, <1>4, <1>5
<1>8. U \cup S("failed") \in SUBSET F /\ w = u + c
  <2> HIDE DEF u, c
  <2> QED
  BY <1>2, <1>4, <1>5, <1>7 DEF u, c
<1>9. a \in Nat /\ b \in Nat /\ c \in Nat /\ w <= Cardinality(F) /\ Cardinality(F) \in Nat
  BY <1>2, <1>3, <1>8
<1>10. Number(Outcome(j), "done") = a /\ Number(Outcome(j), "refused") = b /\ Number(Outcome(j), "failed") = c
  BY <1>6
<1> HIDE DEF a, b, c, u, w
<1>11. a + b + c <= Cardinality(F)
  BY <1>7, <1>8, <1>9
<1> QED
  BY <1>9, <1>10, <1>11 DEF F

LEMMA ThinnerTallies ==
    ASSUME Tallies, NEW t, t \in [Ids -> Propostas \cup {Absent}],
           \A i \in Ids : t[i] \in {proposals[i], Absent}
    PROVE  \A i \in Ids : t[i] # Absent => Adds(t[i]) /\ t[i] = proposals[i]
  BY DEF Tallies, Stored

\* A step that leaves the table, and the items of the approval at work.
LEMMA TalliesSame ==
    ASSUME IInv, Tallies, UNCHANGED proposals,
           \A j \in Approvals : Inside(j)' => /\ Inside(j) /\ job'[j].id = job[j].id
                                              /\ job'[j].files = job[j].files
    PROVE  Tallies'
<1>1. \A i \in Ids : Stored(i)' => Adds(proposals'[i])
  BY DEF Tallies, Stored
<1>2. \A j \in Approvals : Inside(j)' /\ Stored(job[j].id) => job'[j].files = proposals[job[j].id].files
  BY DEF Tallies
<1>3. ASSUME NEW j \in Approvals, Inside(j)', proposals'[job'[j].id] # Absent
      PROVE  job'[j].files = proposals'[job'[j].id].files
  <2>1. Stored(job[j].id)
    BY <1>3 DEF Stored
  <2> QED
    BY <1>2, <1>3, <2>1
<1>4. (\A j \in Approvals : Inside(j) /\ Stored(job[j].id) => job[j].files = proposals[job[j].id].files)'
  BY <1>3 DEF Stored
<1>5. (\A i \in Ids : Stored(i) => Adds(proposals[i]))'
  BY <1>1
<1> QED
  BY <1>4, <1>5 DEF Tallies

LEMMA FieldsKept ==
    ASSUME NEW r \in Records, NEW v, NEW S
    PROVE  /\ [r EXCEPT !.batch = v].id = r.id /\ [r EXCEPT !.batch = v].files = r.files
           /\ [r EXCEPT !.plan = v].id = r.id /\ [r EXCEPT !.plan = v].files = r.files
           /\ [r EXCEPT !.forgot = v].id = r.id /\ [r EXCEPT !.forgot = v].files = r.files
           /\ [[r EXCEPT !.batch = v] EXCEPT !.took = S].id = r.id
           /\ [[r EXCEPT !.batch = v] EXCEPT !.took = S].files = r.files
  BY DEF Records

LEMMA OneJobKept ==
    ASSUME job \in [Jobs -> Records], NEW j \in Jobs, NEW x, job' = [job EXCEPT ![j] = x],
           x.id = job[j].id, x.files = job[j].files
    PROVE  \A k \in Jobs : job'[k].id = job[k].id /\ job'[k].files = job[k].files
<1>1. \A k \in Jobs : job'[k] = IF k = j THEN x ELSE job[k]
  OBVIOUS
<1> QED
  BY <1>1

LEMMA WorkingKeeps ==
    ASSUME IInv, NEW j \in Jobs,
           \/ MkdirFails(j) \/ Check(j) \/ Act(j) \/ ActFails(j) \/ Annotate(j)
           \/ ForgetInTree(j) \/ ForgetInIndex(j)
    PROVE  \A k \in Jobs : /\ Inside(k)' <=> Inside(k)
                           /\ job'[k].id = job[k].id /\ job'[k].files = job[k].files
<1>a. job \in [Jobs -> Records] /\ pc \in [Jobs -> Labels] /\ job[j] \in Records
  BY DEF IInv, Apart
<1>1. \A k \in Jobs : job'[k].id = job[k].id /\ job'[k].files = job[k].files
  <2>1. CASE UNCHANGED job
    BY <2>1
  <2>2. CASE MkdirFails(j)
    <3> DEFINE x == [job[j] EXCEPT !.plan = <<>>]
    <3>1. job' = [job EXCEPT ![j] = x]
      BY <2>2 DEF MkdirFails
    <3>2. x.id = job[j].id /\ x.files = job[j].files
      BY <1>a, FieldsKept
    <3> HIDE DEF x
    <3> QED
      BY <1>a, <3>1, <3>2, OneJobKept
  <2>3. CASE Check(j) \/ ActFails(j) \/ Annotate(j)
    <3>1. UNCHANGED job \/ \E v : job' = [job EXCEPT ![j] = HasResult(j, v)]
      BY <2>3 DEF Check, ActFails, Annotate, Result
    <3>2. ASSUME NEW v, job' = [job EXCEPT ![j] = HasResult(j, v)]
          PROVE  \A k \in Jobs : job'[k].id = job[k].id /\ job'[k].files = job[k].files
      <4> DEFINE x == [job[j] EXCEPT !.batch = Append(job[j].batch, v)]
      <4>1. job' = [job EXCEPT ![j] = x]
        BY <3>2 DEF HasResult
      <4>2. x.id = job[j].id /\ x.files = job[j].files
        BY <1>a, FieldsKept
      <4> HIDE DEF x
      <4> QED
        BY <1>a, <4>1, <4>2, OneJobKept
    <3> QED
      BY <2>1, <3>1, <3>2
  <2>4. CASE Act(j)
    <3> DEFINE q == [job[j] EXCEPT !.batch = Append(job[j].batch, "done")]
               x == [q EXCEPT !.took = q.took \cup {Current(j)}]
    <3>1. job' = [job EXCEPT ![j] = x]
      BY <2>4 DEF Act, Took, HasResult
    <3>2. x.id = job[j].id /\ x.files = job[j].files
      BY <1>a, FieldsKept
    <3> HIDE DEF x
    <3> QED
      BY <1>a, <3>1, <3>2, OneJobKept
  <2>5. CASE ForgetInTree(j) \/ ForgetInIndex(j)
    <3>1. UNCHANGED job \/ \E S : job' = [job EXCEPT ![j] = [job[j] EXCEPT !.forgot = S]]
      BY <2>5 DEF ForgetInTree, ForgetInIndex
    <3>2. ASSUME NEW S, job' = [job EXCEPT ![j] = [job[j] EXCEPT !.forgot = S]]
          PROVE  \A k \in Jobs : job'[k].id = job[k].id /\ job'[k].files = job[k].files
      <4> DEFINE x == [job[j] EXCEPT !.forgot = S]
      <4>1. job' = [job EXCEPT ![j] = x]
        BY <3>2
      <4>2. x.id = job[j].id /\ x.files = job[j].files
        BY <1>a, FieldsKept
      <4> HIDE DEF x
      <4> QED
        BY <1>a, <4>1, <4>2, OneJobKept
    <3> QED
      BY <2>1, <3>1, <3>2
  <2> QED
    BY <2>2, <2>3, <2>4, <2>5
<1>3. /\ pc[j] \in {"acting", "checked", "forgetting"} /\ pc'[j] \in {"acting", "checked", "forgetting"}
      /\ \A k \in Jobs \ {j} : pc'[k] = pc[k]
  BY <1>a DEF MkdirFails, Check, Act, ActFails, Annotate, ForgetInTree, ForgetInIndex, Goto
<1> QED
  BY <1>1, <1>3 DEF Inside

LEMMA ProposeTallies == ASSUME IInv, Tallies, NEW s \in Suggestions, Propose(s) PROVE Tallies'
<1> DEFINE found == Found(s.files)
           new == [kind |-> s.kind, files |-> found, executed |-> FALSE,
                   good |-> 0, refused |-> 0, failed |-> 0]
<1>1. /\ issued < MaxProposals
      /\ proposals' = [Purged EXCEPT ![issued + 1] = new] /\ UNCHANGED <<pc, job>>
  BY DEF Propose
<1>2. Adds(new)
  <2>1. IsFiniteSet(DOMAIN found)
    BY ListsOfPaths, FoundIsList
  <2>2. Cardinality(DOMAIN found) \in Nat
    BY <2>1, FS_CardinalityType
  <2>3. new.executed = FALSE /\ new.good = 0 /\ new.refused = 0 /\ new.failed = 0 /\ new.files = found
    OBVIOUS
  <2> HIDE DEF new, found
  <2>4. 0 + 0 + 0 <= Cardinality(DOMAIN found) /\ FALSE = (0 > 0)
    BY <2>2
  <2>5. new.executed = (new.good > 0)
    BY <2>3, <2>4
  <2>6. new.good + new.refused + new.failed <= Cardinality(DOMAIN new.files)
    BY <2>3, <2>4
  <2> QED
    BY <2>5, <2>6 DEF Adds
<1> HIDE DEF new, found
<1>3. /\ Purged \in [Ids -> Propostas \cup {Absent}] /\ \A i \in Ids : Purged[i] \in {proposals[i], Absent}
      /\ issued \in 0 .. MaxProposals /\ issued + 1 \in Ids
  BY <1>1, PurgedIsThinner DEF IInv, Table
<1>4. \A i \in Ids : proposals'[i] = IF i = issued + 1 THEN new ELSE Purged[i]
  BY <1>1, <1>3
<1>5. \A i \in Ids : Purged[i] # Absent => Adds(Purged[i]) /\ Purged[i] = proposals[i]
  BY <1>3, ThinnerTallies
<1>6. \A i \in Ids : proposals'[i] # Absent => Adds(proposals'[i])
  BY <1>2, <1>4, <1>5
<1>7. ASSUME NEW j \in Approvals, Inside(j), proposals'[job[j].id] # Absent
      PROVE  job[j].files = proposals'[job[j].id].files
  <2>1. job[j].id \in 1 .. issued
    BY <1>7 DEF IInv, Apart, Inside
  <2>2. job[j].id \in Ids /\ job[j].id # issued + 1
    BY <1>3, <2>1
  <2>3. proposals'[job[j].id] = proposals[job[j].id] /\ Stored(job[j].id)
    BY <1>4, <1>5, <1>7, <2>2 DEF Stored
  <2> QED
    BY <1>7, <2>3 DEF Tallies
<1>8. (\A j \in Approvals : Inside(j) /\ Stored(job[j].id) => job[j].files = proposals[job[j].id].files)'
  BY <1>1, <1>7 DEF Stored, Inside
<1>9. (\A i \in Ids : Stored(i) => Adds(proposals[i]))'
  BY <1>6 DEF Stored
<1> QED
  BY <1>8, <1>9 DEF Tallies

LEMMA EnterTallies == ASSUME IInv, Tallies, NEW j \in Approvals, Enter(j) PROVE Tallies'
<1> DEFINE p == Purged[job[j].id]
<1>a. /\ job \in [Jobs -> Records] /\ pc \in [Jobs -> Labels] /\ job[j] \in Records /\ j \in Jobs
      /\ job[j].id \in 1 .. issued /\ job[j].id \in Ids /\ pc[j] = "waiting"
  BY DEF IInv, Apart, Table, Enter
<1>1. /\ Purged \in [Ids -> Propostas \cup {Absent}] /\ \A i \in Ids : Purged[i] \in {proposals[i], Absent}
      /\ proposals' = Purged
  BY PurgedIsThinner DEF IInv, Enter
<1>2. \A i \in Ids : Purged[i] # Absent => Adds(Purged[i]) /\ Purged[i] = proposals[i]
  BY <1>1, ThinnerTallies
<1>3. \A k \in Jobs \ {j} : job'[k] = job[k] /\ pc'[k] = pc[k]
  BY <1>a DEF Enter, Goto
<1>4. \/ pc'[j] = "answered"
      \/ job'[j].id = job[j].id /\ job'[j].files = p.files
  <2>1. CASE p = Absent \/ p.executed
    BY <1>a, <2>1 DEF Enter, Goto
  <2>2. CASE ~(p = Absent \/ p.executed)
    <3>1. PICK plan : job' = [job EXCEPT ![j] = [job[j] EXCEPT !.how = p.kind, !.files = p.files, !.plan = plan]]
      BY <2>2, ZenonT(40) DEF Enter
    <3>2. job'[j] = [job[j] EXCEPT !.how = p.kind, !.files = p.files, !.plan = plan]
      BY <1>a, <3>1
    <3> QED
      BY <1>a, <3>2 DEF Records
  <2> QED
    BY <2>1, <2>2
<1>5. ASSUME NEW k \in Approvals, Inside(k)', proposals'[job'[k].id] # Absent
      PROVE  job'[k].files = proposals'[job'[k].id].files
  <2>1. CASE k = j
    BY <1>1, <1>4, <1>5, <2>1 DEF Inside
  <2>2. CASE k # j
    <3>1. Inside(k) /\ job'[k] = job[k] /\ job[k].id \in 1 .. issued
      BY <1>3, <1>5, <2>2 DEF Inside, IInv, Apart
    <3>2. job[k].id \in Ids
      BY <3>1 DEF IInv, Table
    <3>3. proposals'[job[k].id] = proposals[job[k].id] /\ Stored(job[k].id)
      BY <1>1, <1>2, <1>5, <3>1, <3>2 DEF Stored
    <3> QED
      BY <3>1, <3>3 DEF Tallies
  <2> QED
    BY <2>1, <2>2
<1>6. (\A k \in Approvals : Inside(k) /\ Stored(job[k].id) => job[k].files = proposals[job[k].id].files)'
  BY <1>5 DEF Stored
<1>7. (\A i \in Ids : Stored(i) => Adds(proposals[i]))'
  BY <1>1, <1>2 DEF Stored
<1> QED
  BY <1>6, <1>7 DEF Tallies

LEMMA RecordTallies == ASSUME IInv, Tallies, NEW j \in Jobs, Record(j) PROVE Tallies'
<1> DEFINE i == job[j].id
           good == Number(Outcome(j), "done")
           refused == Number(Outcome(j), "refused")
           failed == Number(Outcome(j), "failed")
           new == [proposals[i] EXCEPT !.good = good, !.refused = refused, !.failed = failed,
                                       !.executed = good > 0]
<1>1. /\ j \in Approvals /\ pc[j] = "acting" /\ Inside(j) /\ UNCHANGED job
      /\ pc \in [Jobs -> Labels] /\ pc' = [pc EXCEPT ![j] = "answered"]
      /\ proposals \in [Ids -> Propostas \cup {Absent}]
  BY DEF Record, Over, Goto, Inside, IInv, Apart, Table
<1>2. i \in Ids /\ Sound(job[j], pc[j])
  BY <1>1 DEF IInv, Apart, Table
<1>3. good \in Nat /\ refused \in Nat /\ failed \in Nat
      /\ good + refused + failed <= Cardinality(DOMAIN job[j].files)
  BY <1>2, Counts
<1>4. proposals' = IF Stored(i) THEN [proposals EXCEPT ![i] = new] ELSE proposals
  BY DEF Record
<1> HIDE DEF good, refused, failed
<1>5. ASSUME Stored(i) PROVE Adds(new)
  <2>1. proposals[i] \in Propostas /\ proposals[i].files = job[j].files
    BY <1>1, <1>2, <1>5 DEF Stored, Tallies
  <2>2. /\ new.good = good /\ new.refused = refused /\ new.failed = failed /\ new.executed = (good > 0)
        /\ new.files = job[j].files
    BY <2>1 DEF Propostas
  <2> HIDE DEF new
  <2> QED
    BY <1>3, <2>2 DEF Adds
<1> HIDE DEF new
<1>6. \A k \in Ids : proposals'[k] = proposals[k] \/ Adds(proposals'[k])
  BY <1>1, <1>2, <1>4, <1>5
<1>7. (\A k \in Ids : Stored(k) => Adds(proposals[k]))'
  BY <1>6 DEF Stored, Tallies
<1>8. \A k \in Approvals : ~Inside(k)'
  BY <1>1 DEF IInv, Locked, LockIsWorkedUnder, Inside
<1> QED
  BY <1>7, <1>8 DEF Tallies

LEMMA TalliesStep == IInv /\ Tallies /\ [Next]_vars => Tallies'
<1> SUFFICES ASSUME IInv, Tallies, [Next]_vars PROVE Tallies'
  OBVIOUS
<1>a. job \in [Jobs -> Records] /\ pc \in [Jobs -> Labels]
  BY DEF IInv, Apart
<1>1. ASSUME NEW j \in Jobs, MkdirFails(j) \/ Check(j) \/ Act(j) \/ ActFails(j) \/ Annotate(j)
                             \/ ForgetInTree(j) \/ ForgetInIndex(j)
      PROVE  Tallies'
  <2>1. UNCHANGED proposals
    BY <1>1 DEF MkdirFails, Check, Act, ActFails, Annotate, ForgetInTree, ForgetInIndex, table
  <2> QED
    BY <1>1, <2>1, WorkingKeeps, TalliesSame DEF Inside
<1>2. ASSUME NEW j \in Jobs, (j \in Manual /\ \E r \in Requests : Ask(j, r)) \/ Reply(j)
      PROVE  Tallies'
  <2>1. j \in Manual /\ UNCHANGED proposals
    BY <1>2 DEF Ask, Reply, table
  <2>2. \A k \in Jobs \ {j} : job'[k] = job[k] /\ pc'[k] = pc[k]
    BY <1>a, <1>2 DEF Ask, Reply, Goto
  <2>3. \A k \in Approvals : k # j
    BY <2>1
  <2> QED
    BY <2>1, <2>2, <2>3, TalliesSame DEF Inside
<1>3. ASSUME NEW j \in Approvals, NEW i \in Ids, Approve(j, i)
      PROVE  Tallies'
  <2>1. UNCHANGED proposals /\ pc'[j] = "waiting" /\ \A k \in Jobs \ {j} : job'[k] = job[k] /\ pc'[k] = pc[k]
    BY <1>a, <1>3 DEF Approve, Goto, table
  <2> QED
    BY <2>1, TalliesSame DEF Inside
<1>4. CASE (\E i \in Ids : Expire(i)) \/ Scan \/ (\E p \in Places : Appears(p)) \/ UNCHANGED vars
  <2>1. UNCHANGED <<proposals, job, pc>>
    BY <1>4 DEF Expire, Scan, ScanBegins, ScanFillsTree, ScanCollects, ScanRebuilds, Appears, table, vars
  <2> QED
    BY <2>1, TalliesSame DEF Inside
<1> QED
  BY <1>1, <1>2, <1>3, <1>4, ProposeTallies, EnterTallies, RecordTallies DEF Next, Person, Serve

LEMMA DueIsAhead == ASSUME NEW j \in Jobs PROVE BatchOver(j) <=> Ahead(job[j]) = {}
  BY DEF BatchOver, Due, Ahead

LEMMA ToForgetIsRest == ASSUME NEW j \in Jobs PROVE ToForget(j) = Rest(job[j])
<1>1. DOMAIN Outcome(j) = DOMAIN job[j].plan
  BY DEF Outcome, Answer
<1>2. \A k \in DOMAIN job[j].plan : Outcome(j)[k] = "done" <=> Did(job[j], k)
  BY DEF Outcome, Answer, Did
<1> QED
  BY <1>1, <1>2 DEF ToForget, Rest, Disposes, Disposing

\* What was cleared stays so while it is put back by nobody but a scan.
LEMMA StaysCleared ==
    ASSUME NEW j \in Jobs, NEW p, NEW S, NEW T, Cleared(S, j, p),
           p \in T => p \in S \/ Exists(p)' \/ p \in ghosts',
           ghosts \subseteq ghosts',
           Exists(p) => Exists(p)' \/ \E k \in Jobs \ {j} : p \in job'[k].took,
           \A k \in Jobs : job[k].took \subseteq job'[k].took
    PROVE  \/ p \notin T \/ Exists(p)' \/ p \in ghosts'
           \/ \E k \in Jobs \ {j} : p \in job'[k].took
  BY DEF Cleared

LEMMA BesideForgotten ==
    ASSUME Forgotten, UNCHANGED <<job, pc>>, ghosts \subseteq ghosts',
           \A p : Exists(p) => Exists(p)',
           \A p \in tree' : p \in tree \/ Exists(p)' \/ p \in ghosts',
           \A p \in index' : p \in index \/ Exists(p)' \/ p \in ghosts'
    PROVE  Forgotten'
<1>1. \A j \in Jobs : Orderly(job'[j], pc'[j])
  BY DEF Forgotten
<1>2. ASSUME NEW j \in Jobs, NEW i \in Past(job'[j], pc'[j])
      PROVE  Cleared(tree, j, job[j].files[i])'
  <2>1. Cleared(tree, j, job[j].files[i])
    BY <1>2 DEF Forgotten
  <2> QED
    BY <2>1, StaysCleared DEF Cleared
<1>3. ASSUME NEW j \in Jobs, NEW i \in job'[j].forgot
      PROVE  Cleared(index, j, job[j].files[i])'
  <2>1. Cleared(index, j, job[j].files[i])
    BY <1>3 DEF Forgotten
  <2> QED
    BY <2>1, StaysCleared DEF Cleared
<1> QED
  BY <1>1, <1>2, <1>3 DEF Forgotten

\* One request moves, and what the others have dropped is as clear as before.
Forgets(j) ==
    /\ \A k \in Jobs \ {j} : job'[k] = job[k] /\ pc'[k] = pc[k]
    /\ job[j].took \subseteq job'[j].took
    /\ UNCHANGED ghosts /\ tree' \subseteq tree /\ index' \subseteq index
    /\ \A p : Exists(p) => Exists(p)' \/ p \in job'[j].took

LEMMA ActorForgets ==
    ASSUME Forgotten, NEW j \in Jobs, Forgets(j), Orderly(job'[j], pc'[j]),
           \A i \in Past(job'[j], pc'[j]) : Cleared(tree, j, job[j].files[i])',
           \A i \in job'[j].forgot : Cleared(index, j, job[j].files[i])'
    PROVE  Forgotten'
<1>1. \A k \in Jobs : Orderly(job'[k], pc'[k])
  BY DEF Forgotten, Forgets
<1>0. \A k \in Jobs : job[k].took \subseteq job'[k].took
  BY DEF Forgets
<1>2. ASSUME NEW k \in Jobs, NEW i \in Past(job'[k], pc'[k])
      PROVE  Cleared(tree, k, job[k].files[i])'
  <2>1. CASE k = j
    BY <1>2, <2>1
  <2>2. CASE k # j
    <3>1. Cleared(tree, k, job[k].files[i]) /\ job'[k] = job[k]
      BY <1>2, <2>2 DEF Forgotten, Forgets
    <3> QED
      BY <1>0, <2>2, <3>1, StaysCleared DEF Cleared, Forgets
  <2> QED
    BY <2>1, <2>2
<1>3. ASSUME NEW k \in Jobs, NEW i \in job'[k].forgot
      PROVE  Cleared(index, k, job[k].files[i])'
  <2>1. CASE k = j
    BY <1>3, <2>1
  <2>2. CASE k # j
    <3>1. Cleared(index, k, job[k].files[i]) /\ job'[k] = job[k]
      BY <1>3, <2>2 DEF Forgotten, Forgets
    <3> QED
      BY <1>0, <2>2, <3>1, StaysCleared DEF Cleared, Forgets
  <2> QED
    BY <2>1, <2>2
<1> QED
  BY <1>1, <1>2, <1>3 DEF Forgotten

\* A request that has forgotten nothing yet.
LEMMA NothingYet ==
    ASSUME Forgotten, NEW j \in Jobs, Forgets(j),
           job'[j].forgot = {}, pc'[j] # "forgetting",
           pc'[j] \in {"idle", "waiting"} => job'[j].how = "none",
           (pc'[j] = "answered" /\ job'[j].how \in Disposing) => Rest(job'[j]) = {}
    PROVE  Forgotten'
<1>1. Orderly(job'[j], pc'[j])
  BY DEF Orderly
<1>2. Past(job'[j], pc'[j]) = {}
  BY DEF Past
<1> QED
  BY <1>1, <1>2, ActorForgets

\* A request at its batch has forgotten nothing.
LEMMA AtWork ==
    ASSUME IInv, Forgotten, NEW j \in Jobs,
           \/ pc[j] \in {"idle", "waiting", "checked"}
           \/ pc[j] = "acting" /\ (~BatchOver(j) \/ job[j].how \notin Disposing)
    PROVE  job[j].forgot = {}
<1>1. Orderly(job[j], pc[j]) /\ Sound(job[j], pc[j])
  BY DEF Forgotten, IInv, Apart
<1>2. pc[j] \in {"idle", "waiting"} => job[j].how \notin Disposing
  BY <1>1 DEF Orderly, Disposing
<1>3. pc[j] = "checked" => Ahead(job[j]) # {}
  BY <1>1 DEF Sound
<1> QED
  BY <1>1, <1>2, <1>3, DueIsAhead DEF Orderly

\* A result leaves what was forgotten.
LEMMA ForgotKept ==
    ASSUME NEW r \in Records, NEW v, NEW S
    PROVE  /\ [r EXCEPT !.batch = v].forgot = r.forgot /\ [r EXCEPT !.plan = v].forgot = r.forgot
           /\ [r EXCEPT !.batch = v].took = r.took /\ [r EXCEPT !.plan = v].took = r.took
           /\ [[r EXCEPT !.batch = v] EXCEPT !.took = S].forgot = r.forgot
           /\ [[r EXCEPT !.batch = v] EXCEPT !.took = S].took = S
  BY DEF Records

LEMMA WorkForgets ==
    ASSUME IInv, Forgotten, NEW j \in Jobs, MkdirFails(j) \/ Check(j) \/ ActFails(j) \/ Annotate(j)
    PROVE  Forgotten'
<1>a. job \in [Jobs -> Records] /\ pc \in [Jobs -> Labels] /\ job[j] \in Records
  BY DEF IInv, Apart
<1>1. job[j].forgot = {}
  BY AtWork DEF MkdirFails, Check, ActFails, Annotate, Disposing
<1>2. /\ UNCHANGED <<disk, ghosts, tree, index>> /\ pc'[j] \in {"acting", "checked"}
      /\ \A k \in Jobs \ {j} : job'[k] = job[k] /\ pc'[k] = pc[k]
  BY <1>a DEF MkdirFails, Check, ActFails, Annotate, Result, Goto, world, views
<1>3. job'[j].forgot = {} /\ job'[j].took = job[j].took
  <2>1. CASE MkdirFails(j)
    <3>1. job'[j] = [job[j] EXCEPT !.plan = <<>>]
      BY <1>a, <2>1 DEF MkdirFails
    <3> QED
      BY <1>a, <1>1, <3>1, ForgotKept
  <2>2. CASE UNCHANGED job
    BY <1>1, <2>2
  <2>3. ASSUME NEW v, Result(j, v)
        PROVE  job'[j].forgot = {} /\ job'[j].took = job[j].took
    <3>1. job'[j] = [job[j] EXCEPT !.batch = Append(job[j].batch, v)]
      BY <1>a, <2>3 DEF Result, HasResult
    <3> QED
      BY <1>a, <1>1, <3>1, ForgotKept
  <2> QED
    BY <2>1, <2>2, <2>3 DEF Check, ActFails, Annotate
<1>4. Forgets(j)
  BY <1>2, <1>3 DEF Forgets, Exists
<1> QED
  BY <1>2, <1>3, <1>4, NothingYet

LEMMA ActForgets == ASSUME IInv, Forgotten, NEW j \in Jobs, Act(j) PROVE Forgotten'
<1> DEFINE p == Current(j)
           x == [[job[j] EXCEPT !.batch = Append(job[j].batch, "done")] EXCEPT !.took = job[j].took \cup {p}]
<1>a. /\ job \in [Jobs -> Records] /\ pc \in [Jobs -> Labels] /\ job[j] \in Records
      /\ disk \in [Places -> Paths \cup {Stranger, Absent}]
  BY DEF IInv, Apart, Kept
<1>1. job[j].forgot = {}
  BY AtWork DEF Act
<1>2. /\ UNCHANGED <<ghosts, tree, index>> /\ pc'[j] = "acting" /\ disk[p] # Absent
      /\ disk' \in {[disk EXCEPT ![Target[p]] = disk[p], ![p] = Absent], [disk EXCEPT ![p] = Absent]}
      /\ \A k \in Jobs \ {j} : job'[k] = job[k] /\ pc'[k] = pc[k]
  BY <1>a DEF Act, Took, Goto, views, Exists
<1>3. job'[j] = x
  <2>1. job[j].took = [job[j] EXCEPT !.batch = Append(job[j].batch, "done")].took
    BY <1>a, ForgotKept
  <2> QED
    BY <1>a, <2>1 DEF Act, Took, HasResult
<1>4. x.forgot = {} /\ x.took = job[j].took \cup {p}
  BY <1>a, <1>1, ForgotKept
<1>5. \A q : Exists(q) => Exists(q)' \/ q = p
  <2>1. \A q \in Places : q # p => disk'[q] \in {disk[q], disk[p]}
    BY <1>a, <1>2
  <2> QED
    BY <1>2, <2>1 DEF Exists
<1> HIDE DEF x
<1>6. Forgets(j)
  BY <1>2, <1>3, <1>4, <1>5 DEF Forgets
<1> QED
  BY <1>2, <1>3, <1>4, <1>6, NothingYet

LEMMA BeginForgets ==
    ASSUME IInv, Forgotten, NEW j \in Jobs,
           (\E r \in Requests : Ask(j, r)) \/ (\E i \in Ids : Approve(j, i))
    PROVE  Forgotten'
<1>a. job \in [Jobs -> Records] /\ pc \in [Jobs -> Labels] /\ Sound(job[j], pc[j])
  BY DEF IInv, Apart
<1>1. /\ UNCHANGED <<disk, ghosts, tree, index>> /\ pc[j] = "idle" /\ pc'[j] \in {"acting", "waiting"}
      /\ \A k \in Jobs \ {j} : job'[k] = job[k] /\ pc'[k] = pc[k]
  BY <1>a DEF Ask, Approve, Goto, world, views
<1>2. job[j].took = {}
  BY <1>a, <1>1 DEF Sound
<1>3. job'[j].forgot = {} /\ (pc'[j] = "waiting" => job'[j].how = "none")
  <2>1. ASSUME NEW r \in Requests, Ask(j, r)
        PROVE  job'[j].forgot = {} /\ pc'[j] = "acting"
    <3>1. job'[j] = [NoJob EXCEPT !.how = r.how, !.files = r.files, !.plan = PlanOf(r.files, r.confirmed)]
      BY <1>a, <2>1 DEF Ask
    <3> QED
      BY <1>a, <2>1, <3>1 DEF NoJob, Ask, Goto
  <2>2. ASSUME NEW i \in Ids, Approve(j, i)
        PROVE  job'[j].forgot = {} /\ job'[j].how = "none"
    <3>1. job'[j] = [NoJob EXCEPT !.id = i]
      BY <1>a, <2>2 DEF Approve
    <3> QED
      BY <3>1 DEF NoJob
  <2> QED
    BY <2>1, <2>2
<1>4. Forgets(j)
  BY <1>1, <1>2 DEF Forgets, Exists
<1> QED
  BY <1>1, <1>3, <1>4, NothingYet

LEMMA EnterForgets == ASSUME IInv, Forgotten, NEW j \in Approvals, Enter(j) PROVE Forgotten'
<1> DEFINE p == Purged[job[j].id]
<1>a. job \in [Jobs -> Records] /\ pc \in [Jobs -> Labels] /\ job[j] \in Records /\ j \in Jobs
  BY DEF IInv, Apart
<1>1. /\ UNCHANGED <<disk, ghosts, tree, index>> /\ pc[j] = "waiting"
      /\ \A k \in Jobs \ {j} : job'[k] = job[k] /\ pc'[k] = pc[k]
  BY <1>a DEF Enter, Goto, world, views
<1>2. job[j].forgot = {} /\ job[j].how \notin Disposing
  BY <1>a, <1>1, AtWork DEF Forgotten, Orderly, Disposing
<1>3. /\ job'[j].forgot = {} /\ job'[j].took = job[j].took
      /\ pc'[j] = "acting" \/ (pc'[j] = "answered" /\ job'[j].how \notin Disposing)
  <2>1. CASE p = Absent \/ p.executed
    BY <1>a, <1>2, <2>1 DEF Enter, Goto
  <2>2. CASE ~(p = Absent \/ p.executed)
    <3>1. PICK plan : job' = [job EXCEPT ![j] = [job[j] EXCEPT !.how = p.kind, !.files = p.files, !.plan = plan]]
      BY <2>2, ZenonT(40) DEF Enter
    <3>2. job'[j] = [job[j] EXCEPT !.how = p.kind, !.files = p.files, !.plan = plan] /\ pc'[j] = "acting"
      BY <1>a, <2>2, <3>1 DEF Enter, Goto
    <3> QED
      BY <1>a, <1>2, <3>2 DEF Records
  <2> QED
    BY <2>1, <2>2
<1>4. Forgets(j)
  BY <1>a, <1>1, <1>3 DEF Forgets, Exists
<1> QED
  BY <1>a, <1>3, <1>4, NothingYet

LEMMA ForgetForgets ==
    ASSUME IInv, Forgotten, NEW j \in Jobs, ForgetInTree(j) \/ ForgetInIndex(j)
    PROVE  Forgotten'
<1> DEFINE r == job[j]
<1>a. /\ job \in [Jobs -> Records] /\ pc \in [Jobs -> Labels] /\ r \in Records
      /\ Orderly(r, pc[j]) /\ DOMAIN r.plan \subseteq DOMAIN r.files
  BY DEF IInv, Apart, Forgotten, Sound
<1>1. PICK i \in Rest(r) : \A k \in Rest(r) : i <= k
  BY ToForgetIsRest DEF ForgetInTree, ForgetInIndex, IsNext
<1>2. i \in DOMAIN r.files /\ r.how \in Disposing /\ i \in Nat
  BY <1>1, <1>a, ListsOfPaths DEF Rest, Records
<1>3. /\ Ahead(r) = {} /\ UNCHANGED <<disk, ghosts>>
      /\ \A k \in Jobs \ {j} : job'[k] = job[k] /\ pc'[k] = pc[k]
  BY <1>a, DueIsAhead DEF ForgetInTree, ForgetInIndex, Goto, world, Orderly
<1>4. \A k \in Rest(r) : (\A n \in Rest(r) : k <= n) => k = i
  <2>1. \A k \in Rest(r) : k \in Nat
    BY <1>a, ListsOfPaths DEF Rest, Records
  <2> QED
    BY <1>1, <1>2, <2>1
<1>5. CASE ForgetInTree(j)
  <2>1. UNCHANGED <<index, job>> /\ pc'[j] = "forgetting" /\ pc[j] = "acting"
    BY <1>a, <1>5 DEF ForgetInTree, Goto
  <2>2. tree' = tree \ {r.files[i]}
    <3>1. PICK k \in Rest(r) : (\A n \in Rest(r) : k <= n) /\ tree' = tree \ {r.files[k]}
      BY <1>5, ToForgetIsRest DEF ForgetInTree, IsNext
    <3> QED
      BY <1>4, <3>1
  <2>3. Forgets(j)
    BY <1>3, <2>1, <2>2 DEF Forgets, Exists
  <2>4. Orderly(job'[j], pc'[j])
    BY <1>a, <1>2, <1>3, <2>1 DEF Orderly
  <2>5. Past(job'[j], pc'[j]) = r.forgot \cup {i} /\ Past(r, pc[j]) = r.forgot
    BY <1>1, <1>4, <2>1 DEF Past
  <2>6. ASSUME NEW k \in r.forgot
        PROVE  Cleared(tree, j, r.files[k])' /\ Cleared(index, j, r.files[k])'
    <3>1. Cleared(tree, j, r.files[k]) /\ Cleared(index, j, r.files[k])
      BY <2>5, <2>6 DEF Forgotten
    <3> QED
      BY <1>3, <2>1, <2>2, <3>1 DEF Cleared, Exists
  <2>7. Cleared(tree, j, r.files[i])'
    BY <2>1, <2>2 DEF Cleared
  <2> QED
    BY <2>1, <2>3, <2>4, <2>5, <2>6, <2>7, ActorForgets
<1>6. CASE ForgetInIndex(j)
  <2>1. UNCHANGED tree /\ pc'[j] = "acting" /\ pc[j] = "forgetting"
    BY <1>a, <1>6 DEF ForgetInIndex, Goto
  <2>2. job'[j] = [r EXCEPT !.forgot = r.forgot \cup {i}] /\ index' = index \ {r.files[i]}
    <3>1. PICK k \in ToForget(j) : /\ IsNext(j, k) /\ index' = index \ {r.files[k]}
                                   /\ job' = [job EXCEPT ![j].forgot = @ \cup {k}]
      BY <1>6 DEF ForgetInIndex
    <3>2. k = i
      BY <1>4, <3>1, ToForgetIsRest DEF IsNext
    <3> QED
      BY <1>a, <3>1, <3>2
  <2>11. index' \subseteq index
    BY <2>2
  <2>3. /\ job'[j].forgot = r.forgot \cup {i} /\ job'[j].took = r.took /\ job'[j].files = r.files
        /\ job'[j].how = r.how /\ job'[j].plan = r.plan /\ job'[j].batch = r.batch
    BY <1>a, <2>2 DEF Records
  <2>4. Forgets(j)
    BY <1>3, <2>1, <2>2, <2>3 DEF Forgets, Exists
  <2>5. Orderly(job'[j], pc'[j])
    <3>1. Ahead(job'[j]) = Ahead(r)
      BY <2>3 DEF Ahead
    <3> QED
      BY <1>a, <1>2, <1>3, <2>1, <2>3, <3>1 DEF Orderly
  <2>6. Past(job'[j], pc'[j]) = r.forgot \cup {i} /\ Past(r, pc[j]) = r.forgot \cup {i}
    BY <1>1, <1>4, <2>1, <2>3 DEF Past
  <2>7. \A k \in Jobs : job'[k].took = job[k].took
    BY <1>3, <2>3
  <2>8. ASSUME NEW k \in r.forgot \cup {i}
        PROVE  Cleared(tree, j, r.files[k])'
    <3>1. Cleared(tree, j, r.files[k])
      BY <2>6, <2>8 DEF Forgotten
    <3> QED
      BY <1>3, <2>1, <2>3, <2>7, <3>1 DEF Cleared, Exists
  <2>9. ASSUME NEW k \in r.forgot
        PROVE  Cleared(index, j, r.files[k])'
    <3>1. Cleared(index, j, r.files[k])
      BY <2>9 DEF Forgotten
    <3> QED
      BY <1>3, <2>3, <2>7, <2>11, <3>1 DEF Cleared, Exists
  <2>10. Cleared(index, j, r.files[i])'
    BY <2>2, <2>3 DEF Cleared
  <2> QED
    BY <2>3, <2>4, <2>5, <2>6, <2>8, <2>9, <2>10, ActorForgets
<1> QED
  BY <1>5, <1>6

LEMMA AnswerForgets == ASSUME IInv, Forgotten, NEW j \in Jobs, Reply(j) \/ Record(j) PROVE Forgotten'
<1>a. pc \in [Jobs -> Labels] /\ Orderly(job[j], pc[j])
  BY DEF IInv, Apart, Forgotten
<1>1. /\ UNCHANGED <<disk, ghosts, tree, index, job>> /\ pc' = [pc EXCEPT ![j] = "answered"]
      /\ pc[j] = "acting" /\ Rest(job[j]) = {}
  BY ToForgetIsRest DEF Reply, Record, Over, Goto, world, views
<1>2. Forgets(j)
  BY <1>a, <1>1 DEF Forgets, Exists
<1>3. Orderly(job'[j], pc'[j])
  BY <1>a, <1>1 DEF Orderly
<1>4. Past(job'[j], pc'[j]) = Past(job[j], pc[j]) /\ Past(job[j], pc[j]) = job[j].forgot
  BY <1>a, <1>1 DEF Past
<1>5. ASSUME NEW i \in job[j].forgot
      PROVE  Cleared(tree, j, job[j].files[i])' /\ Cleared(index, j, job[j].files[i])'
  <2>1. Cleared(tree, j, job[j].files[i]) /\ Cleared(index, j, job[j].files[i])
    BY <1>4, <1>5 DEF Forgotten
  <2> QED
    BY <1>1, <2>1 DEF Cleared, Exists
<1> QED
  BY <1>1, <1>2, <1>3, <1>4, <1>5, ActorForgets

LEMMA ForgottenStep == IInv /\ Forgotten /\ [Next]_vars => Forgotten'
<1> SUFFICES ASSUME IInv, Forgotten, [Next]_vars PROVE Forgotten'
  OBVIOUS
<1>1. CASE (\E s \in Suggestions : Propose(s)) \/ (\E i \in Ids : Expire(i)) \/ UNCHANGED vars
  <2>1. UNCHANGED <<disk, tree, index, job, pc, ghosts>>
    BY <1>1 DEF Propose, Expire, world, views, vars
  <2> QED
    BY <2>1, BesideForgotten DEF Exists
<1>2. ASSUME NEW q \in Places, Appears(q)
      PROVE  Forgotten'
  <2>1. /\ UNCHANGED <<tree, index, job, pc, ghosts>> /\ disk' = [disk EXCEPT ![q] = Stranger]
        /\ disk \in [Places -> Paths \cup {Stranger, Absent}]
    BY <1>2 DEF Appears, views, IInv, Kept
  <2>2. \A p : Exists(p) => Exists(p)'
    BY <2>1 DEF Exists
  <2> QED
    BY <2>1, <2>2, BesideForgotten
<1>3. CASE Scan
  <2>1. /\ UNCHANGED <<disk, job, pc>> /\ ghosts \subseteq ghosts'
        /\ \A p : Exists(p) => Exists(p)'
    BY <1>3 DEF Scan, ScanBegins, ScanFillsTree, ScanCollects, ScanRebuilds, world, Exists
  <2>2. \A p \in tree' : p \in tree \/ Exists(p)' \/ p \in ghosts'
    BY <1>3 DEF Scan, ScanBegins, ScanFillsTree, ScanCollects, ScanRebuilds, world, views, Exists, Gone
  <2>3. \A p \in index' : p \in index \/ Exists(p)' \/ p \in ghosts'
    BY <1>3 DEF Scan, ScanBegins, ScanFillsTree, ScanCollects, ScanRebuilds, world, views, Exists, Gone
  <2> QED
    BY <2>1, <2>2, <2>3, BesideForgotten
<1> QED
  BY <1>1, <1>2, <1>3, WorkForgets, ActForgets, BeginForgets, EnterForgets, ForgetForgets, AnswerForgets
     DEF Next, Person, Serve

-----------------------------------------------------------------------------
All == IInv /\ Views /\ Tallies /\ Forgotten

LEMMA AllInit == Init => All
<1> SUFFICES ASSUME Init PROVE All
  OBVIOUS
<1>1. IInv
  BY InitHolds
<1>2. \A j \in Jobs : pc[j] = "idle" /\ job[j] = NoJob
  BY DEF Init
<1>3. Views
  <2>1. Paths \subseteq Places /\ scan = [at |-> "off", files |-> {}]
    BY DEF Init, Places, NoScan
  <2>2. scan \in [at : {"off", "listed", "filled", "collected", "over"}, files : SUBSET Places]
    BY <2>1
  <2> QED
    BY <2>1, <2>2 DEF Init, Views
<1>4. Tallies
  BY <1>2 DEF Init, Tallies, Stored, Inside
<1>5. Forgotten
  <2>1. NoJob.forgot = {} /\ NoJob.how = "none"
    BY DEF NoJob
  <2>2. Orderly(NoJob, "idle") /\ Past(NoJob, "idle") = {}
    BY <2>1 DEF Orderly, Past
  <2> QED
    BY <1>2, <2>1, <2>2 DEF Forgotten
<1> QED
  BY <1>1, <1>3, <1>4, <1>5 DEF All

LEMMA AllInvariant == Spec => []All
<1>1. All /\ [Next]_vars => All'
  BY IInvStep, ViewsStep, TalliesStep, ForgottenStep DEF All
<1> HIDE DEF All, Init, Next, vars
<1> QED
  BY <1>1, AllInit, PTL DEF Spec

\* The variables stay in their sets: the numbers of a Proposta add up to no more
\* than its items and say whether it is executed (tools.go:1109-1120).
THEOREM TypeCorrect == Spec => []TypeOK
<1>1. All => TypeOK
  <2> SUFFICES ASSUME All PROVE TypeOK
    OBVIOUS
  <2>1. /\ disk \in [Places -> Paths \cup {Stranger, Absent}]
        /\ issued \in 0 .. MaxProposals /\ execMu \in Approvals \cup {Nobody}
        /\ acted \in [Ids -> Nat] /\ Views
    BY DEF All, IInv, Kept, Table, Locked
  <2>2. ASSUME NEW i \in Ids, Stored(i)
        PROVE  /\ i <= issued /\ proposals[i].kind \in Kinds
               /\ proposals[i].executed = (proposals[i].good > 0)
               /\ proposals[i].good + proposals[i].refused + proposals[i].failed
                     <= Cardinality(DOMAIN proposals[i].files)
    BY <2>2 DEF All, IInv, Table, Tallies, Adds, Propostas, Stored
  <2>3. ASSUME NEW j \in Jobs
        PROVE  /\ pc[j] \in {"idle", "waiting", "acting", "checked", "forgetting", "answered"}
               /\ job[j].how \in Kinds \cup {"DELETE", "none"}
               /\ job[j].batch \in Seq(Verdicts) /\ job[j].forgot \subseteq DOMAIN job[j].files
    BY DEF All, IInv, Apart, Records, Labels, Forgotten, Orderly
  <2>4. scan.at \in {"off", "listed", "filled", "collected", "over"} /\ scan.files \subseteq Places
    BY <2>1 DEF Views
  <2> QED
    BY <2>1, <2>2, <2>3, <2>4 DEF TypeOK, Views
<1> HIDE DEF TypeOK, All
<1> QED
  BY <1>1, AllInvariant, PTL

\* What a recycling or a deletion answered as done is offered no more, but for
\* what is there again, was taken by another request too, or was put back by a
\* scan that had listed it (handlers_files.go:257-285).
THEOREM GoneIsForgottenCorrect == Spec => []GoneIsForgotten
<1>1. ASSUME All, NEW j \in Jobs, pc[j] = "answered", job[j].how \in Disposing, NEW p \in job[j].took
      PROVE  \/ p \notin tree \cup index \/ Exists(p) \/ p \in ghosts
             \/ \E k \in Jobs \ {j} : p \in job[k].took
  <2>1. job[j] \in Records /\ Sound(job[j], pc[j]) /\ Orderly(job[j], pc[j])
    BY <1>1 DEF All, IInv, Apart, Forgotten
  <2>2. Matches(job[j]) /\ p \in Paths
    BY <1>1, <2>1 DEF Sound, Records, Takers, Disposing
  <2>3. PICK i \in DOMAIN job[j].plan : job[j].files[i] = p /\ Did(job[j], i)
    BY <1>1, <2>2 DEF Matches
  <2>4. i \in job[j].forgot
    BY <1>1, <2>1, <2>3 DEF Orderly, Rest
  <2>5. Cleared(tree, j, p) /\ Cleared(index, j, p)
    BY <1>1, <2>3, <2>4 DEF All, Forgotten, Past
  <2> QED
    BY <2>5 DEF Cleared
<1>2. All => (\A j \in Jobs : (pc[j] = "answered" /\ job[j].how \in {"RECYCLE", "DELETE"}) =>
        \A p \in job[j].took :
            \/ p \notin tree \cup index \/ Exists(p) \/ p \in ghosts
            \/ \E k \in Jobs \ {j} : p \in job[k].took)
  BY <1>1 DEF Disposing
<1>3. GoneIsForgotten <=> TypeOK /\ (\A j \in Jobs :
        (pc[j] = "answered" /\ job[j].how \in {"RECYCLE", "DELETE"}) =>
        \A p \in job[j].took :
            \/ p \notin tree \cup index \/ Exists(p) \/ p \in ghosts
            \/ \E k \in Jobs \ {j} : p \in job[k].took)
  BY DEF GoneIsForgotten
<1> HIDE DEF GoneIsForgotten, TypeOK, All
<1> QED
  BY <1>2, <1>3, TypeCorrect, AllInvariant, PTL
=============================================================================
