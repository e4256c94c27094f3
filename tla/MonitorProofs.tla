--------------------------- MODULE MonitorProofs ---------------------------
(***************************************************************************)
(* Proofs about Monitor: for any files, workers, queue and number of       *)
(* events, while the watcher runs the tree is the disk in every file that  *)
(* nobody has still to look at (StaleIsAwaited), and the duplicate index   *)
(* is the tree (IndexFollowsTree), up to the exceptions these name.        *)
(*                                                                         *)
(* The argument is about the goroutines that hold a file: that looked at   *)
(* it on disk and have not done yet.  A look overtakes everybody else who  *)
(* holds the file, so that of those who hold it one at most is the latest  *)
(* (Ranked).  The tree has the file right, or somebody will still look, or *)
(* the latest has seen what is on disk and is about to write it            *)
(* (TreeFollows); the index has the hash the tree has, or the latest has   *)
(* written the tree and owes it to the index (IndexFollows).  What one who *)
(* was overtaken writes is an exception.                                   *)
(***************************************************************************)
EXTENDS Monitor, TLAPS

Actors == Workers \cup {"hand", "sweep"}

\* Who is past a look at the file, and who of them has still to write the tree.
Holds(m, f) ==
    \/ m \in Workers /\ work[m].path = f
                     /\ work[m].at \in {"put", "putBare", "upsert", "drop", "unindex"}
    \/ m = "hand" /\ \/ hand.at \in {"file", "index"} /\ hand.path = f
                     \/ hand.at \in {"folder", "detach"} /\ f \in Inside
    \/ m = "sweep" /\ \/ SweepAt("setRoot") /\ f \in Outside
                      \/ SweepAt("setDir") /\ f \in Inside
Writing(m, f) ==
    /\ Holds(m, f)
    /\ m \in Workers => work[m].at \in {"put", "putBare", "drop"}
    /\ m = "hand" => hand.at # "index"

\* What that one saw.
Seen(m, f) ==
    IF m \in Workers THEN work[m].got ELSE IF m = "hand" THEN 0 ELSE sweep.got[f]

\* Nobody has looked at the file since.
Latest(m, f) == <<m, f>> \notin passed

\* Who has written the tree and owes the index, and what.
Owes(m, f) ==
    /\ Holds(m, f)
    /\ \/ m \in Workers /\ work[m].at \in {"upsert", "unindex"}
       \/ m = "hand" /\ hand.at = "index"
Owed(m) == IF m \in Workers THEN work[m].got ELSE 0

\* The hash the tree has of a file.
Hash(f) == IF f \in hashed THEN tree[f] ELSE 0

\* Every actor is at a place of its own, with the path that goes with it.
WorkerFits(job) ==
    /\ job.at \in {"rest", "gone", "look", "put", "putBare", "upsert", "drop", "unindex"}
    /\ job.at \notin {"rest", "gone"} => job.path \in Files
    /\ job.at \in {"drop", "unindex"} => job.got = 0
HandFits(job) ==
    /\ job.at \in {"rest", "gone", "push", "file", "index", "folder", "detach"}
    /\ job.at \in {"push", "file", "index"} => job.path \in Files
Placed == HandFits(hand) /\ \A k \in Workers : WorkerFits(work[k])

\* A directory that is not there has no files, on disk or in the tree.
Emptied ==
    /\ ~dirOn => \A f \in Inside : disk[f] = 0
    /\ ~dirIn => \A f \in Inside : tree[f] = 0

\* What is marked as queued is in the queue, or about to be.
In(f, q) == \E i \in 1..Len(q) : q[i] = f
InQueue(f) == In(f, queue)
Marked == \A f \in queued : (HandAt("push") /\ hand.path = f) \/ InQueue(f)

\* Only who holds a file can have been overtaken at it, and of those who hold it
\* one at most has not been.
Ranked == \A f \in Files :
    /\ \A m \in Actors : Latest(m, f) \/ Holds(m, f)
    /\ \A m, n \in Actors :
          Holds(m, f) /\ Holds(n, f) /\ Latest(m, f) /\ Latest(n, f) => m = n

\* The tree has a file right, or the latest to look has it right and will write it.
Right(f) ==
    /\ \A m \in Actors : Writing(m, f) /\ Latest(m, f) => Seen(m, f) = disk[f]
    /\ (\A m \in Actors : Writing(m, f) => ~Latest(m, f)) => tree[f] = disk[f]

Foreseen(f) ==
    \/ Awaited(f)
    \/ f \in Inside /\ Awaited(Dir) /\ ~dirOn

TreeFollows == Watched => \A f \in Files \ excused : Foreseen(f) \/ Right(f)

\* The index has the hash of the tree, or the latest to look owes it.  Between
\* the two steps of the removal of a directory the index comes first.
Detached(f) == HandAt("detach") /\ f \in Inside
Matched(f) ==
    /\ \A m \in Actors : Owes(m, f) /\ Latest(m, f) => Owed(m) = Hash(f)
    /\ (\A m \in Actors : ~Owes(m, f)) =>
          /\ SweepAt("rest") /\ ~Detached(f) => index[f] = Hash(f)
          /\ SweepAt("rebuild") => sweep.got[f] = Hash(f)
    /\ Detached(f) =>
          /\ SweepAt("rest") /\ Latest("hand", f) => index[f] = 0
          /\ ~SweepAt("rebuild")
IndexFollows == \A f \in Files \ skewed : Matched(f)

Shape == TypeOK /\ Placed /\ Emptied /\ Marked
IInv == Shape /\ Ranked /\ TreeFollows /\ IndexFollows

-----------------------------------------------------------------------------
\* What the constants are.
LEMMA Constants ==
    /\ Inside \cap Outside = {} /\ Files = Inside \cup Outside /\ Paths = Files \cup {Dir}
    /\ Dir \notin Files /\ Nothing \notin Paths
    /\ "hand" \notin Workers /\ "sweep" \notin Workers
    /\ Capacity \in Nat /\ MaxEvents \in Nat /\ MaxEvents >= 1
    /\ 0 \in Writes /\ 1 \in Writes /\ None \in [Files -> Writes]
  BY MonitorAssumption DEF MonitorAssumption, Files, Paths, Writes, None

\* Jobs and sweeps are records.
Places == {"rest", "look", "put", "putBare", "upsert", "drop", "unindex", "gone",
           "push", "file", "index", "folder", "detach"}
SweepPlaces == {"rest", "root", "setRoot", "dir", "setDir", "collect", "rebuild"}

LEMMA JobHas ==
    ASSUME NEW job \in Jobs
    PROVE  job.at \in Places /\ job.path \in Paths \cup {Nothing} /\ job.got \in Writes
  BY DEF Jobs, Places

LEMMA JobMade ==
    ASSUME NEW at \in Places, NEW p \in Paths \cup {Nothing}, NEW v \in Writes
    PROVE  /\ At(at, p, v) \in Jobs /\ At(at, p, v).at = at
           /\ At(at, p, v).path = p /\ At(at, p, v).got = v
  BY DEF Jobs, Places, At

LEMMA JobMoved ==
    ASSUME NEW job \in Jobs, NEW at \in Places
    PROVE  /\ [job EXCEPT !.at = at] \in Jobs /\ [job EXCEPT !.at = at].at = at
           /\ [job EXCEPT !.at = at].path = job.path
           /\ [job EXCEPT !.at = at].got = job.got
  BY DEF Jobs, Places

LEMMA RestIs ==
    Rest \in Jobs /\ Rest.at = "rest" /\ [Rest EXCEPT !.at = "gone"].at = "gone"
    /\ [Rest EXCEPT !.at = "gone"] \in Jobs
  BY Constants DEF Jobs, Rest

LEMMA SweepHas ==
    ASSUME NEW s \in Sweeps
    PROVE  s.at \in SweepPlaces /\ s.got \in [Files -> Writes] /\ s.reuse \in [Files -> Writes]
  BY DEF Sweeps, SweepPlaces

LEMMA SweepMoved ==
    ASSUME NEW s \in Sweeps, NEW at \in SweepPlaces, NEW got \in [Files -> Writes]
    PROVE  /\ [s EXCEPT !.at = at, !.got = got] \in Sweeps
           /\ [s EXCEPT !.at = at, !.got = got].at = at
           /\ [s EXCEPT !.at = at, !.got = got].got = got
  BY DEF Sweeps, SweepPlaces

LEMMA SweepMade ==
    /\ NoSweep \in Sweeps /\ NoSweep.at = "rest"
    /\ \A r \in [Files -> Writes] :
          /\ [at |-> "root", got |-> None, reuse |-> r] \in Sweeps
          /\ [at |-> "root", got |-> None, reuse |-> r].at = "root"
  BY Constants DEF Sweeps, NoSweep

\* The queue, as it grows and shrinks.
LEMMA Appended ==
    ASSUME NEW q \in Seq(Files), NEW f \in Files, NEW r, r = Append(q, f)
    PROVE  /\ r \in Seq(Files) /\ Len(r) = Len(q) + 1
           /\ \A g : In(g, r) <=> g = f \/ In(g, q)
<1>1. r \in Seq(Files) /\ Len(r) = Len(q) + 1 /\ Len(q) \in Nat
  OBVIOUS
<1>2. \A i \in 1..Len(r) : r[i] = IF i <= Len(q) THEN q[i] ELSE f
  OBVIOUS
<1>3. ASSUME NEW g, NEW i \in 1..Len(r), r[i] = g
      PROVE  g = f \/ \E j \in 1..Len(q) : q[j] = g
  <2>1. CASE i <= Len(q)
    BY <2>1, <1>1, <1>2, <1>3
  <2>2. CASE ~(i <= Len(q))
    BY <2>2, <1>1, <1>2, <1>3
  <2> QED
    BY <2>1, <2>2
<1>4. ASSUME NEW g, NEW i \in 1..Len(q), q[i] = g
      PROVE  \E j \in 1..Len(r) : r[j] = g
  BY <1>1, <1>2, <1>4
<1>5. \E j \in 1..Len(r) : r[j] = f
  <2>1. Len(r) \in 1..Len(r) /\ ~(Len(r) <= Len(q))
    BY <1>1
  <2> QED
    BY <2>1, <1>2
<1> QED
  BY <1>1, <1>3, <1>4, <1>5 DEF In

LEMMA Shortened ==
    ASSUME NEW q \in Seq(Files), q # <<>>, NEW r, r = Tail(q)
    PROVE  /\ r \in Seq(Files) /\ Len(r) = Len(q) - 1 /\ Head(q) \in Files
           /\ \A g : In(g, q) => g = Head(q) \/ In(g, r)
<1>1. r \in Seq(Files) /\ Len(r) = Len(q) - 1 /\ Head(q) \in Files /\ Len(q) \in Nat
      /\ Head(q) = q[1]
  OBVIOUS
<1>2. \A i \in 1..Len(r) : r[i] = q[i + 1]
  OBVIOUS
<1>3. ASSUME NEW g, NEW i \in 1..Len(q), q[i] = g, i # 1
      PROVE  \E j \in 1..Len(r) : r[j] = g
  <2>1. i - 1 \in 1..Len(r) /\ (i - 1) + 1 = i
    BY <1>1, <1>3
  <2> QED
    BY <2>1, <1>2, <1>3
<1> QED
  BY <1>1, <1>3 DEF In

\* The type invariant in four parts, and what keeps each.
Data ==
    /\ disk \in [Files -> Writes] /\ dirOn \in BOOLEAN
    /\ tree \in [Files -> Writes] /\ dirIn \in BOOLEAN
    /\ hashed \subseteq Files /\ index \in [Files -> Writes]
    /\ events \in Writes
Waits ==
    /\ notes \subseteq Paths /\ pending \subseteq Paths /\ batch \subseteq Paths
    /\ queue \in Seq(Files) /\ Len(queue) <= Capacity /\ queued \subseteq Files
    /\ state \in {"running", "stopping", "stopped"}
Goers == hand \in Jobs /\ work \in [Workers -> Jobs] /\ sweep \in Sweeps
Pasts ==
    /\ passed \subseteq Actors \X Files
    /\ excused \cup skewed \subseteq Files

LEMMA Typed == ASSUME TypeOK PROVE Data /\ Waits /\ Goers /\ Pasts
  BY DEF TypeOK, Data, Waits, Goers, Pasts, Actors

LEMMA TypedNext == ASSUME Data', Waits', Goers', Pasts' PROVE TypeOK'
  BY DEF TypeOK, Data, Waits, Goers, Pasts, Actors

LEMMA WorkerMoved ==
    ASSUME Goers, NEW k \in Workers, NEW job, Now(k, job)
    PROVE  /\ job \in Jobs => work' \in [Workers -> Jobs]
           /\ work'[k] = job /\ \A j \in Workers \ {k} : work'[j] = work[j]
  BY DEF Goers, Now

\* Those who hold a file, as a set.
LEMMA Holders ==
    ASSUME Placed, NEW f \in Files
    PROVE  /\ Holding(f) \subseteq Actors
           /\ \A m \in Actors : m \in Holding(f) <=> Holds(m, f)
<1>1. \A k \in Workers : k \in Holding(f) <=> Holds(k, f)
  BY Constants DEF Placed, WorkerFits, Holding, Holds
<1>2. "hand" \in Holding(f) <=> Holds("hand", f)
  BY Constants DEF Holding, Holds
<1>3. "sweep" \in Holding(f) <=> Holds("sweep", f)
  BY Constants DEF Holding, Holds
<1>4. Holding(f) \subseteq Actors
  BY DEF Holding, Actors
<1> QED
  BY <1>1, <1>2, <1>3, <1>4 DEF Actors

\* A look overtakes the others who hold one of the files.
LEMMA Overtakes ==
    ASSUME Placed, NEW fs \in SUBSET Files, NEW me
    PROVE  /\ Overtaken(fs, me) \subseteq Actors \X Files
           /\ \A m \in Actors : \A f \in Files :
                 <<m, f>> \in Overtaken(fs, me) <=> f \in fs /\ m # me /\ Holds(m, f)
<1>1. \A q : q \in Overtaken(fs, me) <=> \E f \in fs : q \in (Holding(f) \ {me}) \X {f}
  BY DEF Overtaken
<1>2. \A f \in fs : (Holding(f) \ {me}) \X {f} \subseteq Actors \X Files
  BY Holders
<1>3. ASSUME NEW m \in Actors, NEW f \in Files
      PROVE  <<m, f>> \in Overtaken(fs, me) <=> f \in fs /\ m # me /\ Holds(m, f)
  <2>1. <<m, f>> \in Overtaken(fs, me) <=>
            \E g \in fs : m \in Holding(g) \ {me} /\ f = g
    BY <1>1
  <2>2. m \in Holding(f) <=> Holds(m, f)
    BY Holders
  <2> QED
    BY <2>1, <2>2
<1> QED
  BY <1>1, <1>2, <1>3

LEMMA PastKept ==
    ASSUME Pasts, NEW fs \in SUBSET Files, NEW me,
           passed' \subseteq passed,
           excused' = excused \cup Late(fs, me),
           \/ skewed' = skewed \cup Late(fs, me)
           \/ skewed' = skewed \cup (IF SweepAt("rebuild") THEN fs ELSE Late(fs, me))
    PROVE  Pasts'
<1>1. Late(fs, me) \subseteq Files
  BY DEF Late
<1> QED
  BY <1>1 DEF Pasts

\* The shape is kept by every step.
LEMMA ShapeKept ==
    ASSUME Shape, [Next]_vars
    PROVE  Shape'
<1> USE DEF env, kept, wait, jobs, past, life
<1>1. Data /\ Waits /\ Goers /\ Pasts /\ Placed /\ Emptied /\ Marked
  BY Typed DEF Shape
<1>2. ASSUME NEW f \in Files, WriteFile(f) PROVE Shape'
  <2>1. Goers' /\ Placed' /\ Pasts' /\ Emptied' /\ Marked'
    BY <1>1, <1>2 DEF Goers, Placed, Pasts, Emptied, Marked, InQueue, HandAt, WriteFile,
       Happens
  <2>2. Data'
    BY <1>1, <1>2, Constants DEF Data, Writes, WriteFile, Happens
  <2>3. Waits'
    BY <1>1, <1>2, Constants DEF Waits, WriteFile, Happens
  <2> QED
    BY <2>1, <2>2, <2>3, TypedNext DEF Shape
<1>3. ASSUME NEW f \in Files, DeleteFile(f) PROVE Shape'
  <2>1. Goers' /\ Placed' /\ Pasts' /\ Emptied' /\ Marked'
    BY <1>1, <1>3 DEF Goers, Placed, Pasts, Emptied, Marked, InQueue, HandAt,
       DeleteFile, Happens
  <2>2. Data'
    BY <1>1, <1>3, Constants DEF Data, Writes, DeleteFile, Happens
  <2>3. Waits'
    BY <1>1, <1>3, Constants DEF Waits, DeleteFile, Happens
  <2> QED
    BY <2>1, <2>2, <2>3, TypedNext DEF Shape
<1>4. ASSUME MoveOut PROVE Shape'
  <2>1. Goers' /\ Placed' /\ Pasts' /\ Marked'
    BY <1>1, <1>4 DEF Goers, Placed, Pasts, Marked, InQueue, HandAt, MoveOut, Happens
  <2>2. Data'
    <3>1. disk' \in [Files -> Writes]
      BY <1>1, <1>4, Constants DEF Data, MoveOut
    <3>2. events' \in Writes
      BY <1>1, <1>4, Constants DEF Data, Writes, MoveOut, Happens
    <3> QED
      BY <1>1, <1>4, <3>1, <3>2 DEF Data, MoveOut, Happens
  <2>3. Waits'
    BY <1>1, <1>4, Constants DEF Waits, MoveOut, Happens
  <2>4. Emptied'
    BY <1>1, <1>4, Constants DEF Emptied, MoveOut, Happens
  <2> QED
    BY <2>1, <2>2, <2>3, <2>4, TypedNext DEF Shape
<1>5. ASSUME NEW fs \in SUBSET Inside, MoveIn(fs) PROVE Shape'
  <2>1. Goers' /\ Placed' /\ Emptied' /\ Marked'
    BY <1>1, <1>5 DEF Goers, Placed, Emptied, Marked, InQueue, HandAt, MoveIn, Happens
  <2>2. Data'
    BY <1>1, <1>5, Constants DEF Data, Writes, MoveIn, Happens
  <2>3. Waits'
    BY <1>1, <1>5, Constants DEF Waits, MoveIn, Happens
  <2>4. Pasts'
    BY <1>1, <1>5, Constants DEF Pasts, MoveIn, Happens
  <2> QED
    BY <2>1, <2>2, <2>3, <2>4, TypedNext DEF Shape
<1>6. ASSUME Overflow PROVE Shape'
  <2>1. sweep' \in Sweeps
    BY <1>1, <1>6, SweepMade, Constants DEF Goers, Data, Overflow
  <2>2. Goers' /\ Placed'
    BY <1>1, <1>6, <2>1 DEF Goers, Placed, Overflow
  <2>3. Waits' /\ Emptied' /\ Marked'
    BY <1>1, <1>6 DEF Waits, Emptied, Marked, InQueue, HandAt, Overflow
  <2>4. Data'
    BY <1>1, <1>6, Constants DEF Data, Writes, Overflow
  <2>5. Pasts'
    BY <1>1, <1>6, Constants DEF Pasts, Overflow
  <2> QED
    BY <2>2, <2>3, <2>4, <2>5, TypedNext DEF Shape
<1>7. ASSUME NEW p \in Paths, Notify(p) PROVE Shape'
  <2>1. Goers' /\ Placed' /\ Data' /\ Waits' /\ Pasts' /\ Emptied' /\ Marked'
    BY <1>1, <1>7 DEF Goers, Placed, Data, Waits, Pasts, Emptied, Marked, InQueue,
       HandAt, Notify
  <2> QED
    BY <2>1, TypedNext DEF Shape
<1>8. ASSUME Tick PROVE Shape'
  <2>1. Goers' /\ Placed' /\ Data' /\ Waits' /\ Pasts' /\ Emptied' /\ Marked'
    BY <1>1, <1>8 DEF Goers, Placed, Data, Waits, Pasts, Emptied, Marked, InQueue,
       HandAt, Tick
  <2> QED
    BY <2>1, TypedNext DEF Shape
<1>9. ASSUME LookDir PROVE Shape'
  <2>1. hand' \in Jobs /\ HandFits(hand')
    BY <1>1, <1>9, Constants, JobMade, JobHas, RestIs DEF Goers, Placed, HandFits,
       Places, LookDir, Takes, Hand, Overtake
  <2>2. Goers' /\ Placed'
    BY <1>1, <1>9, <2>1 DEF Goers, Placed, LookDir, Takes, Hand, Overtake
  <2>3. Data' /\ Waits' /\ Emptied'
    BY <1>1, <1>9 DEF Data, Waits, Emptied, LookDir, Takes, Hand, Overtake
  <2>4. Pasts'
    <3>1. Inside \in SUBSET Files
      BY Constants
    <3> QED
      BY <1>1, <1>9, <3>1, Overtakes DEF Pasts, LookDir, Takes, Hand, Overtake
  <2>5. Marked'
    BY <1>1, <1>9, RestIs DEF Marked, InQueue, HandAt, LookDir, Takes, Hand, Overtake
  <2> QED
    BY <2>2, <2>3, <2>4, <2>5, TypedNext DEF Shape
<1>10. ASSUME NEW f \in Files, LookFile(f) PROVE Shape'
  <2>1. hand' \in Jobs /\ HandFits(hand')
    BY <1>1, <1>10, Constants, JobMade, JobHas, RestIs, SMTT(40) DEF Goers, Placed, HandFits,
       Places, LookFile, Takes, Hand, Overtake
  <2>2. Goers' /\ Placed'
    BY <1>1, <1>10, <2>1 DEF Goers, Placed, LookFile, Takes, Hand, Overtake
  <2>3. Data' /\ Waits' /\ Emptied'
    BY <1>1, <1>10 DEF Data, Waits, Emptied, LookFile, Takes, Hand, Overtake
  <2>4. Pasts'
    <3>1. {f} \in SUBSET Files
      OBVIOUS
    <3> QED
      BY <1>1, <1>10, <3>1, Overtakes DEF Pasts, LookFile, Takes, Hand, Overtake
  <2>5. Marked'
    BY <1>1, <1>10 DEF Marked, InQueue, HandAt, At, Rest, LookFile, Takes, Hand, Overtake
  <2> QED
    BY <2>2, <2>3, <2>4, <2>5, TypedNext DEF Shape
<1>11. ASSUME RemoveFile PROVE Shape'
  <2>1. hand' \in Jobs /\ HandFits(hand')
    BY <1>1, <1>11, Constants, JobMade, JobHas, RestIs DEF Goers, Placed, HandFits,
       Places, RemoveFile, Drop, Hand, Done, ToTree, HandAt
  <2>2. Goers' /\ Placed'
    BY <1>1, <1>11, <2>1 DEF Goers, Placed, RemoveFile, Drop, Hand, Done, ToTree, HandAt
  <2>3. Waits' /\ Emptied' /\ Marked'
    BY <1>1, <1>11 DEF Waits, Emptied, Marked, InQueue, RemoveFile, Drop, Hand, Done,
       ToTree, HandAt
  <2>4. Data'
    BY <1>1, <1>11, Constants DEF Data, RemoveFile, Drop, Hand, Done, ToTree, HandAt
  <2>5. Pasts'
    <3>1. {hand.path} \in SUBSET Files
      BY <1>1, <1>11 DEF Placed, HandFits, HandAt, RemoveFile
    <3> QED
      BY <1>1, <1>11, <3>1, PastKept DEF RemoveFile, Drop, Hand, Done, ToTree, HandAt
  <2> QED
    BY <2>2, <2>3, <2>4, <2>5, TypedNext DEF Shape
<1>12. ASSUME RemoveFileFromIndex PROVE Shape'
  <2>1. hand' \in Jobs /\ HandFits(hand')
    BY <1>1, <1>12, Constants, JobMade, JobHas, RestIs DEF Goers, Placed, HandFits,
       Places, RemoveFileFromIndex, Hand, Done, ToIndex, HandAt
  <2>2. Goers' /\ Placed'
    BY <1>1, <1>12, <2>1 DEF Goers, Placed, RemoveFileFromIndex, Hand, Done, ToIndex, HandAt
  <2>3. Waits' /\ Emptied' /\ Marked'
    BY <1>1, <1>12 DEF Waits, Emptied, Marked, InQueue, RemoveFileFromIndex, Hand, Done,
       ToIndex, HandAt
  <2>4. Data'
    BY <1>1, <1>12, Constants DEF Data, RemoveFileFromIndex, Hand, Done, ToIndex, HandAt
  <2>5. Pasts'
    <3>1. {hand.path} \in SUBSET Files
      BY <1>1, <1>12 DEF Placed, HandFits, HandAt, RemoveFileFromIndex
    <3> QED
      BY <1>1, <1>12, <3>1, PastKept DEF RemoveFileFromIndex, Hand, Done, ToIndex, HandAt
  <2> QED
    BY <2>2, <2>3, <2>4, <2>5, TypedNext DEF Shape
<1>13. ASSUME RemoveDirFromIndex PROVE Shape'
  <2>1. hand' \in Jobs /\ HandFits(hand')
    BY <1>1, <1>13, Constants, JobMade, JobHas, RestIs DEF Goers, Placed, HandFits,
       Places, RemoveDirFromIndex, Hand, ToIndex, Without, HandAt
  <2>2. Goers' /\ Placed'
    BY <1>1, <1>13, <2>1 DEF Goers, Placed, RemoveDirFromIndex, Hand, ToIndex, Without,
       HandAt
  <2>3. Waits' /\ Emptied' /\ Marked'
    BY <1>1, <1>13 DEF Waits, Emptied, Marked, InQueue, RemoveDirFromIndex, Hand,
       ToIndex, Without, HandAt
  <2>4. Data'
    BY <1>1, <1>13, Constants DEF Data, RemoveDirFromIndex, Hand, ToIndex, Without, HandAt
  <2>5. Pasts'
    <3>1. Inside \in SUBSET Files
      BY Constants
    <3> QED
      BY <1>1, <1>13, <3>1, PastKept DEF RemoveDirFromIndex, Hand, ToIndex, Without, HandAt
  <2> QED
    BY <2>2, <2>3, <2>4, <2>5, TypedNext DEF Shape
<1>14. ASSUME RemoveDir PROVE Shape'
  <2>1. hand' \in Jobs /\ HandFits(hand')
    BY <1>1, <1>14, Constants, JobMade, JobHas, RestIs DEF Goers, Placed, HandFits,
       Places, RemoveDir, Hand, Done, ToIndex, Without, HandAt
  <2>2. Goers' /\ Placed'
    BY <1>1, <1>14, <2>1 DEF Goers, Placed, RemoveDir, Hand, Done, ToIndex, Without, HandAt
  <2>3. Waits' /\ Marked'
    BY <1>1, <1>14 DEF Waits, Marked, InQueue, RemoveDir, Hand, Done, ToIndex, Without,
       HandAt
  <2>4. Data'
    BY <1>1, <1>14, Constants DEF Data, RemoveDir, Hand, Done, ToIndex, Without, HandAt
  <2>5. Pasts'
    <3>1. Inside \in SUBSET Files
      BY Constants
    <3> QED
      BY <1>1, <1>14, <3>1, PastKept DEF RemoveDir, Hand, Done, ToIndex, Without, HandAt
  <2>6. Emptied'
    BY <1>1, <1>14, Constants DEF Emptied, RemoveDir, Hand, Done, ToIndex, Without, HandAt
  <2> QED
    BY <2>2, <2>3, <2>4, <2>5, <2>6, TypedNext DEF Shape
<1>15. ASSUME Push PROVE Shape'
  <2>1. hand' \in Jobs /\ HandFits(hand')
    BY <1>1, <1>15, Constants, JobMade, JobHas, RestIs DEF Goers, Placed, HandFits,
       Places, Push, Hand, HandAt
  <2>2. Goers' /\ Placed'
    BY <1>1, <1>15, <2>1 DEF Goers, Placed, Push, Hand, HandAt
  <2>3. Data' /\ Pasts' /\ Emptied'
    BY <1>1, <1>15 DEF Data, Pasts, Emptied, Push, Hand, HandAt
  <2>4. ASSUME queue' = Append(queue, hand.path), queued' = queued, Len(queue) < Capacity
        PROVE  Waits' /\ Marked'
    <3>1. /\ queue' \in Seq(Files) /\ Len(queue') = Len(queue) + 1
          /\ \A g : In(g, queue') <=> g = hand.path \/ InQueue(g)
      BY <1>1, <1>15, <2>4, Appended, ZenonT(40) DEF Waits, Placed, HandFits, Push, HandAt, InQueue
    <3>2. Waits'
      BY <1>1, <1>15, <2>4, <3>1, Constants DEF Waits, Push
    <3>3. Marked'
      BY <1>1, <2>4, <3>1 DEF Marked, InQueue
    <3> QED
      BY <3>2, <3>3
  <2>5. ASSUME queue' = queue, queued' = queued \ {hand.path}
        PROVE  Waits' /\ Marked'
    <3>1. Waits'
      BY <1>1, <1>15, <2>5 DEF Waits, Push
    <3>2. Marked'
      BY <1>1, <2>5 DEF Marked, InQueue
    <3> QED
      BY <3>1, <3>2
  <2> QED
    BY <1>15, <2>2, <2>3, <2>4, <2>5, TypedNext DEF Shape, Push
<1>16. ASSUME HandLeaves PROVE Shape'
  <2>1. hand' \in Jobs /\ HandFits(hand')
    BY <1>1, <1>16, Constants, JobMade, JobHas, RestIs DEF Goers, Placed, HandFits,
       Places, HandLeaves, Hand
  <2>2. Goers' /\ Placed'
    BY <1>1, <1>16, <2>1 DEF Goers, Placed, HandLeaves, Hand
  <2>3. Data' /\ Waits' /\ Pasts' /\ Emptied'
    BY <1>1, <1>16 DEF Data, Waits, Pasts, Emptied, HandLeaves, Hand
  <2>4. Marked'
    BY <1>1, <1>16, RestIs DEF Marked, InQueue, HandAt, HandLeaves, Hand
  <2> QED
    BY <2>2, <2>3, <2>4, TypedNext DEF Shape
<1>17. ASSUME NEW k \in Workers, Take(k) PROVE Shape'
  <2>0. /\ queue' \in Seq(Files) /\ Len(queue') = Len(queue) - 1 /\ Head(queue) \in Files
        /\ \A g : InQueue(g) => g = Head(queue) \/ In(g, queue')
    <3>1. queue \in Seq(Files) /\ queue # <<>> /\ queue' = Tail(queue)
      BY <1>1, <1>17 DEF Waits, Take
    <3> QED
      BY <3>1, Shortened DEF InQueue
  <2>1. PICK job \in Jobs : WorkerFits(job) /\ Now(k, job)
    <3>1. At("look", Head(queue), 0) \in Jobs /\ WorkerFits(At("look", Head(queue), 0))
      BY <2>0, Constants, JobMade DEF Places, WorkerFits
    <3> QED
      BY <3>1, <1>17 DEF Take
  <2>2. Goers' /\ Placed'
    BY <1>1, <1>17, <2>1, WorkerMoved DEF Goers, Placed, Take
  <2>3. Data' /\ Pasts' /\ Emptied'
    BY <1>1, <1>17 DEF Data, Pasts, Emptied, Take
  <2>4. Waits'
    BY <1>1, <1>17, <2>0, Constants DEF Waits, Take
  <2>5. Marked'
    BY <1>1, <1>17, <2>0 DEF Marked, InQueue, HandAt, Waits, Take
  <2> QED
    BY <2>2, <2>3, <2>4, <2>5, TypedNext DEF Shape
<1>18. ASSUME NEW k \in Workers, WorkLook(k) PROVE Shape'
  <2>1. PICK job \in Jobs : WorkerFits(job) /\ Now(k, job)
    <3>1. work[k].path \in Files /\ disk[work[k].path] \in Writes
      BY <1>1, <1>18 DEF Placed, WorkerFits, Data, WorkLook
    <3>2. /\ At("drop", work[k].path, 0) \in Jobs /\ WorkerFits(At("drop", work[k].path, 0))
          /\ \A v \in Writes : /\ At("put", work[k].path, v) \in Jobs
                               /\ WorkerFits(At("put", work[k].path, v))
      BY <3>1, Constants, JobMade, SMTT(40) DEF Places, WorkerFits
    <3> QED
      BY <3>1, <3>2, <1>18 DEF WorkLook
  <2>2. Goers' /\ Placed'
    BY <1>1, <1>18, <2>1, WorkerMoved DEF Goers, Placed, WorkLook, Overtake
  <2>3. Data' /\ Waits' /\ Emptied' /\ Marked'
    BY <1>1, <1>18 DEF Data, Waits, Emptied, Marked, InQueue, HandAt, WorkLook, Overtake
  <2>4. Pasts'
    <3>1. {work[k].path} \in SUBSET Files
      BY <1>1, <1>18 DEF Placed, WorkerFits, WorkLook
    <3> QED
      BY <1>1, <1>18, <3>1, Overtakes DEF Pasts, WorkLook, Overtake
  <2> QED
    BY <2>2, <2>3, <2>4, TypedNext DEF Shape
<1>19. ASSUME NEW k \in Workers, FileLocked(k) PROVE Shape'
  <2>1. PICK job \in Jobs : WorkerFits(job) /\ Now(k, job)
    <3>1. work[k] \in Jobs /\ work[k].path \in Files
      BY <1>1, <1>19 DEF Goers, Placed, WorkerFits, FileLocked
    <3>2. [work[k] EXCEPT !.at = "putBare"] \in Jobs /\ WorkerFits([work[k] EXCEPT !.at = "putBare"])
      BY <3>1, JobMoved, ZenonT(40) DEF Places, WorkerFits
    <3> QED
      BY <3>2, <1>19 DEF FileLocked
  <2>2. Goers' /\ Placed'
    BY <1>1, <1>19, <2>1, WorkerMoved DEF Goers, Placed, FileLocked
  <2>3. Waits' /\ Pasts' /\ Emptied' /\ Marked'
    BY <1>1, <1>19 DEF Waits, Pasts, Emptied, Marked, InQueue, HandAt, FileLocked
  <2>4. Data'
    BY <1>1, <1>19, Constants DEF Data, Writes, FileLocked
  <2> QED
    BY <2>2, <2>3, <2>4, TypedNext DEF Shape
<1>20. ASSUME NEW k \in Workers, ReplaceFile(k) PROVE Shape'
  <2>1. PICK job \in Jobs : WorkerFits(job) /\ Now(k, job)
    <3>1. work[k].path \in Files /\ work[k].got \in Writes
      BY <1>1, <1>20, JobHas DEF Goers, Placed, WorkerFits, ReplaceFile
    <3>2. \A v \in Writes : /\ At("upsert", work[k].path, v) \in Jobs
                             /\ WorkerFits(At("upsert", work[k].path, v))
      BY <3>1, Constants, JobMade, SMTT(40) DEF Places, WorkerFits
    <3> QED
      BY <3>1, <3>2, <1>20, Constants DEF ReplaceFile
  <2>2. Goers' /\ Placed'
    BY <1>1, <1>20, <2>1, WorkerMoved DEF Goers, Placed, ReplaceFile, ToTree
  <2>3. Waits' /\ Marked'
    BY <1>1, <1>20 DEF Waits, Marked, InQueue, HandAt, ReplaceFile, ToTree
  <2>4. Data'
    BY <1>1, <1>20, Constants, JobHas DEF Data, Goers, Placed, WorkerFits, HandFits,
       ReplaceFile, ToTree
  <2>5. Pasts'
    <3>1. {work[k].path} \in SUBSET Files
      BY <1>1, <1>20 DEF Placed, WorkerFits, ReplaceFile
    <3> QED
      BY <1>1, <1>20, <3>1, PastKept DEF ReplaceFile, ToTree
  <2>6. Emptied'
    BY <1>1, <1>20, Constants DEF Emptied, Data, ReplaceFile, ToTree
  <2> QED
    BY <2>2, <2>3, <2>4, <2>5, <2>6, TypedNext DEF Shape
<1>21. ASSUME NEW k \in Workers, UpsertFile(k) PROVE Shape'
  <2>1. PICK job \in Jobs : WorkerFits(job) /\ Now(k, job)
    BY <1>1, <1>21, RestIs DEF WorkerFits, UpsertFile
  <2>2. Goers' /\ Placed'
    BY <1>1, <1>21, <2>1, WorkerMoved DEF Goers, Placed, UpsertFile, Done, ToIndex
  <2>3. Waits' /\ Emptied' /\ Marked'
    BY <1>1, <1>21 DEF Waits, Emptied, Marked, InQueue, HandAt, UpsertFile, Done, ToIndex
  <2>4. Data'
    BY <1>1, <1>21, Constants, JobHas DEF Data, Goers, Placed, WorkerFits, HandFits,
       UpsertFile, Done, ToIndex
  <2>5. Pasts'
    <3>1. {work[k].path} \in SUBSET Files
      BY <1>1, <1>21 DEF Placed, WorkerFits, UpsertFile
    <3> QED
      BY <1>1, <1>21, <3>1, PastKept DEF UpsertFile, Done, ToIndex
  <2> QED
    BY <2>2, <2>3, <2>4, <2>5, TypedNext DEF Shape
<1>22. ASSUME NEW k \in Workers, DropFile(k) PROVE Shape'
  <2>1. PICK job \in Jobs : WorkerFits(job) /\ Now(k, job)
    <3>1. work[k].path \in Files
      BY <1>1, <1>22 DEF Placed, WorkerFits, DropFile
    <3>2. At("unindex", work[k].path, 0) \in Jobs /\ WorkerFits(At("unindex", work[k].path, 0))
      BY <3>1, Constants, JobMade DEF Places, WorkerFits
    <3> QED
      BY <3>2, <1>22, RestIs DEF DropFile, WorkerFits
  <2>2. Goers' /\ Placed'
    BY <1>1, <1>22, <2>1, WorkerMoved DEF Goers, Placed, DropFile, Drop, Done, ToTree
  <2>3. Waits' /\ Emptied' /\ Marked'
    BY <1>1, <1>22 DEF Waits, Emptied, Marked, InQueue, HandAt, DropFile, Drop, Done, ToTree
  <2>4. Data'
    BY <1>1, <1>22, Constants DEF Data, DropFile, Drop, Done, ToTree
  <2>5. Pasts'
    <3>1. {work[k].path} \in SUBSET Files
      BY <1>1, <1>22 DEF Placed, WorkerFits, DropFile
    <3> QED
      BY <1>1, <1>22, <3>1, PastKept DEF DropFile, Drop, Done, ToTree
  <2> QED
    BY <2>2, <2>3, <2>4, <2>5, TypedNext DEF Shape
<1>23. ASSUME NEW k \in Workers, UnindexFile(k) PROVE Shape'
  <2>1. PICK job \in Jobs : WorkerFits(job) /\ Now(k, job)
    BY <1>1, <1>23, RestIs DEF WorkerFits, UnindexFile
  <2>2. Goers' /\ Placed'
    BY <1>1, <1>23, <2>1, WorkerMoved DEF Goers, Placed, UnindexFile, Done, ToIndex
  <2>3. Waits' /\ Emptied' /\ Marked'
    BY <1>1, <1>23 DEF Waits, Emptied, Marked, InQueue, HandAt, UnindexFile, Done, ToIndex
  <2>4. Data'
    BY <1>1, <1>23, Constants DEF Data, UnindexFile, Done, ToIndex
  <2>5. Pasts'
    <3>1. {work[k].path} \in SUBSET Files
      BY <1>1, <1>23 DEF Placed, WorkerFits, UnindexFile
    <3> QED
      BY <1>1, <1>23, <3>1, PastKept DEF UnindexFile, Done, ToIndex
  <2> QED
    BY <2>2, <2>3, <2>4, <2>5, TypedNext DEF Shape
<1>24. ASSUME NEW k \in Workers, WorkerLeaves(k) PROVE Shape'
  <2>1. PICK job \in Jobs : WorkerFits(job) /\ Now(k, job)
    BY <1>1, <1>24, RestIs DEF WorkerFits, WorkerLeaves
  <2>2. Goers' /\ Placed'
    BY <1>1, <1>24, <2>1, WorkerMoved DEF Goers, Placed, WorkerLeaves
  <2>3. Data' /\ Waits' /\ Pasts' /\ Emptied' /\ Marked'
    BY <1>1, <1>24 DEF Data, Waits, Pasts, Emptied, Marked, InQueue, HandAt, WorkerLeaves
  <2> QED
    BY <2>2, <2>3, TypedNext DEF Shape
<1>25. ASSUME SweepRoot PROVE Shape'
  <2>1. sweep' \in Sweeps
    <3>1. Read(Outside) \in [Files -> Writes]
      BY <1>1, Constants DEF Data, Read
    <3> QED
      BY <1>1, <1>25, <3>1, SweepMoved DEF Goers, SweepPlaces, SweepRoot, SweepRead, SweepTo
  <2>2. Goers' /\ Placed'
    BY <1>1, <1>25, <2>1 DEF Goers, Placed, SweepRoot, SweepRead, SweepTo, Overtake
  <2>3. Data' /\ Waits' /\ Emptied' /\ Marked'
    BY <1>1, <1>25 DEF Data, Waits, Emptied, Marked, InQueue, HandAt, SweepRoot,
       SweepRead, SweepTo, Overtake
  <2>4. Pasts'
    <3>1. Outside \in SUBSET Files
      BY Constants
    <3> QED
      BY <1>1, <1>25, <3>1, Overtakes DEF Pasts, SweepRoot, SweepRead, SweepTo, Overtake
  <2> QED
    BY <2>2, <2>3, <2>4, TypedNext DEF Shape
<1>26. ASSUME SweepDir PROVE Shape'
  <2>1. sweep' \in Sweeps
    <3>1. Read(Inside) \in [Files -> Writes]
      BY <1>1, Constants DEF Data, Read
    <3> QED
      BY <1>1, <1>26, <3>1, SweepMoved DEF Goers, SweepPlaces, SweepDir, SweepRead, SweepTo
  <2>2. Goers' /\ Placed'
    BY <1>1, <1>26, <2>1 DEF Goers, Placed, SweepDir, SweepRead, SweepTo, Overtake
  <2>3. Data' /\ Waits' /\ Emptied' /\ Marked'
    BY <1>1, <1>26 DEF Data, Waits, Emptied, Marked, InQueue, HandAt, SweepDir,
       SweepRead, SweepTo, Overtake
  <2>4. Pasts'
    <3>1. Inside \in SUBSET Files
      BY Constants
    <3> QED
      BY <1>1, <1>26, <3>1, Overtakes DEF Pasts, SweepDir, SweepRead, SweepTo, Overtake
  <2> QED
    BY <2>2, <2>3, <2>4, TypedNext DEF Shape
<1>27. ASSUME SweepSetRoot PROVE Shape'
  <2>1. sweep' \in Sweeps
    BY <1>1, <1>27, Constants, SweepMoved DEF Goers, SweepPlaces, SweepSetRoot,
       SweepSet, SweepTo, Done, ToTree
  <2>2. Goers' /\ Placed'
    BY <1>1, <1>27, <2>1 DEF Goers, Placed, SweepSetRoot, SweepSet, SweepTo, Done, ToTree
  <2>3. Waits' /\ Marked'
    BY <1>1, <1>27 DEF Waits, Marked, InQueue, HandAt, SweepSetRoot, SweepSet, SweepTo,
       Done, ToTree
  <2>4. Data'
    BY <1>1, <1>27, Constants, SweepHas DEF Data, Goers, SweepSetRoot, SweepSet,
       SweepTo, Done, ToTree
  <2>5. Pasts'
    <3>1. Outside \in SUBSET Files
      BY Constants
    <3> QED
      BY <1>1, <1>27, <3>1, PastKept DEF SweepSetRoot, SweepSet, SweepTo, Done, ToTree
  <2>6. Emptied'
    BY <1>1, <1>27, Constants DEF Emptied, SweepSetRoot, SweepSet, SweepTo, Done, ToTree
  <2> QED
    BY <2>2, <2>3, <2>4, <2>5, <2>6, TypedNext DEF Shape
<1>28. ASSUME SweepSetDir PROVE Shape'
  <2>1. sweep' \in Sweeps
    BY <1>1, <1>28, Constants, SweepMoved DEF Goers, SweepPlaces, SweepSetDir, SweepSet,
       SweepTo, Done, ToTree
  <2>2. Goers' /\ Placed'
    BY <1>1, <1>28, <2>1 DEF Goers, Placed, SweepSetDir, SweepSet, SweepTo, Done, ToTree
  <2>3. Waits' /\ Emptied' /\ Marked'
    BY <1>1, <1>28 DEF Waits, Emptied, Marked, InQueue, HandAt, SweepSetDir, SweepSet,
       SweepTo, Done, ToTree
  <2>4. Data'
    BY <1>1, <1>28, Constants, SweepHas DEF Data, Goers, SweepSetDir, SweepSet, SweepTo,
       Done, ToTree
  <2>5. Pasts'
    <3>1. Inside \in SUBSET Files
      BY Constants
    <3> QED
      BY <1>1, <1>28, <3>1, PastKept DEF SweepSetDir, SweepSet, SweepTo, Done, ToTree
  <2> QED
    BY <2>2, <2>3, <2>4, <2>5, TypedNext DEF Shape
<1>29. ASSUME SweepNoDir PROVE Shape'
  <2>1. sweep' \in Sweeps
    BY <1>1, <1>29, Constants, SweepMoved DEF Goers, SweepPlaces, SweepNoDir, SweepTo
  <2>2. Goers' /\ Placed'
    BY <1>1, <1>29, <2>1 DEF Goers, Placed, SweepNoDir, SweepTo
  <2>3. Data' /\ Waits' /\ Emptied' /\ Marked'
    BY <1>1, <1>29 DEF Data, Waits, Emptied, Marked, InQueue, HandAt, SweepNoDir, SweepTo
  <2>4. Pasts'
    BY <1>1, <1>29, Constants DEF Pasts, SweepNoDir, SweepTo
  <2> QED
    BY <2>2, <2>3, <2>4, TypedNext DEF Shape
<1>30. ASSUME SweepCollect PROVE Shape'
  <2>1. sweep' \in Sweeps
    <3>1. [f \in Files |-> IF f \in hashed THEN tree[f] ELSE 0] \in [Files -> Writes]
      BY <1>1, Constants DEF Data, Read
    <3> QED
      BY <1>1, <1>30, <3>1, SweepMoved DEF Goers, SweepPlaces, SweepCollect, SweepTo
  <2>2. Goers' /\ Placed'
    BY <1>1, <1>30, <2>1 DEF Goers, Placed, SweepCollect, SweepTo
  <2>3. Data' /\ Waits' /\ Emptied' /\ Marked'
    BY <1>1, <1>30 DEF Data, Waits, Emptied, Marked, InQueue, HandAt, SweepCollect, SweepTo
  <2>4. Pasts'
    BY <1>1, <1>30, Constants DEF Pasts, SweepCollect, SweepTo
  <2> QED
    BY <2>2, <2>3, <2>4, TypedNext DEF Shape
<1>31. ASSUME SweepRebuild PROVE Shape'
  <2>1. sweep' \in Sweeps
    BY <1>1, <1>31, SweepMade DEF SweepRebuild
  <2>2. Goers' /\ Placed'
    BY <1>1, <1>31, <2>1 DEF Goers, Placed, SweepRebuild
  <2>3. Waits' /\ Pasts' /\ Emptied' /\ Marked'
    BY <1>1, <1>31 DEF Waits, Pasts, Emptied, Marked, InQueue, HandAt, SweepRebuild
  <2>4. Data'
    BY <1>1, <1>31, Constants, SweepHas DEF Data, Goers, SweepRebuild
  <2> QED
    BY <2>2, <2>3, <2>4, TypedNext DEF Shape
<1>32. ASSUME SweepCancelled PROVE Shape'
  <2>1. sweep' \in Sweeps
    BY <1>1, <1>32, SweepMade DEF SweepCancelled, Done
  <2>2. Goers' /\ Placed'
    BY <1>1, <1>32, <2>1 DEF Goers, Placed, SweepCancelled, Done
  <2>3. Waits' /\ Pasts' /\ Emptied' /\ Marked'
    BY <1>1, <1>32 DEF Waits, Pasts, Emptied, Marked, InQueue, HandAt, SweepCancelled, Done
  <2>4. Data'
    BY <1>1, <1>32, Constants DEF Data, Writes, SweepCancelled, Done
  <2> QED
    BY <2>2, <2>3, <2>4, TypedNext DEF Shape
<1>33. ASSUME StopBegins PROVE Shape'
  <2>1. Goers' /\ Placed' /\ Data' /\ Waits' /\ Pasts' /\ Emptied' /\ Marked'
    BY <1>1, <1>33 DEF Goers, Placed, Data, Waits, Pasts, Emptied, Marked, InQueue,
       HandAt, StopBegins
  <2> QED
    BY <2>1, TypedNext DEF Shape
<1>34. ASSUME StopReturns PROVE Shape'
  <2>1. Goers' /\ Placed' /\ Data' /\ Waits' /\ Pasts' /\ Emptied' /\ Marked'
    BY <1>1, <1>34 DEF Goers, Placed, Data, Waits, Pasts, Emptied, Marked, InQueue,
       HandAt, StopReturns
  <2> QED
    BY <2>1, TypedNext DEF Shape
<1>35. ASSUME UNCHANGED vars PROVE Shape'
  <2>1. Goers' /\ Placed' /\ Data' /\ Waits' /\ Pasts' /\ Emptied' /\ Marked'
    BY <1>1, <1>35 DEF Goers, Placed, Data, Waits, Pasts, Emptied, Marked, InQueue,
       HandAt, vars
  <2> QED
    BY <2>1, TypedNext DEF Shape
<1> QED
  BY <1>2, <1>3, <1>4, <1>5, <1>6, <1>7, <1>8, <1>9, <1>10, <1>11, <1>12, <1>13, <1>14,
     <1>15, <1>16, <1>17, <1>18, <1>19, <1>20, <1>21, <1>22, <1>23, <1>24, <1>25, <1>26,
     <1>27, <1>28, <1>29, <1>30, <1>31, <1>32, <1>33, <1>34, <1>35 DEF Next, DiskChanges,
     Coalesce, Worker, Rescan

-----------------------------------------------------------------------------
\* What each kind of actor holds, writes and owes, before and after a step.
LEMMA WorkerIs ==
    ASSUME NEW k \in Workers, NEW f
    PROVE  /\ Holds(k, f) <=> work[k].path = f
                  /\ work[k].at \in {"put", "putBare", "upsert", "drop", "unindex"}
           /\ Writing(k, f) <=> work[k].path = f /\ work[k].at \in {"put", "putBare", "drop"}
           /\ Owes(k, f) <=> work[k].path = f /\ work[k].at \in {"upsert", "unindex"}
           /\ Seen(k, f) = work[k].got /\ Owed(k) = work[k].got
           /\ Holds(k, f)' <=> work'[k].path = f
                  /\ work'[k].at \in {"put", "putBare", "upsert", "drop", "unindex"}
           /\ Writing(k, f)' <=> work'[k].path = f /\ work'[k].at \in {"put", "putBare", "drop"}
           /\ Owes(k, f)' <=> work'[k].path = f /\ work'[k].at \in {"upsert", "unindex"}
           /\ Seen(k, f)' = work'[k].got /\ Owed(k)' = work'[k].got
  BY Constants DEF Holds, Writing, Owes, Seen, Owed

LEMMA HandIs ==
    ASSUME NEW f
    PROVE  /\ Holds("hand", f) <=> \/ hand.at \in {"file", "index"} /\ hand.path = f
                                   \/ hand.at \in {"folder", "detach"} /\ f \in Inside
           /\ Writing("hand", f) <=> \/ hand.at = "file" /\ hand.path = f
                                     \/ hand.at \in {"folder", "detach"} /\ f \in Inside
           /\ Owes("hand", f) <=> hand.at = "index" /\ hand.path = f
           /\ Seen("hand", f) = 0 /\ Owed("hand") = 0
           /\ Holds("hand", f)' <=> \/ hand'.at \in {"file", "index"} /\ hand'.path = f
                                    \/ hand'.at \in {"folder", "detach"} /\ f \in Inside
           /\ Writing("hand", f)' <=> \/ hand'.at = "file" /\ hand'.path = f
                                      \/ hand'.at \in {"folder", "detach"} /\ f \in Inside
           /\ Owes("hand", f)' <=> hand'.at = "index" /\ hand'.path = f
           /\ Seen("hand", f)' = 0 /\ Owed("hand")' = 0
  BY Constants DEF Holds, Writing, Owes, Seen, Owed

LEMMA SweepIs ==
    ASSUME NEW f
    PROVE  /\ Holds("sweep", f) <=> \/ sweep.at = "setRoot" /\ f \in Outside
                                    \/ sweep.at = "setDir" /\ f \in Inside
           /\ Writing("sweep", f) <=> Holds("sweep", f)
           /\ ~Owes("sweep", f) /\ ~Owes("sweep", f)'
           /\ Seen("sweep", f) = sweep.got[f]
           /\ Holds("sweep", f)' <=> \/ sweep'.at = "setRoot" /\ f \in Outside
                                     \/ sweep'.at = "setDir" /\ f \in Inside
           /\ Writing("sweep", f)' <=> Holds("sweep", f)'
           /\ Seen("sweep", f)' = sweep'.got[f]
  BY Constants DEF Holds, Writing, Owes, Seen, SweepAt

\* One actor moves at a time: the others hold, write and owe what they did.
Moves(me) ==
    /\ me # "hand" => hand' = hand
    /\ me # "sweep" => sweep' = sweep
    /\ \A k \in Workers \ {me} : work'[k] = work[k]

LEMMA OthersStay ==
    ASSUME NEW me \in Actors, Moves(me), NEW m \in Actors \ {me}, NEW f \in Files
    PROVE  /\ Holds(m, f)' <=> Holds(m, f)
           /\ Writing(m, f)' <=> Writing(m, f)
           /\ Owes(m, f)' <=> Owes(m, f)
           /\ Seen(m, f)' = Seen(m, f) /\ Owed(m)' = Owed(m)
<1>1. CASE m \in Workers
  <2>1. work'[m] = work[m]
    BY <1>1 DEF Moves
  <2> QED
    BY <1>1, <2>1, WorkerIs
<1>2. CASE m = "hand"
  <2>1. hand' = hand
    BY <1>2 DEF Moves
  <2> QED
    BY <1>2, <2>1, HandIs
<1>3. CASE m = "sweep"
  <2>1. sweep' = sweep
    BY <1>3 DEF Moves
  <2>2. Owed(m) = 0 /\ Owed(m)' = 0
    BY <1>3, Constants DEF Owed
  <2> QED
    BY <1>3, <2>1, <2>2, SweepIs
<1> QED
  BY <1>1, <1>2, <1>3 DEF Actors

\* It looks at files, goes on with those it holds, or is done with them.
Looks(me, fs) ==
    /\ Moves(me) /\ Overtake(fs, me)
    /\ \A g \in Files : ~Holds(me, g) /\ (Holds(me, g)' => g \in fs)
Goes(me) ==
    /\ Moves(me) /\ passed' = passed
    /\ \A g \in Files : Holds(me, g)' <=> Holds(me, g)
Ends(me) ==
    /\ Moves(me) /\ Done(me)
    /\ \A g \in Files : ~Holds(me, g)'

LEMMA LatestLooks ==
    ASSUME Placed, NEW me \in Actors, NEW fs \in SUBSET Files, Looks(me, fs),
           NEW m \in Actors, NEW f \in Files
    PROVE  Latest(m, f)' <=> Latest(m, f) /\ ~(f \in fs /\ m # me /\ Holds(m, f))
  BY Overtakes DEF Looks, Overtake, Latest

LEMMA LatestGoes ==
    ASSUME NEW me \in Actors, Goes(me), NEW m \in Actors, NEW f \in Files
    PROVE  Latest(m, f)' <=> Latest(m, f)
  BY DEF Goes, Latest

LEMMA LatestEnds ==
    ASSUME NEW me \in Actors, Ends(me), NEW m \in Actors, NEW f \in Files
    PROVE  Latest(m, f)' <=> m = me \/ Latest(m, f)
<1>1. <<m, f>>[1] = m
  OBVIOUS
<1> QED
  BY <1>1 DEF Ends, Done, Latest

LEMMA RankedKept ==
    ASSUME Placed, Ranked, NEW me \in Actors, NEW fs \in SUBSET Files,
           Looks(me, fs) \/ Goes(me) \/ Ends(me)
    PROVE  Ranked'
<1>1. SUFFICES ASSUME NEW f \in Files
               PROVE  /\ \A m \in Actors : Latest(m, f)' \/ Holds(m, f)'
                      /\ \A m, n \in Actors :
                            Holds(m, f)' /\ Holds(n, f)' /\ Latest(m, f)' /\ Latest(n, f)'
                               => m = n
  BY DEF Ranked
<1>2. /\ \A m \in Actors : Latest(m, f) \/ Holds(m, f)
      /\ \A m, n \in Actors :
            Holds(m, f) /\ Holds(n, f) /\ Latest(m, f) /\ Latest(n, f) => m = n
  BY DEF Ranked
<1>3. \A m \in Actors \ {me} : Holds(m, f)' <=> Holds(m, f)
  BY OthersStay DEF Looks, Goes, Ends
<1>4. CASE Looks(me, fs)
  <2>1. ~Holds(me, f) /\ (Holds(me, f)' => f \in fs)
    BY <1>4 DEF Looks
  <2>2. \A m \in Actors :
            Latest(m, f)' <=> Latest(m, f) /\ ~(f \in fs /\ m # me /\ Holds(m, f))
    BY <1>4, LatestLooks
  <2> QED
    BY <1>2, <1>3, <2>1, <2>2
<1>5. CASE Goes(me)
  <2>1. Holds(me, f)' <=> Holds(me, f)
    BY <1>5 DEF Goes
  <2>2. \A m \in Actors : Latest(m, f)' <=> Latest(m, f)
    BY <1>5, LatestGoes
  <2> QED
    BY <1>2, <1>3, <2>1, <2>2
<1>6. CASE Ends(me)
  <2>1. ~Holds(me, f)'
    BY <1>6 DEF Ends
  <2>2. \A m \in Actors : Latest(m, f)' <=> m = me \/ Latest(m, f)
    BY <1>6, LatestEnds
  <2> QED
    BY <1>2, <1>3, <2>1, <2>2
<1> QED
  BY <1>4, <1>5, <1>6

-----------------------------------------------------------------------------
\* What keeps the tree right in a file: a step that leaves it alone, a look by
\* one who sees the disk, a write by the latest to have looked.
LEMMA RightStays ==
    ASSUME NEW f \in Files, NEW me \in Actors, Moves(me), Right(f),
           disk'[f] = disk[f], tree'[f] = tree[f],
           \A m \in Actors \ {me} : Latest(m, f)' <=> Latest(m, f),
           Writing(me, f)' <=> Writing(me, f),
           Writing(me, f) => Seen(me, f)' = Seen(me, f) /\ (Latest(me, f)' <=> Latest(me, f))
    PROVE  Right(f)'
<1>1. \A m \in Actors : Writing(m, f)' <=> Writing(m, f)
  BY OthersStay
<1>2. \A m \in Actors : Writing(m, f) => Seen(m, f)' = Seen(m, f)
  BY OthersStay
<1>3. \A m \in Actors : Writing(m, f) => (Latest(m, f)' <=> Latest(m, f))
  OBVIOUS
<1> QED
  BY <1>1, <1>2, <1>3 DEF Right

LEMMA RightSeen ==
    ASSUME Placed, Ranked, NEW me \in Actors, NEW fs \in SUBSET Files, Looks(me, fs),
           NEW f \in fs, disk'[f] = disk[f], tree'[f] = tree[f],
           Writing(me, f)' => Seen(me, f)' = disk[f],
           ~Writing(me, f)' => tree[f] = disk[f]
    PROVE  Right(f)'
<1>1. \A m \in Actors : Latest(m, f)' <=> Latest(m, f) /\ ~(m # me /\ Holds(m, f))
  BY LatestLooks
<1>2. \A m \in Actors \ {me} : Writing(m, f)' => ~Latest(m, f)'
  <2>1. \A m \in Actors \ {me} : Writing(m, f)' => Holds(m, f)
    BY OthersStay DEF Looks, Writing
  <2> QED
    BY <2>1, <1>1
<1>3. Latest(me, f)'
  BY <1>1 DEF Looks, Ranked
<1> QED
  BY <1>2, <1>3 DEF Right

LEMMA RightWritten ==
    ASSUME Ranked, NEW me \in Actors, Goes(me) \/ Ends(me),
           NEW f \in Files, Right(f), Writing(me, f), Latest(me, f), ~Writing(me, f)',
           disk'[f] = disk[f], tree'[f] = Seen(me, f)
    PROVE  Right(f)'
<1>1. \A m \in Actors \ {me} : Writing(m, f)' <=> Writing(m, f)
  BY OthersStay DEF Goes, Ends
<1>2. \A m \in Actors \ {me} : Latest(m, f)' <=> Latest(m, f)
  BY LatestGoes, LatestEnds
<1>3. \A m \in Actors \ {me} : Writing(m, f) => ~Latest(m, f)
  BY DEF Ranked, Writing
<1>4. Seen(me, f) = disk[f]
  BY DEF Right
<1> QED
  BY <1>1, <1>2, <1>3, <1>4 DEF Right

\* What keeps the index matched in a file: a step that leaves it alone, a write
\* of the tree or of the index by the latest to have looked.
LEMMA MatchedStays ==
    ASSUME NEW f \in Files, NEW me \in Actors, Moves(me), Matched(f),
           index'[f] = index[f], Hash(f)' = Hash(f),
           sweep' = sweep \/ sweep'.at \notin {"rest", "rebuild"},
           \A m \in Actors : Owes(m, f) /\ Latest(m, f)' => Latest(m, f),
           Detached(f)' <=> Detached(f),
           Detached(f) /\ Latest("hand", f)' => Latest("hand", f),
           Owes(me, f)' <=> Owes(me, f),
           Owes(me, f) => Owed(me)' = Owed(me)
    PROVE  Matched(f)'
<1>1. \A m \in Actors : Owes(m, f)' <=> Owes(m, f)
  BY OthersStay
<1>2. \A m \in Actors : Owes(m, f) => Owed(m)' = Owed(m)
  BY OthersStay
<1>3. \A m \in Actors : Owes(m, f)' /\ Latest(m, f)' => Owed(m)' = Hash(f)'
  BY <1>1, <1>2 DEF Matched
<1>4. /\ SweepAt("rest")' => SweepAt("rest")
      /\ SweepAt("rebuild")' => SweepAt("rebuild") /\ sweep'.got[f] = sweep.got[f]
  BY DEF SweepAt
<1> QED
  BY <1>1, <1>3, <1>4 DEF Matched

LEMMA MatchedOwed ==
    ASSUME Ranked, NEW f \in Files, NEW me \in Actors, Goes(me), Matched(f),
           Holds(me, f), Latest(me, f), Owes(me, f)', Owed(me)' = Hash(f)',
           sweep' = sweep, Detached(f)' => me # "hand" /\ Detached(f)
    PROVE  Matched(f)'
<1>1. \A m \in Actors : Latest(m, f)' <=> Latest(m, f)
  BY LatestGoes
<1>2. \A m \in Actors \ {me} : Holds(m, f) => ~Latest(m, f)
  BY DEF Ranked
<1>3. \A m \in Actors \ {me} : Owes(m, f)' => Holds(m, f)
  BY OthersStay DEF Goes, Owes
<1>4. Detached(f)' => ~Latest("hand", f)' /\ ~SweepAt("rebuild")'
  BY <1>1, <1>2, HandIs DEF Detached, HandAt, SweepAt, Matched, Actors
<1> QED
  BY <1>1, <1>2, <1>3, <1>4 DEF Matched

LEMMA MatchedPaid ==
    ASSUME Ranked, NEW f \in Files, NEW me \in Actors, Ends(me), Matched(f),
           Owes(me, f), Latest(me, f), index'[f] = Owed(me), Hash(f)' = Hash(f),
           sweep' = sweep, ~SweepAt("rebuild"), Detached(f)' => me # "hand" /\ Detached(f)
    PROVE  Matched(f)'
<1>1. \A m \in Actors \ {me} : Latest(m, f)' <=> Latest(m, f)
  BY LatestEnds
<1>2. \A m \in Actors \ {me} : Holds(m, f) => ~Latest(m, f)
  BY DEF Ranked, Owes
<1>3. \A m \in Actors \ {me} : Owes(m, f)' => Holds(m, f)
  BY OthersStay DEF Ends, Owes
<1>4. ~Owes(me, f)' /\ Owed(me) = Hash(f)
  BY DEF Ends, Owes, Matched
<1>5. Detached(f)' => ~Latest("hand", f)'
  BY <1>1, <1>2, HandIs DEF Detached, HandAt, Actors
<1> QED
  BY <1>1, <1>2, <1>3, <1>4, <1>5 DEF Matched, SweepAt

\* The same for all files, by what a step does to them.
LEMMA FollowsUntouched ==
    ASSUME TreeFollows, NEW me \in Actors, Moves(me), Watched' => Watched,
           disk' = disk, dirOn' = dirOn, tree' = tree, excused \subseteq excused',
           Watched' => \A p \in Paths : Awaited(p) => Awaited(p)',
           \A m \in Actors \ {me} : \A g \in Files : Latest(m, g)' <=> Latest(m, g),
           \A g \in Files : Writing(me, g)' <=> Writing(me, g),
           \A g \in Files : Writing(me, g) =>
               Seen(me, g)' = Seen(me, g) /\ (Latest(me, g)' <=> Latest(me, g))
    PROVE  TreeFollows'
<1>1. SUFFICES ASSUME Watched', NEW g \in Files \ excused' PROVE Foreseen(g)' \/ Right(g)'
  BY DEF TreeFollows
<1>2. Foreseen(g) \/ Right(g)
  BY <1>1 DEF TreeFollows
<1>3. CASE Foreseen(g)
  BY <1>1, <1>3, Constants DEF Foreseen
<1>4. CASE Right(g)
  BY <1>4, RightStays
<1> QED
  BY <1>2, <1>3, <1>4

LEMMA FollowsWritten ==
    ASSUME Ranked, TreeFollows, NEW me \in Actors, Goes(me) \/ Ends(me), Watched' => Watched,
           disk' = disk, dirOn' = dirOn, NEW fs \in SUBSET Files,
           excused' = excused \cup Late(fs, me),
           \A p \in Paths : Awaited(p) => Awaited(p)',
           \A g \in Files : (Writing(me, g) <=> g \in fs) /\ ~Writing(me, g)',
           \A g \in Files : tree'[g] = IF g \in fs THEN Seen(me, g) ELSE tree[g]
    PROVE  TreeFollows'
<1>1. SUFFICES ASSUME Watched', NEW g \in Files \ excused' PROVE Foreseen(g)' \/ Right(g)'
  BY DEF TreeFollows
<1>2. Foreseen(g) \/ Right(g)
  BY <1>1 DEF TreeFollows
<1>3. CASE Foreseen(g)
  BY <1>3, Constants DEF Foreseen
<1>4. CASE Right(g) /\ g \in fs
  <2>1. Latest(me, g)
    BY <1>1, <1>4 DEF Late, Latest
  <2> QED
    BY <1>4, <2>1, RightWritten
<1>5. CASE Right(g) /\ g \notin fs
  <2>1. \A m \in Actors \ {me} : Latest(m, g)' <=> Latest(m, g)
    BY LatestGoes, LatestEnds
  <2>2. Moves(me)
    BY DEF Goes, Ends
  <2> QED
    BY <1>5, <2>1, <2>2, RightStays
<1> QED
  BY <1>2, <1>3, <1>4, <1>5

LEMMA FollowsLooked ==
    ASSUME Placed, Ranked, TreeFollows, NEW me \in Actors, NEW fs \in SUBSET Files,
           Looks(me, fs), Watched' => Watched,
           disk' = disk, dirOn' = dirOn, tree' = tree, excused \ fs \subseteq excused',
           \A p \in Files : Awaited(p) => p \in fs \/ Awaited(p)',
           Awaited(Dir) /\ ~dirOn => Inside \subseteq fs \/ Awaited(Dir)',
           \A g \in fs : Writing(me, g)' => Seen(me, g)' = disk[g],
           \A g \in fs : ~Writing(me, g)' => tree[g] = disk[g]
    PROVE  TreeFollows'
<1>1. SUFFICES ASSUME Watched', NEW g \in Files \ excused' PROVE Foreseen(g)' \/ Right(g)'
  BY DEF TreeFollows
<1>2. CASE g \in fs
  BY <1>2, RightSeen
<1>3. CASE g \notin fs
  <2>1. Foreseen(g) \/ Right(g)
    BY <1>1, <1>3 DEF TreeFollows
  <2>2. CASE Foreseen(g)
    BY <1>3, <2>2 DEF Foreseen
  <2>3. CASE Right(g)
    <3>1. ~Writing(me, g) /\ ~Writing(me, g)' /\ Moves(me)
      BY <1>3 DEF Looks, Writing
    <3>2. \A m \in Actors : Latest(m, g)' <=> Latest(m, g)
      BY <1>3, LatestLooks
    <3> QED
      BY <2>3, <3>1, <3>2, RightStays
  <2> QED
    BY <2>1, <2>2, <2>3
<1> QED
  BY <1>2, <1>3

LEMMA IndexUntouched ==
    ASSUME IndexFollows, NEW me \in Actors, Moves(me),
           index' = index, skewed \subseteq skewed',
           \A g \in Files : Hash(g)' = Hash(g),
           sweep' = sweep \/ sweep'.at \notin {"rest", "rebuild"},
           \A g \in Files : Detached(g)' <=> Detached(g),
           \A g \in Files : Owes(me, g)' <=> Owes(me, g),
           \A g \in Files : Owes(me, g) => Owed(me)' = Owed(me),
           \A m \in Actors : \A g \in Files : Holds(m, g) /\ Holds(m, g)' /\ Latest(m, g)' => Latest(m, g)
    PROVE  IndexFollows'
<1>1. SUFFICES ASSUME NEW g \in Files \ skewed' PROVE Matched(g)'
  BY DEF IndexFollows
<1>2. Matched(g)
  BY <1>1 DEF IndexFollows
<1>3. \A m \in Actors : Owes(m, g)' <=> Owes(m, g)
  BY OthersStay
<1>4. \A m \in Actors : Owes(m, g) /\ Latest(m, g)' => Latest(m, g)
  BY <1>3 DEF Owes
<1>5. "hand" \in Actors /\ (Detached(g) => Holds("hand", g) /\ Holds("hand", g)')
  BY HandIs DEF Actors, Detached, HandAt
<1> QED
  BY <1>2, <1>3, <1>4, <1>5, MatchedStays

\* Nobody of those who hold files moves.
LEMMA Idle ==
    ASSUME hand' = hand, work' = work, sweep' = sweep, passed' = passed
    PROVE  /\ "hand" \in Actors /\ Moves("hand") /\ Goes("hand")
           /\ \A m \in Actors : \A g \in Files :
                 /\ Holds(m, g)' <=> Holds(m, g)
                 /\ Writing(m, g)' <=> Writing(m, g)
                 /\ Owes(m, g)' <=> Owes(m, g)
                 /\ Seen(m, g)' = Seen(m, g) /\ Owed(m)' = Owed(m)
                 /\ Latest(m, g)' <=> Latest(m, g)
           /\ \A g \in Files : Detached(g)' <=> Detached(g)
  BY Constants DEF Actors, Moves, Goes, Holds, Writing, Owes, Seen, Owed, Latest, Detached,
     HandAt, SweepAt

LEMMA IndexOwed ==
    ASSUME Ranked, IndexFollows, NEW me \in Actors, Goes(me), NEW p \in Files,
           index' = index, sweep' = sweep, skewed' = skewed \cup Late({p}, me),
           \A g \in Files : (Holds(me, g) <=> g = p) /\ ~Owes(me, g) /\ (Owes(me, g)' <=> g = p),
           Owed(me)' = Hash(p)', \A g \in Files \ {p} : Hash(g)' = Hash(g),
           \A g \in Files : Detached(g)' <=> Detached(g),
           Detached(p) => me # "hand"
    PROVE  IndexFollows'
<1>1. SUFFICES ASSUME NEW g \in Files \ skewed' PROVE Matched(g)'
  BY DEF IndexFollows
<1>2. Matched(g) /\ (g = p => Latest(me, g))
  BY <1>1 DEF IndexFollows, Late, Latest
<1>3. CASE g = p
  BY <1>2, <1>3, MatchedOwed
<1>4. CASE g # p
  <2>1. \A m \in Actors : Latest(m, g)' <=> Latest(m, g)
    BY LatestGoes
  <2>2. "hand" \in Actors /\ Moves(me)
    BY DEF Actors, Goes
  <2> QED
    BY <1>2, <1>4, <2>1, <2>2, MatchedStays
<1> QED
  BY <1>3, <1>4

LEMMA IndexPaid ==
    ASSUME Ranked, IndexFollows, NEW me \in Actors, Ends(me), NEW p \in Files,
           sweep' = sweep,
           skewed' = skewed \cup IF SweepAt("rebuild") THEN {p} ELSE Late({p}, me),
           \A g \in Files : Owes(me, g) <=> g = p,
           \A g \in Files : index'[g] = IF g = p THEN Owed(me) ELSE index[g],
           \A g \in Files : Hash(g)' = Hash(g),
           \A g \in Files : Detached(g)' <=> Detached(g),
           \A g \in Files : Detached(g) => me # "hand"
    PROVE  IndexFollows'
<1>1. SUFFICES ASSUME NEW g \in Files \ skewed' PROVE Matched(g)'
  BY DEF IndexFollows
<1>2. Matched(g) /\ (g = p => Latest(me, g) /\ ~SweepAt("rebuild"))
  BY <1>1 DEF IndexFollows, Late, Latest
<1>3. CASE g = p
  BY <1>2, <1>3, MatchedPaid
<1>4. CASE g # p
  <2>1. \A m \in Actors : Latest(m, g)' <=> m = me \/ Latest(m, g)
    BY LatestEnds
  <2>2. "hand" \in Actors /\ Moves(me) /\ ~Owes(me, g) /\ ~Owes(me, g)'
    BY <1>4 DEF Actors, Ends, Owes
  <2> QED
    BY <1>2, <1>4, <2>1, <2>2, MatchedStays
<1> QED
  BY <1>3, <1>4

-----------------------------------------------------------------------------
\* The workers.
Fine == Ranked /\ TreeFollows /\ IndexFollows

LEMMA WorkerStep ==
    ASSUME Goers, NEW k \in Workers, NEW job, Now(k, job), hand' = hand, sweep' = sweep
    PROVE  /\ k \in Actors /\ k # "hand" /\ k # "sweep" /\ Moves(k)
           /\ work'[k] = job
           /\ \A f \in Files : Detached(f)' <=> Detached(f)
<1>1. k \in Actors /\ k # "hand" /\ k # "sweep"
  BY Constants DEF Actors
<1>2. work'[k] = job /\ \A j \in Workers \ {k} : work'[j] = work[j]
  BY WorkerMoved
<1> QED
  BY <1>1, <1>2 DEF Moves, Detached, HandAt

LEMMA WorkerAwaits ==
    ASSUME Goers, NEW k \in Workers, NEW job, Now(k, job), UNCHANGED <<wait, hand, jobs, sweep>>,
           NEW p, Awaited(p), ~(work[k].at = "look" /\ work[k].path = p)
    PROVE  Awaited(p)'
<1>1. \A j \in Workers \ {k} : work'[j] = work[j]
  BY WorkerMoved
<1>2. UNCHANGED <<notes, pending, batch, hand, queue, sweep>>
  BY DEF wait, jobs
<1>3. CASE \E j \in Workers : work[j].at = "look" /\ work[j].path = p
  <2>1. PICK j \in Workers : work[j].at = "look" /\ work[j].path = p
    BY <1>3
  <2>2. work'[j].at = "look" /\ work'[j].path = p
    BY <2>1, <1>1
  <2> QED
    BY <2>2 DEF Awaited
<1>4. CASE ~\E j \in Workers : work[j].at = "look" /\ work[j].path = p
  BY <1>2, <1>4 DEF Awaited, HandAt, SweepAt
<1> QED
  BY <1>3, <1>4

LEMMA WorkLookKept ==
    ASSUME IInv, NEW k \in Workers, WorkLook(k)
    PROVE  Fine'
<1> USE DEF env, kept, wait, jobs, past, life
<1>0. PICK p : p = work[k].path
  OBVIOUS
<1>1. Data /\ Goers /\ Placed /\ Ranked /\ TreeFollows /\ IndexFollows
  BY Typed DEF IInv, Shape
<1>2. PICK job : Now(k, job) /\ job = IF disk[p] = 0 THEN At("drop", p, 0) ELSE At("put", p, disk[p])
  BY <1>0 DEF WorkLook
<1>3. /\ work[k].at = "look" /\ p \in Files /\ Overtake({p}, k)
      /\ UNCHANGED <<disk, dirOn, tree, dirIn, hashed, index, notes, pending, batch, hand,
                     queue, queued, sweep, state, excused, skewed>>
  BY <1>0, <1>1 DEF WorkLook, Placed, WorkerFits
<1>4. job.path = p /\ job.at \in {"drop", "put"} /\ job.got = disk[p]
  BY <1>2 DEF At
<1>5. /\ k \in Actors /\ k # "hand" /\ k # "sweep" /\ Moves(k) /\ work'[k] = job
      /\ \A f \in Files : Detached(f)' <=> Detached(f)
  BY <1>1, <1>2, <1>3, WorkerStep
<1>6. \A g \in Files : ~Holds(k, g) /\ ~Writing(k, g) /\ ~Owes(k, g) /\ ~Owes(k, g)'
                       /\ (Holds(k, g)' => g = p) /\ (Writing(k, g)' => g = p)
  BY <1>3, <1>4, <1>5, WorkerIs
<1>7. Writing(k, p)' /\ Seen(k, p)' = disk[p]
  BY <1>4, <1>5, WorkerIs
<1>8. Looks(k, {p})
  BY <1>3, <1>5, <1>6 DEF Looks
<1>9. \A m \in Actors : \A f \in Files :
          Latest(m, f)' <=> Latest(m, f) /\ ~(f = p /\ m # k /\ Holds(m, f))
  BY <1>1, <1>3, <1>5, <1>8, LatestLooks
<1>10. Ranked'
  BY <1>1, <1>3, <1>5, <1>8, RankedKept
<1>11. TreeFollows'
  <2>1. \A q \in Files : Awaited(q) => q \in {p} \/ Awaited(q)'
    BY <1>0, <1>1, <1>2, <1>3, WorkerAwaits
  <2>2. Awaited(Dir) => Awaited(Dir)'
    BY <1>0, <1>1, <1>2, <1>3, Constants, WorkerAwaits
  <2>3. Watched' => Watched
    BY <1>3 DEF Watched
  <2> QED
    BY <1>1, <1>3, <1>5, <1>7, <1>8, <2>1, <2>2, <2>3, FollowsLooked
<1>12. IndexFollows'
  BY <1>1, <1>3, <1>5, <1>6, <1>9, IndexUntouched DEF Hash
<1> QED
  BY <1>10, <1>11, <1>12 DEF Fine

LEMMA TakeKept ==
    ASSUME IInv, NEW k \in Workers, Take(k)
    PROVE  Fine'
<1> USE DEF env, kept, wait, jobs, past, life
<1>1. Waits /\ Goers /\ Placed /\ Ranked /\ TreeFollows /\ IndexFollows
  BY Typed DEF IInv, Shape
<1>2. PICK job : Now(k, job) /\ job = At("look", Head(queue), 0)
  BY DEF Take
<1>3. /\ work[k] = Rest /\ queue \in Seq(Files) /\ queue # <<>> /\ queue' = Tail(queue)
      /\ UNCHANGED <<disk, dirOn, tree, dirIn, hashed, index, notes, pending, batch, hand,
                     sweep, state, passed, excused, skewed>>
  BY <1>1 DEF Take, Waits
<1>4. job.path = Head(queue) /\ job.at = "look"
  BY <1>2 DEF At
<1>5. /\ k \in Actors /\ k # "hand" /\ k # "sweep" /\ Moves(k) /\ work'[k] = job
      /\ \A f \in Files : Detached(f)' <=> Detached(f)
  BY <1>1, <1>2, <1>3, WorkerStep
<1>6. \A g \in Files : /\ ~Holds(k, g) /\ ~Writing(k, g) /\ ~Owes(k, g)
                       /\ ~Holds(k, g)' /\ ~Writing(k, g)' /\ ~Owes(k, g)'
  BY <1>3, <1>4, <1>5, RestIs, WorkerIs
<1>7. Goes(k)
  BY <1>3, <1>5, <1>6 DEF Goes
<1>8. \A m \in Actors : \A g \in Files : Latest(m, g)' <=> Latest(m, g)
  BY <1>5, <1>7, LatestGoes
<1>9. \A p \in Paths : Awaited(p) => Awaited(p)'
  <2>1. SUFFICES ASSUME NEW p \in Paths, Awaited(p) PROVE Awaited(p)'
    OBVIOUS
  <2>2. CASE In(p, queue)
    <3>1. p = Head(queue) \/ In(p, queue')
      BY <2>2, <1>3, Shortened
    <3> QED
      BY <3>1, <1>4, <1>5 DEF Awaited, In
  <2>3. CASE \E j \in Workers : work[j].at = "look" /\ work[j].path = p
    <3>1. PICK j \in Workers : work[j].at = "look" /\ work[j].path = p
      BY <2>3
    <3>2. work'[j] = work[j]
      BY <3>1, <1>3, <1>5, RestIs DEF Moves
    <3> QED
      BY <3>1, <3>2 DEF Awaited
  <2> QED
    BY <2>1, <2>2, <2>3, <1>3 DEF Awaited, In, HandAt, SweepAt
<1>10. Ranked'
  BY <1>1, <1>5, <1>7, RankedKept
<1>11. TreeFollows'
  <2>1. Watched' => Watched
    BY <1>3 DEF Watched
  <2> QED
    BY <1>1, <1>3, <1>5, <1>6, <1>8, <1>9, <2>1, FollowsUntouched
<1>12. IndexFollows'
  BY <1>1, <1>3, <1>5, <1>6, <1>8, IndexUntouched DEF Hash
<1> QED
  BY <1>10, <1>11, <1>12 DEF Fine

LEMMA FileLockedKept ==
    ASSUME IInv, NEW k \in Workers, FileLocked(k)
    PROVE  Fine'
<1> USE DEF env, kept, wait, jobs, past, life
<1>1. Goers /\ Placed /\ Ranked /\ TreeFollows /\ IndexFollows /\ work[k] \in Jobs
  BY Typed DEF IInv, Shape, Goers
<1>2. PICK job : Now(k, job) /\ job = [work[k] EXCEPT !.at = "putBare"]
  BY DEF FileLocked
<1>3. /\ work[k].at = "put"
      /\ UNCHANGED <<disk, dirOn, tree, dirIn, hashed, index, notes, pending, batch, hand,
                     queue, queued, sweep, state, passed, excused, skewed>>
  BY DEF FileLocked
<1>4. job.path = work[k].path /\ job.at = "putBare" /\ job.got = work[k].got
  BY <1>1, <1>2, JobMoved DEF Places
<1>5. /\ k \in Actors /\ k # "hand" /\ k # "sweep" /\ Moves(k) /\ work'[k] = job
      /\ \A f \in Files : Detached(f)' <=> Detached(f)
  BY <1>1, <1>2, <1>3, WorkerStep
<1>6. \A g \in Files : /\ Holds(k, g)' <=> Holds(k, g)
                       /\ Writing(k, g)' <=> Writing(k, g)
                       /\ ~Owes(k, g) /\ ~Owes(k, g)' /\ Seen(k, g)' = Seen(k, g)
  BY <1>3, <1>4, <1>5, WorkerIs
<1>7. Goes(k)
  BY <1>3, <1>5, <1>6 DEF Goes
<1>8. \A m \in Actors : \A g \in Files : Latest(m, g)' <=> Latest(m, g)
  BY <1>5, <1>7, LatestGoes
<1>9. \A p \in Paths : Awaited(p) => Awaited(p)'
  BY <1>1, <1>2, <1>3, WorkerAwaits
<1>10. Ranked'
  BY <1>1, <1>5, <1>7, RankedKept
<1>11. TreeFollows'
  <2>1. Watched' => Watched
    BY <1>3 DEF Watched
  <2> QED
    BY <1>1, <1>3, <1>5, <1>6, <1>8, <1>9, <2>1, FollowsUntouched
<1>12. IndexFollows'
  BY <1>1, <1>3, <1>5, <1>6, <1>8, IndexUntouched DEF Hash
<1> QED
  BY <1>10, <1>11, <1>12 DEF Fine

LEMMA WorkerLeavesKept ==
    ASSUME IInv, NEW k \in Workers, WorkerLeaves(k)
    PROVE  Fine'
<1> USE DEF env, kept, wait, jobs, past, life
<1>1. Goers /\ Placed /\ Ranked /\ TreeFollows /\ IndexFollows
  BY Typed DEF IInv, Shape
<1>2. PICK job : Now(k, job) /\ job = [Rest EXCEPT !.at = "gone"]
  BY DEF WorkerLeaves
<1>3. /\ work[k] = Rest
      /\ UNCHANGED <<disk, dirOn, tree, dirIn, hashed, index, notes, pending, batch, hand,
                     queue, queued, sweep, state, passed, excused, skewed>>
  BY DEF WorkerLeaves
<1>4. /\ k \in Actors /\ k # "hand" /\ k # "sweep" /\ Moves(k) /\ work'[k] = job
      /\ \A f \in Files : Detached(f)' <=> Detached(f)
  BY <1>1, <1>2, <1>3, WorkerStep
<1>5. \A g \in Files : /\ ~Holds(k, g) /\ ~Writing(k, g) /\ ~Owes(k, g)
                       /\ ~Holds(k, g)' /\ ~Writing(k, g)' /\ ~Owes(k, g)'
  BY <1>2, <1>3, <1>4, RestIs, WorkerIs
<1>6. Goes(k)
  BY <1>3, <1>4, <1>5 DEF Goes
<1>7. \A m \in Actors : \A g \in Files : Latest(m, g)' <=> Latest(m, g)
  BY <1>4, <1>6, LatestGoes
<1>8. \A p \in Paths : Awaited(p) => Awaited(p)'
  BY <1>1, <1>2, <1>3, RestIs, WorkerAwaits
<1>9. Ranked'
  BY <1>1, <1>4, <1>6, RankedKept
<1>10. TreeFollows'
  <2>1. Watched' => Watched
    BY <1>3 DEF Watched
  <2> QED
    BY <1>1, <1>3, <1>4, <1>5, <1>7, <1>8, <2>1, FollowsUntouched
<1>11. IndexFollows'
  BY <1>1, <1>3, <1>4, <1>5, <1>7, IndexUntouched DEF Hash
<1> QED
  BY <1>9, <1>10, <1>11 DEF Fine

LEMMA ReplaceFileKept ==
    ASSUME IInv, NEW k \in Workers, ReplaceFile(k)
    PROVE  Fine'
<1> USE DEF env, kept, wait, jobs, past, life
<1>0. PICK p : p = work[k].path
  OBVIOUS
<1>1. Data /\ Goers /\ Placed /\ Ranked /\ TreeFollows /\ IndexFollows
  BY Typed DEF IInv, Shape
<1>2. PICK job : Now(k, job) /\ job = At("upsert", p, IF work[k].at = "putBare" THEN 0 ELSE work[k].got)
  BY <1>0 DEF ReplaceFile
<1>3. /\ work[k].at \in {"put", "putBare"} /\ p \in Files
      /\ tree' = [tree EXCEPT ![p] = work[k].got]
      /\ hashed' = IF work[k].at = "putBare" THEN hashed \ {p} ELSE hashed \cup {p}
      /\ excused' = excused \cup Late({p}, k) /\ skewed' = skewed \cup Late({p}, k)
      /\ UNCHANGED <<disk, dirOn, index, notes, pending, batch, hand,
                     queue, queued, sweep, state, passed>>
  BY <1>0, <1>1 DEF ReplaceFile, Placed, WorkerFits, ToTree
<1>4. /\ job.path = p /\ job.at = "upsert"
      /\ job.got = IF work[k].at = "putBare" THEN 0 ELSE work[k].got
  BY <1>2 DEF At
<1>5. /\ k \in Actors /\ k # "hand" /\ k # "sweep" /\ Moves(k) /\ work'[k] = job
      /\ \A f \in Files : Detached(f)' <=> Detached(f)
  BY <1>1, <1>2, <1>3, WorkerStep
<1>6. \A g \in Files : /\ Holds(k, g) <=> g = p
                       /\ Holds(k, g)' <=> g = p
                       /\ Writing(k, g) <=> g = p
                       /\ Seen(k, g) = work[k].got
                       /\ ~Owes(k, g) /\ ~Writing(k, g)' /\ (Owes(k, g)' <=> g = p)
  BY <1>0, <1>3, <1>4, <1>5, WorkerIs
<1>7. Goes(k)
  BY <1>3, <1>5, <1>6 DEF Goes
<1>8. /\ \A g \in Files : tree'[g] = IF g = p THEN work[k].got ELSE tree[g]
      /\ \A g \in Files \ {p} : Hash(g)' = Hash(g)
      /\ Hash(p)' = job.got
  <2>1. \A g \in Files : tree'[g] = IF g = p THEN work[k].got ELSE tree[g]
    BY <1>1, <1>3 DEF Data
  <2>2. (p \in hashed' <=> work[k].at # "putBare") /\ \A g \in Files \ {p} : g \in hashed' <=> g \in hashed
    BY <1>3
  <2> QED
    BY <1>3, <1>4, <2>1, <2>2 DEF Hash
<1>9. \A q \in Paths : Awaited(q) => Awaited(q)'
  BY <1>1, <1>2, <1>3, WorkerAwaits
<1>10. Ranked'
  BY <1>1, <1>5, <1>7, RankedKept
<1>11. TreeFollows'
  <2>1. Watched' => Watched
    BY <1>3 DEF Watched
  <2>2. {p} \in SUBSET Files /\ \A g \in Files : g \in {p} <=> g = p
    BY <1>3
  <2> QED
    BY <1>1, <1>3, <1>5, <1>6, <1>7, <1>8, <1>9, <2>1, <2>2, FollowsWritten
<1>12. IndexFollows'
  <2>1. Owed(k)' = Hash(p)'
    BY <1>4, <1>5, <1>8, WorkerIs
  <2> QED
    BY <1>1, <1>3, <1>5, <1>6, <1>7, <1>8, <2>1, IndexOwed
<1> QED
  BY <1>10, <1>11, <1>12 DEF Fine

\* A worker that is done with the index.
LEMMA WorkerPaid ==
    ASSUME IInv, NEW k \in Workers, NEW p \in Files, work[k].path = p,
           work[k].at \in {"upsert", "unindex"},
           Now(k, Rest), Done(k), ToIndex({p}, k), index' = [index EXCEPT ![p] = work[k].got],
           UNCHANGED <<env, tree, dirIn, hashed, wait, hand, jobs, sweep, life>>
    PROVE  Fine'
<1> USE DEF env, kept, wait, jobs, past, life
<1>1. Data /\ Goers /\ Placed /\ Ranked /\ TreeFollows /\ IndexFollows
  BY Typed DEF IInv, Shape
<1>2. /\ excused' = excused \cup Late({p}, k)
      /\ skewed' = skewed \cup IF SweepAt("rebuild") THEN {p} ELSE Late({p}, k)
      /\ UNCHANGED <<disk, dirOn, tree, hashed, notes, pending, batch, hand, queue, sweep, state>>
  BY DEF ToIndex
<1>3. /\ k \in Actors /\ k # "hand" /\ k # "sweep" /\ Moves(k) /\ work'[k] = Rest
      /\ \A f \in Files : Detached(f)' <=> Detached(f)
  BY <1>1, <1>2, WorkerStep
<1>4. \A g \in Files : /\ Owes(k, g) <=> g = p
                       /\ ~Writing(k, g) /\ ~Holds(k, g)' /\ ~Writing(k, g)'
  BY <1>3, RestIs, WorkerIs
<1>5. Ends(k)
  BY <1>3, <1>4 DEF Ends
<1>6. \A m \in Actors \ {k} : \A g \in Files : Latest(m, g)' <=> Latest(m, g)
  BY <1>3, <1>5, LatestEnds
<1>7. \A q \in Paths : Awaited(q) => Awaited(q)'
  BY <1>1, WorkerAwaits
<1>8. Ranked'
  BY <1>1, <1>3, <1>5, RankedKept
<1>9. TreeFollows'
  <2>1. Watched' => Watched
    BY <1>2 DEF Watched
  <2> QED
    BY <1>1, <1>2, <1>3, <1>4, <1>6, <1>7, <2>1, FollowsUntouched
<1>10. IndexFollows'
  <2>1. Owed(k) = work[k].got
    BY WorkerIs
  <2>2. \A g \in Files : index'[g] = IF g = p THEN Owed(k) ELSE index[g]
    BY <1>1, <2>1 DEF Data
  <2> QED
    BY <1>1, <1>2, <1>3, <1>4, <1>5, <2>2, IndexPaid DEF Hash
<1> QED
  BY <1>8, <1>9, <1>10 DEF Fine

LEMMA UpsertFileKept ==
    ASSUME IInv, NEW k \in Workers, UpsertFile(k) \/ UnindexFile(k)
    PROVE  Fine'
<1>1. Placed
  BY DEF IInv, Shape
<1>2. work[k].path \in Files /\ (work[k].at = "unindex" => work[k].got = 0)
  BY <1>1 DEF Placed, WorkerFits, UpsertFile, UnindexFile
<1>3. CASE UpsertFile(k)
  BY <1>2, <1>3, WorkerPaid DEF UpsertFile
<1>4. CASE UnindexFile(k)
  BY <1>2, <1>4, WorkerPaid DEF UnindexFile
<1> QED
  BY <1>3, <1>4

LEMMA DropFileKept ==
    ASSUME IInv, NEW k \in Workers, DropFile(k)
    PROVE  Fine'
<1> USE DEF env, kept, wait, jobs, past, life
<1>0. PICK p : p = work[k].path
  OBVIOUS
<1>1. Data /\ Goers /\ Placed /\ Ranked /\ TreeFollows /\ IndexFollows
  BY Typed DEF IInv, Shape
<1>2. PICK job : Now(k, job) /\ job = IF tree[p] > 0 THEN At("unindex", p, 0) ELSE Rest
  BY <1>0 DEF DropFile
<1>3. /\ work[k].at = "drop" /\ p \in Files /\ work[k].got = 0
      /\ tree' = [tree EXCEPT ![p] = 0] /\ hashed' = hashed \ {p}
      /\ IF tree[p] > 0 THEN passed' = passed ELSE Done(k)
      /\ excused' = excused \cup Late({p}, k) /\ skewed' = skewed \cup Late({p}, k)
      /\ UNCHANGED <<disk, dirOn, index, notes, pending, batch, hand,
                     queue, queued, sweep, state>>
  BY <1>0, <1>1 DEF DropFile, Drop, Placed, WorkerFits, ToTree
<1>4. /\ tree[p] > 0 => job.path = p /\ job.at = "unindex" /\ job.got = 0
      /\ ~(tree[p] > 0) => job.at = "rest"
  BY <1>2, RestIs DEF At
<1>5. /\ k \in Actors /\ k # "hand" /\ k # "sweep" /\ Moves(k) /\ work'[k] = job
      /\ \A f \in Files : Detached(f)' <=> Detached(f)
  BY <1>1, <1>2, <1>3, WorkerStep
<1>6. \A g \in Files : /\ Holds(k, g) <=> g = p
                       /\ Writing(k, g) <=> g = p
                       /\ Seen(k, g) = 0
                       /\ ~Owes(k, g) /\ ~Writing(k, g)'
                       /\ Holds(k, g)' <=> g = p /\ tree[p] > 0
                       /\ Owes(k, g)' <=> g = p /\ tree[p] > 0
  BY <1>0, <1>3, <1>4, <1>5, WorkerIs
<1>7. (tree[p] > 0 => Goes(k)) /\ (~(tree[p] > 0) => Ends(k))
  BY <1>3, <1>5, <1>6 DEF Goes, Ends
<1>8. /\ \A g \in Files : tree'[g] = IF g = p THEN 0 ELSE tree[g]
      /\ \A g \in Files \ {p} : Hash(g)' = Hash(g)
      /\ Hash(p)' = 0
      /\ ~(tree[p] > 0) => Hash(p) = 0
  <2>1. \A g \in Files : tree'[g] = IF g = p THEN 0 ELSE tree[g]
    BY <1>1, <1>3 DEF Data
  <2>2. p \notin hashed' /\ \A g \in Files \ {p} : g \in hashed' <=> g \in hashed
    BY <1>3
  <2>3. ~(tree[p] > 0) => tree[p] = 0
    BY <1>1, <1>3, Constants DEF Data, Writes
  <2> QED
    BY <1>3, <1>4, <2>1, <2>2, <2>3 DEF Hash
<1>9. \A q \in Paths : Awaited(q) => Awaited(q)'
  BY <1>1, <1>2, <1>3, WorkerAwaits
<1>10. Ranked'
  BY <1>1, <1>5, <1>7, RankedKept
<1>11. TreeFollows'
  <2>1. Watched' => Watched
    BY <1>3 DEF Watched
  <2>2. {p} \in SUBSET Files /\ \A g \in Files : g \in {p} <=> g = p
    BY <1>3
  <2> QED
    BY <1>1, <1>3, <1>5, <1>6, <1>7, <1>8, <1>9, <2>1, <2>2, FollowsWritten
<1>12. CASE tree[p] > 0
  <2>1. Owed(k)' = Hash(p)'
    BY <1>4, <1>5, <1>8, <1>12, WorkerIs
  <2>2. IndexFollows'
    BY <1>1, <1>3, <1>5, <1>6, <1>7, <1>8, <1>12, <2>1, IndexOwed
  <2> QED
    BY <1>10, <1>11, <2>2 DEF Fine
<1>13. CASE ~(tree[p] > 0)
  <2>1. \A g \in Files : Hash(g)' = Hash(g)
    BY <1>8, <1>13
  <2>2. \A m \in Actors : \A g \in Files : Holds(m, g) /\ Holds(m, g)' /\ Latest(m, g)' => Latest(m, g)
    BY <1>5, <1>6, <1>7, <1>13, LatestEnds
  <2>3. IndexFollows'
    BY <1>1, <1>3, <1>5, <1>6, <1>13, <2>1, <2>2, IndexUntouched
  <2> QED
    BY <1>10, <1>11, <2>3 DEF Fine
<1> QED
  BY <1>12, <1>13

-----------------------------------------------------------------------------
\* The coalescing goroutine.
LEMMA HandStep ==
    ASSUME work' = work, sweep' = sweep
    PROVE  /\ "hand" \in Actors /\ Moves("hand")
           /\ \A p : /\ Awaited(p)
                     /\ UNCHANGED <<notes, pending, queue>>
                     /\ p \in batch => p \in batch'
                     /\ ~(HandAt("push") /\ hand.path = p)
                     => Awaited(p)'
<1>1. "hand" \in Actors /\ Moves("hand")
  BY Constants DEF Actors, Moves
<1>2. ASSUME NEW p, Awaited(p), UNCHANGED <<notes, pending, queue>>, p \in batch => p \in batch',
             ~(HandAt("push") /\ hand.path = p)
      PROVE  Awaited(p)'
  BY <1>2 DEF Awaited, SweepAt
<1> QED
  BY <1>1, <1>2

\* Its steps that neither look at a file nor write one: a tick, a path put into
\* the queue, the end.
LEMMA HandIdle ==
    ASSUME IInv, HandFits(hand'), hand'.at \in {"rest", "push", "gone"},
           hand.at \in {"rest", "push", "gone"},
           UNCHANGED <<disk, dirOn, tree, hashed, index, work, sweep, state, passed,
                       excused, skewed>>,
           Watched' => \A p \in Paths : Awaited(p) => (p = Dir /\ dirOn) \/ Awaited(p)'
    PROVE  Fine'
<1>1. Ranked /\ TreeFollows /\ IndexFollows /\ Placed
  BY DEF IInv, Shape
<1>2. "hand" \in Actors /\ Moves("hand")
  BY HandStep
<1>3. \A g \in Files : /\ ~Holds("hand", g) /\ ~Writing("hand", g) /\ ~Owes("hand", g)
                       /\ ~Holds("hand", g)' /\ ~Writing("hand", g)' /\ ~Owes("hand", g)'
                       /\ ~Detached(g) /\ ~Detached(g)'
  BY HandIs DEF Detached, HandAt
<1>4. Goes("hand")
  BY <1>2, <1>3 DEF Goes
<1>5. \A m \in Actors : \A g \in Files : Latest(m, g)' <=> Latest(m, g)
  BY <1>2, <1>4, LatestGoes
<1>6. Ranked'
  BY <1>1, <1>2, <1>4, RankedKept
<1>7. TreeFollows'
  <2>1. SUFFICES ASSUME Watched', NEW g \in Files \ excused' PROVE Foreseen(g)' \/ Right(g)'
    BY DEF TreeFollows
  <2>2. Foreseen(g) \/ Right(g)
    BY <1>1, <2>1 DEF TreeFollows, Watched
  <2>3. CASE Foreseen(g)
    BY <2>1, <2>3, Constants DEF Foreseen
  <2>4. CASE Right(g)
    BY <2>4, <1>2, <1>3, <1>5, RightStays
  <2> QED
    BY <2>2, <2>3, <2>4
<1>8. IndexFollows'
  BY <1>1, <1>2, <1>3, <1>5, IndexUntouched DEF Hash
<1> QED
  BY <1>6, <1>7, <1>8 DEF Fine

LEMMA TickKept ==
    ASSUME IInv, Tick
    PROVE  Fine'
<1>1. hand = Rest /\ HandFits(hand)
  BY DEF Tick, IInv, Shape, Placed
<1>2. UNCHANGED <<disk, dirOn, tree, hashed, index, notes, hand, queue, work, sweep, state,
                  passed, excused, skewed>>
  BY DEF Tick, env, kept, jobs, life, past
<1>3. pending \cup batch \subseteq pending' \cup batch'
  BY DEF Tick
<1>4. \A p : Awaited(p) => Awaited(p)'
  BY <1>2, <1>3 DEF Awaited, HandAt, SweepAt
<1>5. HandFits(hand') /\ hand'.at = "rest" /\ hand.at = "rest"
  BY <1>1, <1>2, RestIs
<1> QED
  BY <1>2, <1>4, <1>5, HandIdle

LEMMA PushKept ==
    ASSUME IInv, Push
    PROVE  Fine'
<1>1. /\ hand.at = "push" /\ hand.path \in Files /\ queue \in Seq(Files)
  BY Typed DEF Push, HandAt, IInv, Shape, Placed, HandFits, Waits
<1>2. /\ hand' = Rest
      /\ Watched => queue' = Append(queue, hand.path)
      /\ UNCHANGED <<disk, dirOn, tree, hashed, index, notes, pending, batch, work, sweep, state,
                     passed, excused, skewed>>
  BY DEF Push, Hand, env, kept, wait, life, past
<1>3. ASSUME Watched', NEW p \in Paths, Awaited(p) PROVE Awaited(p)'
  <2>1. \A g : In(g, queue') <=> g = hand.path \/ In(g, queue)
    BY <1>1, <1>2, <1>3, Appended DEF Watched
  <2> QED
    BY <1>2, <1>3, <2>1 DEF Awaited, In, HandAt, SweepAt
<1>4. HandFits(hand') /\ hand'.at = "rest"
  BY <1>2, RestIs DEF HandFits
<1> QED
  BY <1>1, <1>2, <1>3, <1>4, HandIdle

LEMMA HandLeavesKept ==
    ASSUME IInv, HandLeaves
    PROVE  Fine'
<1>1. hand = Rest /\ hand' = [Rest EXCEPT !.at = "gone"]
      /\ UNCHANGED <<disk, dirOn, tree, hashed, index, work, sweep, state, passed,
                     excused, skewed>>
  BY DEF HandLeaves, Hand, env, kept, life, past
<1>2. ~Watched'
  BY <1>1 DEF HandLeaves, Watched
<1>3. HandFits(hand') /\ hand'.at = "gone" /\ hand.at = "rest"
  BY <1>1, RestIs DEF HandFits
<1> QED
  BY <1>1, <1>2, <1>3, HandIdle

LEMMA LookDirKept ==
    ASSUME IInv, LookDir
    PROVE  Fine'
<1>1. Data /\ Placed /\ Emptied /\ Ranked /\ TreeFollows /\ IndexFollows
  BY Typed DEF IInv, Shape
<1>2. /\ hand = Rest /\ batch' = batch \ {Dir}
      /\ UNCHANGED <<disk, dirOn, tree, hashed, index, notes, pending, queue, work, sweep, state,
                     excused, skewed>>
  BY DEF LookDir, Takes, env, jobs, life
<1>3. "hand" \in Actors /\ Moves("hand") /\ \A p \in Files : Awaited(p) => Awaited(p)'
  BY <1>2, Constants, RestIs, HandStep DEF HandAt
<1>4. CASE dirOn
  <2>1. hand' = Rest /\ passed' = passed
    BY <1>4 DEF LookDir, Hand
  <2>2. HandFits(hand') /\ hand'.at = "rest" /\ hand.at = "rest"
    BY <1>2, <2>1, RestIs DEF HandFits
  <2>3. \A p \in Paths : Awaited(p) => (p = Dir /\ dirOn) \/ Awaited(p)'
    BY <1>3, <1>4, Constants
  <2> QED
    BY <1>2, <2>1, <2>2, <2>3, HandIdle
<1>5. CASE ~dirOn
  <2>1. hand' = (IF dirIn THEN At("folder", Dir, 0) ELSE Rest) /\ Overtake(Inside, "hand")
    BY <1>5 DEF LookDir, Hand
  <2>2. (dirIn => hand'.at = "folder") /\ (~dirIn => hand'.at = "rest")
    BY <2>1, RestIs DEF At
  <2>3. \A g \in Files : /\ ~Holds("hand", g) /\ ~Writing("hand", g) /\ ~Owes("hand", g)
                         /\ ~Detached(g) /\ ~Detached(g)' /\ ~Owes("hand", g)'
                         /\ Holds("hand", g)' <=> g \in Inside /\ dirIn
                         /\ Writing("hand", g)' <=> g \in Inside /\ dirIn
                         /\ Seen("hand", g)' = 0
    BY <1>2, <2>2, RestIs, HandIs DEF Detached, HandAt
  <2>4. Looks("hand", Inside) /\ Inside \in SUBSET Files
    BY <1>3, <2>1, <2>3, Constants DEF Looks
  <2>5. \A m \in Actors : \A g \in Files : Latest(m, g)' => Latest(m, g)
    BY <1>1, <1>3, <2>4, LatestLooks
  <2>6. Ranked'
    BY <1>1, <1>3, <2>4, RankedKept
  <2>7. TreeFollows'
    <3>1. \A g \in Inside : disk[g] = 0 /\ (~dirIn => tree[g] = 0)
      BY <1>1, <1>5 DEF Emptied
    <3>2. Watched' => Watched
      BY <1>2 DEF Watched
    <3> QED
      BY <1>1, <1>2, <1>3, <2>3, <2>4, <3>1, <3>2, FollowsLooked
  <2>8. IndexFollows'
    BY <1>1, <1>2, <1>3, <2>3, <2>5, IndexUntouched DEF Hash
  <2> QED
    BY <2>6, <2>7, <2>8 DEF Fine
<1> QED
  BY <1>4, <1>5

LEMMA LookFileKept ==
    ASSUME IInv, NEW f \in Files, LookFile(f)
    PROVE  Fine'
<1>1. Data /\ Placed /\ Marked /\ Ranked /\ TreeFollows /\ IndexFollows
  BY Typed DEF IInv, Shape
<1>2. /\ hand = Rest /\ batch' = batch \ {f}
      /\ UNCHANGED <<disk, dirOn, tree, hashed, index, notes, pending, queue, work, sweep, state,
                     excused, skewed>>
  BY DEF LookFile, Takes, env, kept, life
<1>3. "hand" \in Actors /\ Moves("hand") /\ \A p \in Paths : Awaited(p) => p = f \/ Awaited(p)'
  BY <1>2, RestIs, HandStep DEF HandAt
<1>4. CASE disk[f] # 0
  <2>1. hand' = (IF f \in queued THEN Rest ELSE At("push", f, 0)) /\ passed' = passed
    BY <1>4 DEF LookFile, Hand
  <2>2. /\ f \in queued => hand'.at = "rest"
        /\ f \notin queued => hand'.at = "push" /\ hand'.path = f
    BY <2>1, RestIs DEF At
  <2>3. HandFits(hand') /\ hand'.at \in {"rest", "push"} /\ hand.at = "rest"
    BY <1>2, <2>2, RestIs DEF HandFits
  <2>4. Awaited(f)'
    <3>1. CASE f \in queued
      <4>1. InQueue(f)
        BY <1>1, <1>2, <3>1, RestIs DEF Marked, HandAt
      <4> QED
        BY <4>1, <1>2 DEF Awaited, InQueue, In
    <3>2. CASE f \notin queued
      BY <2>2, <3>2 DEF Awaited, HandAt
    <3> QED
      BY <3>1, <3>2
  <2> QED
    BY <1>2, <1>3, <2>1, <2>3, <2>4, HandIdle
<1>5. CASE disk[f] = 0
  <2>1. hand' = At("file", f, 0) /\ Overtake({f}, "hand")
    BY <1>5 DEF LookFile, Hand
  <2>2. hand'.at = "file" /\ hand'.path = f
    BY <2>1 DEF At
  <2>3. \A g \in Files : /\ ~Holds("hand", g) /\ ~Writing("hand", g) /\ ~Owes("hand", g)
                         /\ ~Detached(g) /\ ~Detached(g)' /\ ~Owes("hand", g)'
                         /\ Holds("hand", g)' <=> g = f
                         /\ Writing("hand", g)' <=> g = f
                         /\ Seen("hand", g)' = 0
    BY <1>2, <2>2, RestIs, HandIs DEF Detached, HandAt
  <2>4. Looks("hand", {f}) /\ {f} \in SUBSET Files
    BY <1>3, <2>1, <2>3 DEF Looks
  <2>5. \A m \in Actors : \A g \in Files : Latest(m, g)' => Latest(m, g)
    BY <1>1, <1>3, <2>4, LatestLooks
  <2>6. Ranked'
    BY <1>1, <1>3, <2>4, RankedKept
  <2>7. TreeFollows'
    <3>1. Watched' => Watched
      BY <1>2 DEF Watched
    <3>2. Awaited(Dir) => Awaited(Dir)'
      BY <1>3, Constants
    <3>3. \A p \in Files : Awaited(p) => p \in {f} \/ Awaited(p)'
      BY <1>3, Constants
    <3> QED
      BY <1>1, <1>2, <1>3, <1>5, <2>3, <2>4, <3>1, <3>2, <3>3, FollowsLooked
  <2>8. IndexFollows'
    BY <1>1, <1>2, <1>3, <2>3, <2>5, IndexUntouched DEF Hash
  <2> QED
    BY <2>6, <2>7, <2>8 DEF Fine
<1> QED
  BY <1>4, <1>5

LEMMA RemoveFileKept ==
    ASSUME IInv, RemoveFile
    PROVE  Fine'
<1>0. PICK p : p = hand.path
  OBVIOUS
<1>1. Data /\ Placed /\ Ranked /\ TreeFollows /\ IndexFollows
  BY Typed DEF IInv, Shape
<1>2. /\ hand.at = "file" /\ p \in Files
      /\ hand' = IF tree[p] > 0 THEN At("index", p, 0) ELSE Rest
      /\ tree' = [tree EXCEPT ![p] = 0] /\ hashed' = hashed \ {p}
      /\ IF tree[p] > 0 THEN passed' = passed ELSE Done("hand")
      /\ excused' = excused \cup Late({p}, "hand") /\ skewed' = skewed \cup Late({p}, "hand")
      /\ UNCHANGED <<disk, dirOn, index, notes, pending, batch, queue, work, sweep, state>>
  BY <1>0, <1>1 DEF RemoveFile, Drop, Hand, HandAt, Placed, HandFits, ToTree, env, wait, jobs, life
<1>3. /\ tree[p] > 0 => hand'.path = p /\ hand'.at = "index"
      /\ ~(tree[p] > 0) => hand'.at = "rest"
  BY <1>2, RestIs DEF At
<1>4. "hand" \in Actors /\ Moves("hand") /\ \A q \in Paths : Awaited(q) => Awaited(q)'
  BY <1>2, HandStep DEF HandAt
<1>5. \A g \in Files : /\ Holds("hand", g) <=> g = p
                       /\ Writing("hand", g) <=> g = p
                       /\ Seen("hand", g) = 0
                       /\ ~Owes("hand", g) /\ ~Writing("hand", g)'
                       /\ Holds("hand", g)' <=> g = p /\ tree[p] > 0
                       /\ Owes("hand", g)' <=> g = p /\ tree[p] > 0
                       /\ ~Detached(g) /\ ~Detached(g)'
  BY <1>0, <1>2, <1>3, HandIs DEF Detached, HandAt
<1>6. (tree[p] > 0 => Goes("hand")) /\ (~(tree[p] > 0) => Ends("hand"))
  BY <1>2, <1>4, <1>5 DEF Goes, Ends
<1>7. /\ \A g \in Files : tree'[g] = IF g = p THEN 0 ELSE tree[g]
      /\ \A g \in Files \ {p} : Hash(g)' = Hash(g)
      /\ Hash(p)' = 0
      /\ ~(tree[p] > 0) => Hash(p) = 0
  <2>1. \A g \in Files : tree'[g] = IF g = p THEN 0 ELSE tree[g]
    BY <1>1, <1>2 DEF Data
  <2>2. p \notin hashed' /\ \A g \in Files \ {p} : g \in hashed' <=> g \in hashed
    BY <1>2
  <2>3. ~(tree[p] > 0) => tree[p] = 0
    BY <1>1, <1>2, Constants DEF Data, Writes
  <2> QED
    BY <2>1, <2>2, <2>3 DEF Hash
<1>8. Ranked'
  BY <1>1, <1>4, <1>6, RankedKept
<1>9. TreeFollows'
  <2>1. Watched' => Watched
    BY <1>2 DEF Watched
  <2>2. {p} \in SUBSET Files /\ \A g \in Files : g \in {p} <=> g = p
    BY <1>2
  <2> QED
    BY <1>1, <1>2, <1>4, <1>5, <1>6, <1>7, <2>1, <2>2, FollowsWritten
<1>10. CASE tree[p] > 0
  <2>1. Owed("hand")' = Hash(p)'
    BY <1>7, HandIs
  <2>2. IndexFollows'
    BY <1>1, <1>2, <1>4, <1>5, <1>6, <1>7, <1>10, <2>1, IndexOwed
  <2> QED
    BY <1>8, <1>9, <2>2 DEF Fine
<1>11. CASE ~(tree[p] > 0)
  <2>1. \A g \in Files : Hash(g)' = Hash(g)
    BY <1>7, <1>11
  <2>2. \A m \in Actors : \A g \in Files : Holds(m, g) /\ Holds(m, g)' /\ Latest(m, g)' => Latest(m, g)
    BY <1>4, <1>5, <1>6, <1>11, LatestEnds
  <2>3. IndexFollows'
    BY <1>1, <1>2, <1>4, <1>5, <1>11, <2>1, <2>2, IndexUntouched
  <2> QED
    BY <1>8, <1>9, <2>3 DEF Fine
<1> QED
  BY <1>10, <1>11

LEMMA RemoveFileFromIndexKept ==
    ASSUME IInv, RemoveFileFromIndex
    PROVE  Fine'
<1>0. PICK p : p = hand.path
  OBVIOUS
<1>1. Data /\ Placed /\ Ranked /\ TreeFollows /\ IndexFollows
  BY Typed DEF IInv, Shape
<1>2. /\ hand.at = "index" /\ p \in Files /\ hand' = Rest /\ Done("hand")
      /\ index' = [index EXCEPT ![p] = 0]
      /\ excused' = excused \cup Late({p}, "hand")
      /\ skewed' = skewed \cup IF SweepAt("rebuild") THEN {p} ELSE Late({p}, "hand")
      /\ UNCHANGED <<disk, dirOn, tree, hashed, notes, pending, batch, queue, work, sweep, state>>
  BY <1>0, <1>1 DEF RemoveFileFromIndex, Hand, HandAt, Placed, HandFits, ToIndex, env, wait, jobs, life
<1>3. "hand" \in Actors /\ Moves("hand") /\ \A q \in Paths : Awaited(q) => Awaited(q)'
  BY <1>2, HandStep DEF HandAt
<1>4. \A g \in Files : /\ Owes("hand", g) <=> g = p
                       /\ ~Writing("hand", g) /\ ~Writing("hand", g)' /\ ~Holds("hand", g)'
                       /\ ~Detached(g) /\ ~Detached(g)'
  BY <1>0, <1>2, RestIs, HandIs DEF Detached, HandAt
<1>5. Ends("hand")
  BY <1>2, <1>3, <1>4 DEF Ends
<1>6. \A m \in Actors \ {"hand"} : \A g \in Files : Latest(m, g)' <=> Latest(m, g)
  BY <1>3, <1>5, LatestEnds
<1>7. Ranked'
  BY <1>1, <1>3, <1>5, RankedKept
<1>8. TreeFollows'
  <2>1. Watched' => Watched
    BY <1>2 DEF Watched
  <2> QED
    BY <1>1, <1>2, <1>3, <1>4, <1>6, <2>1, FollowsUntouched
<1>9. IndexFollows'
  <2>1. \A g \in Files : index'[g] = IF g = p THEN Owed("hand") ELSE index[g]
    BY <1>1, <1>2, HandIs DEF Data
  <2> QED
    BY <1>1, <1>2, <1>3, <1>4, <1>5, <2>1, IndexPaid DEF Hash
<1> QED
  BY <1>7, <1>8, <1>9 DEF Fine

LEMMA RemoveDirFromIndexKept ==
    ASSUME IInv, RemoveDirFromIndex
    PROVE  Fine'
<1>1. Data /\ Placed /\ Ranked /\ TreeFollows /\ IndexFollows
  BY Typed DEF IInv, Shape
<1>2. /\ hand.at = "folder" /\ hand'.at = "detach" /\ index' = Without(index)
      /\ excused' = excused \cup Late(Inside, "hand")
      /\ skewed' = skewed \cup IF SweepAt("rebuild") THEN Inside ELSE Late(Inside, "hand")
      /\ UNCHANGED <<disk, dirOn, tree, hashed, notes, pending, batch, queue, work, sweep, state,
                     passed>>
  BY DEF RemoveDirFromIndex, Hand, HandAt, At, ToIndex, env, wait, jobs, life
<1>3. "hand" \in Actors /\ Moves("hand") /\ \A q \in Paths : Awaited(q) => Awaited(q)'
  BY <1>2, HandStep DEF HandAt
<1>4. \A g \in Files : /\ Holds("hand", g) <=> g \in Inside
                       /\ Holds("hand", g)' <=> g \in Inside
                       /\ Writing("hand", g) <=> g \in Inside
                       /\ Writing("hand", g)' <=> g \in Inside
                       /\ Seen("hand", g)' = Seen("hand", g)
                       /\ ~Owes("hand", g) /\ ~Owes("hand", g)'
                       /\ ~Detached(g) /\ (Detached(g)' <=> g \in Inside)
  BY <1>2, HandIs DEF Detached, HandAt
<1>5. Goes("hand")
  BY <1>2, <1>3, <1>4 DEF Goes
<1>6. \A m \in Actors : \A g \in Files : Latest(m, g)' <=> Latest(m, g)
  BY <1>3, <1>5, LatestGoes
<1>7. Ranked'
  BY <1>1, <1>3, <1>5, RankedKept
<1>8. TreeFollows'
  <2>1. Watched' => Watched
    BY <1>2 DEF Watched
  <2> QED
    BY <1>1, <1>2, <1>3, <1>4, <1>6, <2>1, FollowsUntouched
<1>9. IndexFollows'
  <2>1. SUFFICES ASSUME NEW g \in Files \ skewed' PROVE Matched(g)'
    BY DEF IndexFollows
  <2>2. Matched(g) /\ Hash(g)' = Hash(g)
    BY <1>1, <1>2, <2>1 DEF IndexFollows, Hash
  <2>3. CASE g \in Inside
    <3>1. Latest("hand", g) /\ ~SweepAt("rebuild") /\ index'[g] = 0
      BY <1>2, <2>1, <2>3 DEF Late, Latest, Without
    <3>2. \A m \in Actors : Owes(m, g)' => ~Latest(m, g)'
      <4>1. \A m \in Actors \ {"hand"} : Holds(m, g) => ~Latest(m, g)
        BY <1>1, <1>3, <1>4, <2>3, <3>1 DEF Ranked
      <4>2. \A m \in Actors \ {"hand"} : Owes(m, g)' => Holds(m, g)
        BY <1>3, OthersStay DEF Owes
      <4> QED
        BY <4>1, <4>2, <1>4, <1>6
    <3> QED
      BY <1>2, <1>4, <2>3, <3>1, <3>2 DEF Matched, SweepAt
  <2>4. CASE g \notin Inside
    <3>1. index'[g] = index[g]
      BY <1>2, <2>4 DEF Without
    <3> QED
      BY <1>2, <1>3, <1>4, <1>6, <2>2, <2>4, <3>1, MatchedStays
  <2> QED
    BY <2>3, <2>4
<1> QED
  BY <1>7, <1>8, <1>9 DEF Fine

LEMMA RemoveDirKept ==
    ASSUME IInv, RemoveDir
    PROVE  Fine'
<1>1. Data /\ Placed /\ Ranked /\ TreeFollows /\ IndexFollows
  BY Typed DEF IInv, Shape
<1>2. /\ hand.at = "detach" /\ hand' = Rest /\ Done("hand")
      /\ tree' = Without(tree) /\ hashed' = hashed \ Inside
      /\ excused' = excused \cup Late(Inside, "hand")
      /\ skewed' = skewed \cup IF SweepAt("rebuild") THEN Inside ELSE Late(Inside, "hand")
      /\ UNCHANGED <<disk, dirOn, index, notes, pending, batch, queue, work, sweep, state>>
  BY DEF RemoveDir, Hand, HandAt, ToIndex, env, wait, jobs, life
<1>3. "hand" \in Actors /\ Moves("hand") /\ \A q \in Paths : Awaited(q) => Awaited(q)'
  BY <1>2, HandStep DEF HandAt
<1>4. \A g \in Files : /\ Holds("hand", g) <=> g \in Inside
                       /\ Writing("hand", g) <=> g \in Inside
                       /\ Seen("hand", g) = 0
                       /\ ~Holds("hand", g)' /\ ~Writing("hand", g)'
                       /\ ~Owes("hand", g) /\ ~Owes("hand", g)'
                       /\ (Detached(g) <=> g \in Inside) /\ ~Detached(g)'
  BY <1>2, RestIs, HandIs DEF Detached, HandAt
<1>5. Ends("hand")
  BY <1>2, <1>3, <1>4 DEF Ends
<1>6. \A m \in Actors : \A g \in Files : Latest(m, g)' <=> m = "hand" \/ Latest(m, g)
  BY <1>3, <1>5, LatestEnds
<1>7. Ranked'
  BY <1>1, <1>3, <1>5, RankedKept
<1>8. \A g \in Files : tree'[g] = IF g \in Inside THEN 0 ELSE tree[g]
  BY <1>2 DEF Without
<1>9. TreeFollows'
  <2>1. Watched' => Watched
    BY <1>2 DEF Watched
  <2>2. Inside \in SUBSET Files
    BY Constants
  <2> QED
    BY <1>1, <1>2, <1>3, <1>4, <1>5, <1>8, <2>1, <2>2, FollowsWritten
<1>10. IndexFollows'
  <2>1. SUFFICES ASSUME NEW g \in Files \ skewed' PROVE Matched(g)'
    BY DEF IndexFollows
  <2>2. Matched(g)
    BY <1>1, <1>2, <2>1 DEF IndexFollows
  <2>3. CASE g \in Inside
    <3>1. Latest("hand", g) /\ ~SweepAt("rebuild")
      BY <1>2, <2>1, <2>3 DEF Late, Latest
    <3>2. Hash(g)' = 0 /\ (SweepAt("rest") => index[g] = 0)
      BY <1>2, <1>4, <2>2, <2>3, <3>1 DEF Hash, Matched
    <3>3. \A m \in Actors : Owes(m, g)' => ~Latest(m, g)'
      <4>1. \A m \in Actors \ {"hand"} : Holds(m, g) => ~Latest(m, g)
        BY <1>1, <1>3, <1>4, <2>3, <3>1 DEF Ranked
      <4>2. \A m \in Actors \ {"hand"} : Owes(m, g)' => Holds(m, g)
        BY <1>3, OthersStay DEF Owes
      <4> QED
        BY <4>1, <4>2, <1>4, <1>6
    <3> QED
      BY <1>2, <1>4, <3>1, <3>2, <3>3 DEF Matched, SweepAt
  <2>4. CASE g \notin Inside
    <3>1. Hash(g)' = Hash(g)
      BY <1>2, <1>8, <2>4 DEF Hash
    <3> QED
      BY <1>2, <1>3, <1>4, <1>6, <2>2, <2>4, <3>1, MatchedStays
  <2> QED
    BY <2>3, <2>4
<1> QED
  BY <1>7, <1>9, <1>10 DEF Fine

-----------------------------------------------------------------------------
\* The re-scan.
LEMMA SweepStep ==
    ASSUME work' = work, hand' = hand
    PROVE  /\ "sweep" \in Actors /\ Moves("sweep")
           /\ \A g \in Files : Detached(g)' <=> Detached(g)
           /\ \A p : /\ Awaited(p)
                     /\ UNCHANGED <<notes, pending, batch, queue>>
                     /\ sweep.at = "root" => p \notin Files
                     /\ sweep.at \in {"setRoot", "dir"} => p \notin Inside
                     => Awaited(p)'
<1>1. "sweep" \in Actors /\ Moves("sweep") /\ \A g \in Files : Detached(g)' <=> Detached(g)
  BY Constants DEF Actors, Moves, Detached, HandAt
<1>2. ASSUME NEW p, Awaited(p), UNCHANGED <<notes, pending, batch, queue>>,
             sweep.at = "root" => p \notin Files,
             sweep.at \in {"setRoot", "dir"} => p \notin Inside
      PROVE  Awaited(p)'
  BY <1>2 DEF Awaited, SweepAt, HandAt
<1> QED
  BY <1>1, <1>2

LEMMA SweepReadKept ==
    ASSUME IInv, NEW at, NEW fs, NEW to, SweepRead(at, fs, to),
           \/ at = "root" /\ fs = Outside /\ to = "setRoot"
           \/ at = "dir" /\ fs = Inside /\ to = "setDir"
    PROVE  Fine'
<1>1. Data /\ Goers /\ Placed /\ Ranked /\ TreeFollows /\ IndexFollows
  BY Typed DEF IInv, Shape
<1>2. /\ sweep.at = at /\ sweep' = [sweep EXCEPT !.at = to, !.got = Read(fs)]
      /\ Overtake(fs, "sweep") /\ excused' = excused \ fs
      /\ UNCHANGED <<disk, dirOn, tree, hashed, index, notes, pending, batch, hand, queue, work,
                     state, skewed>>
  BY DEF SweepRead, SweepAt, SweepTo, env, kept, wait, jobs, life
<1>3. sweep'.at = to /\ sweep'.got = Read(fs)
  <2>1. PICK got \in [Files -> Writes] : got = Read(fs)
    BY <1>1, Constants DEF Read, Data
  <2>2. sweep \in Sweeps /\ to \in SweepPlaces /\ sweep' = [sweep EXCEPT !.at = to, !.got = got]
    BY <1>1, <1>2, <2>1 DEF Goers, SweepPlaces
  <2> QED
    BY <2>1, <2>2 DEF Sweeps, SweepPlaces
<1>4. "sweep" \in Actors /\ Moves("sweep") /\ \A g \in Files : Detached(g)' <=> Detached(g)
  BY <1>2, SweepStep
<1>5. \A g \in Files : /\ ~Holds("sweep", g) /\ ~Writing("sweep", g)
                       /\ Holds("sweep", g)' <=> g \in fs
                       /\ Writing("sweep", g)' <=> g \in fs
                       /\ g \in fs => Seen("sweep", g)' = disk[g]
                       /\ ~Owes("sweep", g) /\ ~Owes("sweep", g)'
  BY <1>2, <1>3, SweepIs, Constants, ZenonT(40) DEF Read
<1>6. Looks("sweep", fs) /\ fs \in SUBSET Files
  BY <1>2, <1>4, <1>5, Constants DEF Looks
<1>7. \A m \in Actors : \A g \in Files : Latest(m, g)' => Latest(m, g)
  BY <1>1, <1>4, <1>6, LatestLooks
<1>8. Ranked'
  BY <1>1, <1>4, <1>6, RankedKept
<1>9. TreeFollows'
  <2>1. Watched' => Watched
    BY <1>2 DEF Watched
  <2>2. Awaited(Dir) => Awaited(Dir)'
    BY <1>2, Constants, SweepStep
  <2>3. ASSUME NEW p \in Files, Awaited(p) PROVE p \in fs \/ Awaited(p)'
    <3>1. CASE at = "root" /\ p \in Inside
      BY <3>1, <1>2, <1>3 DEF Awaited
    <3>2. CASE ~(at = "root" /\ p \in Inside) /\ p \notin fs
      BY <2>3, <3>2, <1>2, Constants, SweepStep
    <3> QED
      BY <3>1, <3>2
  <2> QED
    BY <1>1, <1>2, <1>4, <1>5, <1>6, <2>1, <2>2, <2>3, FollowsLooked
<1>10. IndexFollows'
  BY <1>1, <1>2, <1>3, <1>4, <1>5, <1>7, IndexUntouched DEF Hash
<1> QED
  BY <1>8, <1>9, <1>10 DEF Fine

LEMMA SweepSetKept ==
    ASSUME IInv, NEW at, NEW fs, NEW to, SweepSet(at, fs, to),
           \/ at = "setRoot" /\ fs = Outside /\ to = "dir"
           \/ at = "setDir" /\ fs = Inside /\ to = "collect"
    PROVE  Fine'
<1>1. Data /\ Goers /\ Placed /\ Ranked /\ TreeFollows /\ IndexFollows
  BY Typed DEF IInv, Shape
<1>2. /\ sweep.at = at /\ sweep' = [sweep EXCEPT !.at = to, !.got = None]
      /\ Done("sweep")
      /\ tree' = [f \in Files |-> IF f \in fs THEN sweep.got[f] ELSE tree[f]]
      /\ hashed' = (hashed \ fs) \cup
                 {f \in fs : sweep.got[f] > 0 /\ sweep.got[f] = sweep.reuse[f]}
      /\ excused' = excused \cup Late(fs, "sweep") /\ skewed' = skewed \cup Late(fs, "sweep")
      /\ UNCHANGED <<disk, dirOn, index, notes, pending, batch, hand, queue, work, state>>
  BY DEF SweepSet, SweepAt, SweepTo, ToTree, env, wait, jobs, life
<1>3. sweep'.at = to
  <2>1. sweep \in Sweeps /\ to \in SweepPlaces /\ None \in [Files -> Writes]
    BY <1>1, Constants DEF Goers, SweepPlaces
  <2>2. sweep' = [sweep EXCEPT !.at = to, !.got = None]
    BY <1>2
  <2> QED
    BY <2>1, <2>2 DEF Sweeps, SweepPlaces
<1>4. "sweep" \in Actors /\ Moves("sweep") /\ \A g \in Files : Detached(g)' <=> Detached(g)
  BY <1>2, SweepStep
<1>5. \A g \in Files : /\ Holds("sweep", g) <=> g \in fs
                       /\ Writing("sweep", g) <=> g \in fs
                       /\ Seen("sweep", g) = sweep.got[g]
                       /\ ~Holds("sweep", g)' /\ ~Writing("sweep", g)'
                       /\ ~Owes("sweep", g) /\ ~Owes("sweep", g)'
  BY <1>2, <1>3, SweepIs
<1>6. Ends("sweep") /\ fs \in SUBSET Files
  BY <1>2, <1>4, <1>5, Constants DEF Ends
<1>7. \A m \in Actors : \A g \in Files : Latest(m, g)' <=> m = "sweep" \/ Latest(m, g)
  BY <1>4, <1>6, LatestEnds
<1>8. Ranked'
  BY <1>1, <1>4, <1>6, RankedKept
<1>9. TreeFollows'
  <2>1. Watched' => Watched
    BY <1>2 DEF Watched
  <2>2. ASSUME NEW p \in Paths, Awaited(p) PROVE Awaited(p)'
    <3>1. CASE at = "setRoot" /\ p \in Inside
      BY <3>1, <1>3 DEF Awaited
    <3>2. CASE ~(at = "setRoot" /\ p \in Inside)
      BY <2>2, <3>2, <1>2, SweepStep
    <3> QED
      BY <3>1, <3>2
  <2>3. \A g \in Files : tree'[g] = IF g \in fs THEN Seen("sweep", g) ELSE tree[g]
    BY <1>2, <1>5
  <2> QED
    BY <1>1, <1>2, <1>4, <1>5, <1>6, <2>1, <2>2, <2>3, FollowsWritten
<1>10. IndexFollows'
  <2>1. SUFFICES ASSUME NEW g \in Files \ skewed' PROVE Matched(g)'
    BY DEF IndexFollows
  <2>2. Matched(g)
    BY <1>1, <1>2, <2>1 DEF IndexFollows
  <2>3. CASE g \in fs
    <3>1. Latest("sweep", g)
      BY <1>2, <2>1, <2>3 DEF Late, Latest
    <3>2. \A m \in Actors : Owes(m, g)' => ~Latest(m, g)'
      <4>1. \A m \in Actors \ {"sweep"} : Holds(m, g) => ~Latest(m, g)
        BY <1>1, <1>4, <1>5, <2>3, <3>1 DEF Ranked
      <4>2. \A m \in Actors \ {"sweep"} : Owes(m, g)' => Holds(m, g)
        BY <1>4, OthersStay DEF Owes
      <4> QED
        BY <4>1, <4>2, <1>5, <1>7
    <3>3. ~SweepAt("rest")' /\ ~SweepAt("rebuild")'
      BY <1>3 DEF SweepAt
    <3> QED
      BY <3>2, <3>3 DEF Matched
  <2>4. CASE g \notin fs
    <3>1. Hash(g)' = Hash(g)
      BY <1>2, <2>4 DEF Hash
    <3>2. "hand" \in Actors
      BY DEF Actors
    <3> QED
      BY <1>2, <1>3, <1>4, <1>5, <1>7, <2>2, <3>1, <3>2, Constants, MatchedStays
  <2> QED
    BY <2>3, <2>4
<1> QED
  BY <1>8, <1>9, <1>10 DEF Fine

LEMMA SweepNoDirKept ==
    ASSUME IInv, SweepNoDir
    PROVE  Fine'
<1>1. Goers /\ Placed /\ Ranked /\ TreeFollows /\ IndexFollows
  BY Typed DEF IInv, Shape
<1>2. /\ sweep.at = "dir" /\ sweep' = [sweep EXCEPT !.at = "collect", !.got = None]
      /\ excused' = excused \cup Inside
      /\ UNCHANGED <<disk, dirOn, tree, hashed, index, notes, pending, batch, hand, queue, work,
                     state, passed, skewed>>
  BY DEF SweepNoDir, SweepAt, SweepTo, env, kept, wait, jobs, life
<1>3. sweep'.at = "collect"
  BY <1>1, <1>2, Constants, SweepMoved DEF Goers, SweepPlaces
<1>4. "sweep" \in Actors /\ Moves("sweep") /\ \A g \in Files : Detached(g)' <=> Detached(g)
  BY <1>2, SweepStep
<1>5. \A g \in Files : /\ ~Holds("sweep", g) /\ ~Writing("sweep", g)
                       /\ ~Holds("sweep", g)' /\ ~Writing("sweep", g)'
                       /\ ~Owes("sweep", g) /\ ~Owes("sweep", g)'
  BY <1>2, <1>3, SweepIs
<1>6. Goes("sweep")
  BY <1>2, <1>4, <1>5 DEF Goes
<1>7. \A m \in Actors : \A g \in Files : Latest(m, g)' <=> Latest(m, g)
  BY <1>4, <1>6, LatestGoes
<1>8. Ranked'
  BY <1>1, <1>4, <1>6, RankedKept
<1>9. TreeFollows'
  <2>1. SUFFICES ASSUME Watched', NEW g \in Files \ excused' PROVE Foreseen(g)' \/ Right(g)'
    BY DEF TreeFollows
  <2>2. g \notin Inside /\ (Foreseen(g) \/ Right(g))
    BY <1>1, <1>2, <2>1 DEF TreeFollows, Watched
  <2>3. CASE Foreseen(g)
    BY <2>2, <2>3, <1>2, SweepStep DEF Foreseen
  <2>4. CASE Right(g)
    BY <2>4, <1>2, <1>4, <1>5, <1>7, RightStays
  <2> QED
    BY <2>2, <2>3, <2>4
<1>10. IndexFollows'
  BY <1>1, <1>2, <1>3, <1>4, <1>5, <1>7, IndexUntouched DEF Hash
<1> QED
  BY <1>8, <1>9, <1>10 DEF Fine

LEMMA SweepCollectKept ==
    ASSUME IInv, SweepCollect
    PROVE  Fine'
<1>1. Data /\ Goers /\ Placed /\ Ranked /\ TreeFollows /\ IndexFollows
  BY Typed DEF IInv, Shape
<1> DEFINE hashes == [f \in Files |-> IF f \in hashed THEN tree[f] ELSE 0]
<1>2. /\ sweep.at = "collect" /\ sweep' = [sweep EXCEPT !.at = "rebuild", !.got = hashes]
      /\ skewed' = {f \in skewed : Holding(f) # {}}
                   \cup IF HandAt("detach") THEN Inside ELSE {}
      /\ UNCHANGED <<disk, dirOn, tree, hashed, index, notes, pending, batch, hand, queue, work,
                     state, passed, excused>>
  BY DEF SweepCollect, SweepAt, SweepTo, env, kept, wait, jobs, life
<1>3. sweep'.at = "rebuild" /\ \A g \in Files : sweep'.got[g] = Hash(g)
  <2>1. PICK got \in [Files -> Writes] : got = hashes
    BY <1>1, Constants DEF Data
  <2>2. /\ sweep \in Sweeps /\ "rebuild" \in SweepPlaces
        /\ sweep' = [sweep EXCEPT !.at = "rebuild", !.got = got]
    BY <1>1, <1>2, <2>1 DEF Goers, SweepPlaces
  <2>3. sweep'.at = "rebuild" /\ sweep'.got = got
    BY <2>1, <2>2 DEF Sweeps, SweepPlaces
  <2> QED
    BY <2>1, <2>3 DEF Hash
<1> HIDE DEF hashes
<1>4. "sweep" \in Actors /\ Moves("sweep") /\ \A g \in Files : Detached(g)' <=> Detached(g)
  BY <1>2, SweepStep
<1>5. \A g \in Files : /\ ~Holds("sweep", g) /\ ~Writing("sweep", g)
                       /\ ~Holds("sweep", g)' /\ ~Writing("sweep", g)'
                       /\ ~Owes("sweep", g) /\ ~Owes("sweep", g)'
  BY <1>2, <1>3, SweepIs
<1>6. Goes("sweep")
  BY <1>2, <1>4, <1>5 DEF Goes
<1>7. \A m \in Actors : \A g \in Files : Latest(m, g)' <=> Latest(m, g)
  BY <1>4, <1>6, LatestGoes
<1>8. Ranked'
  BY <1>1, <1>4, <1>6, RankedKept
<1>9. TreeFollows'
  <2>1. \A p \in Paths : Awaited(p) => Awaited(p)'
    BY <1>2, SweepStep
  <2>2. Watched' => Watched
    BY <1>2 DEF Watched
  <2> QED
    BY <1>1, <1>2, <1>4, <1>5, <1>7, <2>1, <2>2, FollowsUntouched
<1>10. IndexFollows'
  <2>1. SUFFICES ASSUME NEW g \in Files \ skewed' PROVE Matched(g)'
    BY DEF IndexFollows
  <2>2. Hash(g)' = Hash(g) /\ ~Detached(g)'
    BY <1>2, <2>1 DEF Hash, Detached, HandAt
  <2>3. \A m \in Actors : (Owes(m, g)' <=> Owes(m, g)) /\ Owed(m)' = Owed(m)
    BY <1>4, <1>5, OthersStay, HandIs, Constants DEF Owed, Actors
  <2>4. \A m \in Actors : Owes(m, g) /\ Latest(m, g) => Owed(m) = Hash(g)
    <3>1. CASE g \in skewed
      <4>1. Holding(g) = {}
        BY <1>2, <2>1, <3>1
      <4> QED
        BY <4>1, <1>1, Holders DEF Owes
    <3>2. CASE g \notin skewed
      BY <1>1, <2>1, <3>2 DEF IndexFollows, Matched
    <3> QED
      BY <3>1, <3>2
  <2>5. ~SweepAt("rest")' /\ sweep'.got[g] = Hash(g)'
    BY <1>3, <2>2 DEF SweepAt
  <2> QED
    BY <1>7, <2>2, <2>3, <2>4, <2>5 DEF Matched
<1> QED
  BY <1>8, <1>9, <1>10 DEF Fine

LEMMA SweepRebuildKept ==
    ASSUME IInv, SweepRebuild
    PROVE  Fine'
<1>1. Data /\ Goers /\ Placed /\ Ranked /\ TreeFollows /\ IndexFollows
  BY Typed DEF IInv, Shape
<1>2. /\ sweep.at = "rebuild" /\ sweep' = NoSweep /\ index' = sweep.got
      /\ UNCHANGED <<disk, dirOn, tree, hashed, notes, pending, batch, hand, queue, work,
                     state, passed, excused, skewed>>
  BY DEF SweepRebuild, SweepAt, env, wait, jobs, life, past
<1>3. sweep'.at = "rest"
  BY <1>2, SweepMade
<1>4. "sweep" \in Actors /\ Moves("sweep") /\ \A g \in Files : Detached(g)' <=> Detached(g)
  BY <1>2, SweepStep
<1>5. \A g \in Files : /\ ~Holds("sweep", g) /\ ~Writing("sweep", g)
                       /\ ~Holds("sweep", g)' /\ ~Writing("sweep", g)'
                       /\ ~Owes("sweep", g) /\ ~Owes("sweep", g)'
  BY <1>2, <1>3, SweepIs
<1>6. Goes("sweep")
  BY <1>2, <1>4, <1>5 DEF Goes
<1>7. \A m \in Actors : \A g \in Files : Latest(m, g)' <=> Latest(m, g)
  BY <1>4, <1>6, LatestGoes
<1>8. Ranked'
  BY <1>1, <1>4, <1>6, RankedKept
<1>9. TreeFollows'
  <2>1. \A p \in Paths : Awaited(p) => Awaited(p)'
    BY <1>2, SweepStep
  <2>2. Watched' => Watched
    BY <1>2 DEF Watched
  <2> QED
    BY <1>1, <1>2, <1>4, <1>5, <1>7, <2>1, <2>2, FollowsUntouched
<1>10. IndexFollows'
  <2>1. SUFFICES ASSUME NEW g \in Files \ skewed' PROVE Matched(g)'
    BY DEF IndexFollows
  <2>2. Matched(g) /\ Hash(g)' = Hash(g)
    BY <1>1, <1>2, <2>1 DEF IndexFollows, Hash
  <2>3. \A m \in Actors : (Owes(m, g)' <=> Owes(m, g)) /\ Owed(m)' = Owed(m)
    BY <1>4, <1>5, OthersStay, HandIs, Constants DEF Owed, Actors
  <2>4. ~Detached(g) /\ ((\A m \in Actors : ~Owes(m, g)) => index'[g] = Hash(g))
    BY <1>2, <2>2 DEF Matched, SweepAt
  <2>5. ~SweepAt("rebuild")'
    BY <1>3 DEF SweepAt
  <2>6. \A m \in Actors : Owes(m, g) /\ Latest(m, g) => Owed(m) = Hash(g)
    BY <2>2 DEF Matched
  <2> QED
    BY <1>4, <1>7, <2>1, <2>2, <2>3, <2>4, <2>5, <2>6 DEF Matched
<1> QED
  BY <1>8, <1>9, <1>10 DEF Fine

LEMMA SweepCancelledKept ==
    ASSUME IInv, SweepCancelled
    PROVE  Fine'
<1>1. Placed /\ Ranked
  BY DEF IInv, Shape
<1>2. /\ sweep' = NoSweep /\ excused' = Files /\ skewed' = Files /\ Done("sweep")
      /\ UNCHANGED <<hand, work>>
  BY DEF SweepCancelled
<1>3. "sweep" \in Actors /\ Moves("sweep") /\ sweep'.at = "rest"
  BY <1>2, SweepStep, SweepMade
<1>4. Ends("sweep")
  BY <1>2, <1>3, SweepIs DEF Ends
<1>5. Ranked'
  BY <1>1, <1>3, <1>4, RankedKept
<1>6. TreeFollows' /\ IndexFollows'
  BY <1>2 DEF TreeFollows, IndexFollows
<1> QED
  BY <1>5, <1>6 DEF Fine

-----------------------------------------------------------------------------
\* The disk, the buffer of the system, and Stop.
LEMMA DiskKept ==
    ASSUME IInv, NEW ps, NEW unseen, Happens(ps, unseen),
           \A g \in Files : disk'[g] = disk[g] \/ g \in ps \cup unseen
                            \/ (g \in Inside /\ Dir \in ps /\ ~dirOn'),
           \A g \in Inside : Awaited(Dir) /\ ~dirOn => g \in unseen \/ ~dirOn'
    PROVE  Fine'
<1>1. Ranked /\ TreeFollows /\ IndexFollows /\ Placed
  BY DEF IInv, Shape
<1>2. /\ notes' = notes \cup ps /\ excused' = (excused \ ps) \cup unseen
      /\ UNCHANGED <<tree, hashed, index, pending, batch, hand, queue, work, sweep, state, passed,
                     skewed>>
  BY DEF Happens, kept, jobs
<1>3. /\ "hand" \in Actors /\ Moves("hand") /\ Goes("hand")
      /\ \A m \in Actors : \A g \in Files : Latest(m, g)' <=> Latest(m, g)
      /\ \A g \in Files : Detached(g)' <=> Detached(g)
      /\ \A g \in Files : /\ Writing("hand", g)' <=> Writing("hand", g)
                          /\ Seen("hand", g)' = Seen("hand", g)
                          /\ Owes("hand", g)' <=> Owes("hand", g)
                          /\ Owed("hand")' = Owed("hand")
  BY <1>2, Idle
<1>4. \A p : Awaited(p) \/ p \in ps => Awaited(p)'
  BY <1>2 DEF Awaited, HandAt, SweepAt
<1>5. Ranked'
  BY <1>1, <1>3, RankedKept
<1>6. TreeFollows'
  <2>1. SUFFICES ASSUME Watched', NEW g \in Files \ excused' PROVE Foreseen(g)' \/ Right(g)'
    BY DEF TreeFollows
  <2>2. CASE g \in ps
    BY <2>2, <1>4 DEF Foreseen
  <2>3. CASE g \notin ps
    <3>1. g \notin excused /\ g \notin unseen
      BY <1>2, <2>1, <2>3
    <3>2. Foreseen(g) \/ Right(g)
      BY <1>1, <1>2, <2>1, <3>1 DEF TreeFollows, Watched
    <3>3. CASE Foreseen(g)
      BY <3>1, <3>3, <1>4 DEF Foreseen
    <3>4. CASE Right(g) /\ disk'[g] = disk[g]
      BY <3>4, <1>2, <1>3, RightStays
    <3>5. CASE disk'[g] # disk[g]
      BY <2>3, <3>1, <3>5, <1>4 DEF Foreseen
    <3> QED
      BY <3>2, <3>3, <3>4, <3>5
  <2> QED
    BY <2>2, <2>3
<1>7. IndexFollows'
  BY <1>1, <1>2, <1>3, IndexUntouched DEF Hash
<1> QED
  BY <1>5, <1>6, <1>7 DEF Fine

LEMMA DiskChangesKept ==
    ASSUME IInv,
           \/ \E f \in Files : WriteFile(f) \/ DeleteFile(f)
           \/ MoveOut
           \/ \E fs \in SUBSET Inside : MoveIn(fs)
    PROVE  Fine'
<1>1. Data /\ Emptied
  BY Typed DEF IInv, Shape
<1>2. ASSUME NEW f \in Files, WriteFile(f) \/ DeleteFile(f) PROVE Fine'
  <2>1. Happens({f}, {}) /\ dirOn' = dirOn /\ \A g \in Files : g # f => disk'[g] = disk[g]
    BY <1>1, <1>2 DEF Data, WriteFile, DeleteFile
  <2> QED
    BY <2>1, DiskKept
<1>3. CASE MoveOut
  <2>1. Happens({Dir}, {}) /\ ~dirOn' /\ \A g \in Files : g \notin Inside => disk'[g] = disk[g]
    BY <1>3 DEF MoveOut
  <2> QED
    BY <2>1, DiskKept
<1>4. ASSUME NEW fs \in SUBSET Inside, MoveIn(fs) PROVE Fine'
  <2> DEFINE unseen == fs \cup (IF Awaited(Dir) THEN Inside ELSE {})
  <2>1. Happens({Dir}, unseen) /\ ~dirOn /\ \A g \in Files : g \notin fs => disk'[g] = disk[g]
    BY <1>4 DEF MoveIn
  <2>2. fs \subseteq unseen /\ (Awaited(Dir) => Inside \subseteq unseen)
    BY <1>4
  <2> HIDE DEF unseen
  <2> QED
    BY <2>1, <2>2, DiskKept
<1> QED
  BY <1>2, <1>3, <1>4

LEMMA OverflowKept ==
    ASSUME IInv, Overflow
    PROVE  Fine'
<1>1. Data /\ Ranked /\ TreeFollows /\ IndexFollows /\ Placed
  BY Typed DEF IInv, Shape
<1>2. UNCHANGED <<disk, dirOn, tree, hashed, index, pending, batch, hand, queue, work, state,
                  passed, skewed>>
  BY DEF Overflow, env, kept, jobs
<1>3. CASE SweepAt("rest") /\ sweep'.at = "root" /\ excused' = excused
  <2>1. "sweep" \in Actors /\ Moves("sweep") /\ \A g \in Files : Detached(g)' <=> Detached(g)
    BY <1>2, SweepStep
  <2>2. \A g \in Files : /\ ~Holds("sweep", g) /\ ~Owes("sweep", g)
                         /\ ~Holds("sweep", g)' /\ ~Owes("sweep", g)'
    BY <1>3, SweepIs DEF SweepAt
  <2>3. Goes("sweep")
    BY <1>2, <2>1, <2>2 DEF Goes
  <2>4. \A m \in Actors : \A g \in Files : Latest(m, g)' <=> Latest(m, g)
    BY <2>1, <2>3, LatestGoes
  <2>5. Ranked'
    BY <1>1, <2>1, <2>3, RankedKept
  <2>6. TreeFollows'
    BY <1>3 DEF TreeFollows, Foreseen, Awaited, SweepAt
  <2>7. IndexFollows'
    BY <1>1, <1>2, <1>3, <2>1, <2>2, <2>4, IndexUntouched DEF Hash
  <2> QED
    BY <2>5, <2>6, <2>7 DEF Fine
<1>4. CASE /\ sweep' = sweep
           /\ excused' = excused \cup (notes \cap Files) \cup (IF Dir \in notes THEN Inside ELSE {})
  <2>1. /\ "hand" \in Actors /\ Moves("hand") /\ Goes("hand")
        /\ \A m \in Actors : \A g \in Files : Latest(m, g)' <=> Latest(m, g)
        /\ \A g \in Files : Detached(g)' <=> Detached(g)
        /\ \A g \in Files : /\ Writing("hand", g)' <=> Writing("hand", g)
                            /\ Seen("hand", g)' = Seen("hand", g)
                            /\ Owes("hand", g)' <=> Owes("hand", g)
                            /\ Owed("hand")' = Owed("hand")
    BY <1>2, <1>4, Idle
  <2>2. \A p : Awaited(p) => p \in notes \/ Awaited(p)'
    BY <1>2, <1>4 DEF Awaited, HandAt, SweepAt
  <2>3. Ranked'
    BY <1>1, <2>1, RankedKept
  <2>4. TreeFollows'
    <3>1. SUFFICES ASSUME Watched', NEW g \in Files \ excused' PROVE Foreseen(g)' \/ Right(g)'
      BY DEF TreeFollows
    <3>2. Foreseen(g) \/ Right(g)
      BY <1>1, <1>2, <1>4, <3>1 DEF TreeFollows, Watched
    <3>3. g \notin notes /\ (g \in Inside => Dir \notin notes)
      BY <1>4, <3>1
    <3>4. CASE Foreseen(g)
      BY <1>2, <2>2, <3>3, <3>4 DEF Foreseen
    <3>5. CASE Right(g)
      BY <1>2, <2>1, <3>5, RightStays
    <3> QED
      BY <3>2, <3>4, <3>5
  <2>5. IndexFollows'
    BY <1>1, <1>2, <1>4, <2>1, IndexUntouched DEF Hash
  <2> QED
    BY <2>3, <2>4, <2>5 DEF Fine
<1> QED
  BY <1>3, <1>4 DEF Overflow

\* A step that moves a path from one waiting place to another, or ends the watch.
LEMMA StillKept ==
    ASSUME IInv,
           UNCHANGED <<disk, dirOn, tree, hashed, index, hand, work, sweep, passed, excused, skewed>>,
           Watched' => Watched /\ \A p \in Paths : Awaited(p) => Awaited(p)'
    PROVE  Fine'
<1>1. Ranked /\ TreeFollows /\ IndexFollows /\ Placed
  BY DEF IInv, Shape
<1>2. /\ "hand" \in Actors /\ Moves("hand") /\ Goes("hand")
      /\ \A m \in Actors : \A g \in Files : Latest(m, g)' <=> Latest(m, g)
      /\ \A g \in Files : Detached(g)' <=> Detached(g)
      /\ \A g \in Files : /\ Writing("hand", g)' <=> Writing("hand", g)
                          /\ Seen("hand", g)' = Seen("hand", g)
                          /\ Owes("hand", g)' <=> Owes("hand", g)
                          /\ Owed("hand")' = Owed("hand")
  BY Idle
<1>3. Ranked'
  BY <1>1, <1>2, RankedKept
<1>4. TreeFollows'
  BY <1>1, <1>2, FollowsUntouched
<1>5. IndexFollows'
  BY <1>1, <1>2, IndexUntouched DEF Hash
<1> QED
  BY <1>3, <1>4, <1>5 DEF Fine

LEMMA OthersKept ==
    ASSUME IInv, (\E p \in Paths : Notify(p)) \/ StopBegins \/ StopReturns \/ UNCHANGED vars
    PROVE  Fine'
<1> USE DEF env, kept, wait, jobs, past, life
<1>1. CASE \E p \in Paths : Notify(p)
  <2>1. PICK p \in Paths : Notify(p)
    BY <1>1
  <2>2. \A q : Awaited(q) => Awaited(q)'
    BY <2>1 DEF Notify, Awaited, HandAt, SweepAt
  <2> QED
    BY <2>1, <2>2, StillKept DEF Notify, Watched
<1>2. CASE StopBegins \/ StopReturns
  <2>1. ~Watched'
    BY <1>2 DEF StopBegins, StopReturns, Watched
  <2> QED
    BY <1>2, <2>1, StillKept DEF StopBegins, StopReturns
<1>3. CASE UNCHANGED vars
  <2>1. Watched' => Watched
    BY <1>3 DEF vars, Watched
  <2>2. \A q : Awaited(q) => Awaited(q)'
    BY <1>3 DEF vars, Awaited, HandAt, SweepAt
  <2> QED
    BY <1>3, <2>1, <2>2, StillKept DEF vars
<1> QED
  BY <1>1, <1>2, <1>3

-----------------------------------------------------------------------------
LEMMA Start == Init => IInv
<1> SUFFICES ASSUME Init PROVE IInv
  OBVIOUS
<1>1. PICK fs \in {{}, Files} : disk = [f \in Files |-> IF f \in fs THEN 1 ELSE 0]
  BY DEF Init
<1>2. Data /\ Waits /\ Goers /\ Pasts
  <2>1. Data
    <3>1. disk \in [Files -> Writes]
      BY <1>1, Constants
    <3> QED
      BY <3>1, Constants DEF Init, Data, Writes
  <2>2. Waits
    BY Constants DEF Init, Waits
  <2>3. Goers
    BY RestIs, SweepMade DEF Init, Goers
  <2>4. Pasts
    BY DEF Init, Pasts
  <2> QED
    BY <2>1, <2>2, <2>3, <2>4
<1>3. TypeOK
  BY <1>2 DEF TypeOK, Data, Waits, Goers, Pasts, Actors
<1>4. Placed
  BY RestIs DEF Init, Placed, HandFits, WorkerFits
<1>5. Emptied
  <2>1. \A f \in Files : disk[f] \in {0, 1}
    BY <1>1
  <2>2. \A f \in Files : ~(disk[f] > 0) => disk[f] = 0
    BY <2>1
  <2> QED
    BY <2>2, Constants DEF Init, Emptied
<1>6. Marked
  BY DEF Init, Marked
<1>7. \A m \in Actors : \A f \in Files : ~Holds(m, f) /\ ~Writing(m, f) /\ ~Owes(m, f) /\ Latest(m, f)
  BY RestIs, SweepMade DEF Init, Holds, Writing, Owes, Latest, SweepAt
<1>8. Ranked
  BY <1>7 DEF Ranked
<1>9. TreeFollows
  BY <1>7 DEF Init, TreeFollows, Right
<1>10. IndexFollows
  <2>1. \A f \in Files : disk[f] \in {0, 1}
    BY <1>1
  <2>2. \A f \in Files : Hash(f) = index[f]
    BY <2>1 DEF Init, Hash
  <2>3. ~HandAt("detach") /\ ~SweepAt("rebuild")
    BY RestIs, SweepMade DEF Init, HandAt, SweepAt
  <2> QED
    BY <1>7, <2>2, <2>3 DEF IndexFollows, Matched, Detached
<1> QED
  BY <1>3, <1>4, <1>5, <1>6, <1>8, <1>9, <1>10 DEF IInv, Shape

LEMMA Inductive == IInv /\ [Next]_vars => IInv'
<1> SUFFICES ASSUME IInv, [Next]_vars PROVE IInv'
  OBVIOUS
<1>1. Shape'
  BY ShapeKept DEF IInv
<1>2. Fine'
  <2>1. CASE DiskChanges
    BY <2>1, DiskChangesKept, OverflowKept DEF DiskChanges
  <2>2. CASE Coalesce
    BY <2>2, TickKept, LookDirKept, LookFileKept, RemoveFileKept, RemoveFileFromIndexKept,
       RemoveDirFromIndexKept, RemoveDirKept, PushKept, HandLeavesKept DEF Coalesce
  <2>3. CASE Rescan
    <3>1. CASE SweepRoot \/ SweepDir
      BY <3>1, SweepReadKept DEF SweepRoot, SweepDir
    <3>2. CASE SweepSetRoot \/ SweepSetDir
      BY <3>2, SweepSetKept DEF SweepSetRoot, SweepSetDir
    <3> QED
      BY <2>3, <3>1, <3>2, SweepNoDirKept, SweepCollectKept, SweepRebuildKept DEF Rescan
  <2>4. ASSUME NEW k \in Workers, Worker(k) \/ FileLocked(k) PROVE Fine'
    BY <2>4, TakeKept, WorkLookKept, ReplaceFileKept, UpsertFileKept, DropFileKept,
       WorkerLeavesKept, FileLockedKept DEF Worker
  <2>5. CASE SweepCancelled
    BY <2>5, SweepCancelledKept
  <2>6. CASE (\E p \in Paths : Notify(p)) \/ StopBegins \/ StopReturns \/ UNCHANGED vars
    BY <2>6, OthersKept
  <2> QED
    BY <2>1, <2>2, <2>3, <2>4, <2>5, <2>6 DEF Next
<1> QED
  BY <1>1, <1>2 DEF IInv, Fine

\* The inductive invariant of the watcher.
THEOREM InvariantHolds == Spec => []IInv
  BY Start, Inductive, PTL DEF Spec

\* Nobody waits for a settled file, and nobody holds it.
LEMMA Settled ==
    ASSUME Placed, NEW f \in Files, ~Outstanding(f)
    PROVE  ~Foreseen(f) /\ \A m \in Actors : ~Holds(m, f)
<1>1. ~Foreseen(f)
  BY DEF Outstanding, Foreseen
<1>2. \A k \in Workers : ~Holds(k, f)
  BY WorkerIs DEF Outstanding, Handled
<1>3. ~Holds("hand", f)
  BY HandIs DEF Outstanding, Handled
<1>4. ~Holds("sweep", f)
  BY SweepIs DEF Outstanding, Handled, SweepAt
<1> QED
  BY <1>1, <1>2, <1>3, <1>4 DEF Actors

\* While the watcher runs, a file that nobody has still to look at, and nobody
\* is still at work on, is in the tree as it is on disk, whatever the workers,
\* the coalescing goroutine and a re-scan did side by side: StaleIsAwaited of
\* Monitor, for any files, workers, queue and number of events.
THEOREM StaleIsAwaitedCorrect == Spec => []StaleIsAwaited
<1>1. IInv => StaleIsAwaited
  <2>1. SUFFICES ASSUME IInv, Watched, NEW f \in Files \ excused, ~Outstanding(f)
                 PROVE  tree[f] = disk[f]
    BY DEF StaleIsAwaited, IInv, Shape
  <2>2. ~Foreseen(f) /\ \A m \in Actors : ~Writing(m, f)
    BY <2>1, Settled DEF IInv, Shape, Writing
  <2>3. Right(f)
    BY <2>1, <2>2 DEF IInv, TreeFollows
  <2> QED
    BY <2>2, <2>3 DEF Right
<1> QED
  BY <1>1, InvariantHolds, PTL

\* The duplicate index has, of such a file, the hash the tree has, or none if
\* the tree has none: IndexFollowsTree of Monitor.
THEOREM IndexFollowsTreeCorrect == Spec => []IndexFollowsTree
<1>1. IInv => IndexFollowsTree
  <2>1. SUFFICES ASSUME IInv, SweepAt("rest"), NEW f \in Files \ skewed, ~Outstanding(f)
                 PROVE  index[f] = IF f \in hashed THEN tree[f] ELSE 0
    BY DEF IndexFollowsTree
  <2>2. \A m \in Actors : ~Holds(m, f)
    BY <2>1, Settled DEF IInv, Shape
  <2>3. (\A m \in Actors : ~Owes(m, f)) /\ ~Detached(f)
    BY <2>2, HandIs DEF Owes, Detached, HandAt, Actors
  <2> QED
    BY <2>1, <2>3 DEF IInv, IndexFollows, Matched, Hash
<1> QED
  BY <1>1, InvariantHolds, PTL

=============================================================================
