---------------------------- MODULE DirScanProofs ----------------------------
(***************************************************************************)
(* What holds of Phase 1 for every tree of directories, every list of      *)
(* roots and every number of workers: the types, the count of busy         *)
(* workers, the closing of the queue, and that a scan that answers "ok"    *)
(* left nothing out.                                                       *)
(***************************************************************************)
EXTENDS DirScan, TLAPS, FiniteSetTheorems

-----------------------------------------------------------------------------
\* Lemmas about the operators the model is built from.

\* Push appends to the queue or leaves it alone, and wakes workers only.
LEMMA PushType ==
    ASSUME TypeOK, NEW d \in Dirs, Push(d)
    PROVE  items' \in Seq(Dirs) /\ waiting' \subseteq Workers
  BY SMTT(40) DEF TypeOK, Push, Signal

\* What QueueDone does to the two fields a type is claimed of.
LEMMA QueueDoneType ==
    ASSUME TypeOK, QueueDone
    PROVE  activeWorkers' \in Nat /\ closed' \in BOOLEAN /\ waiting' \subseteq Workers
<1>1. activeWorkers' \in Nat /\ waiting' \subseteq Workers
  BY DEF TypeOK, QueueDone
<1>2. closed' = TRUE \/ closed' = closed
  BY Zenon DEF QueueDone
<1> QED
  BY <1>1, <1>2, Zenon DEF TypeOK

-----------------------------------------------------------------------------
\* Type correctness.  It needs to know that a busy worker holds a directory.
BusyHolds == \A w \in Workers : Busy(w) => dir[w] \in Dirs

TypeInv == TypeOK /\ BusyHolds

\* The queue starts empty and the pool off.
LEMMA TypeInit == Init => TypeInv
<1> SUFFICES ASSUME Init PROVE TypeInv
  OBVIOUS
<1>1. items \in Seq(Dirs)
  BY DEF Init
<1>2. /\ pc \in [Workers -> {"off", "loop", "pop", "begin", "walk", "done", "exit"}]
      /\ dir \in [Workers -> Dirs \cup {NoDir}]
      /\ todo \in [Workers -> SUBSET Dirs]
  BY DEF Init
<1>3. BusyHolds
  BY DEF Init, BusyHolds, Busy
<1> QED
  BY <1>1, <1>2, <1>3 DEF Init, TypeOK, TypeInv

\* No step of a worker, of StartScan or of a cancellation leaves the types.
LEMMA TypeStep == TypeInv /\ [Next]_vars => TypeInv'
<1> SUFFICES ASSUME TypeInv, [Next]_vars
             PROVE  TypeInv'
  OBVIOUS
<1> USE DirScanAssumption DEF TypeInv, BusyHolds, Busy
<1>1. ASSUME NEW w \in Workers, LoopTop(w)
      PROVE  TypeInv'
  BY <1>1 DEF TypeOK, LoopTop, queue, result
<1>2. ASSUME NEW w \in Workers, PopWait(w)
      PROVE  TypeInv'
  BY <1>2 DEF TypeOK, PopWait, workers, result
<1>3. ASSUME NEW w \in Workers, PopEnd(w)
      PROVE  TypeInv'
  BY <1>3 DEF TypeOK, PopEnd, queue, result
<1>4. ASSUME NEW w \in Workers, PopTake(w)
      PROVE  TypeInv'
  <2>1. Head(items) \in Dirs /\ Tail(items) \in Seq(Dirs)
    BY <1>4 DEF TypeOK, PopTake
  <2>2. TypeOK'
    BY <1>4, <2>1 DEF TypeOK, PopTake, result
  <2>3. BusyHolds'
    BY <1>4, <2>1 DEF TypeOK, PopTake
  <2> QED
    BY <2>2, <2>3
<1>5. ASSUME NEW w \in Workers, BeginStopped(w)
      PROVE  TypeInv'
  BY <1>5 DEF TypeOK, BeginStopped, queue, result
<1>6. ASSUME NEW w \in Workers, BeginRefused(w)
      PROVE  TypeInv'
  BY <1>6 DEF TypeOK, BeginRefused, queue
<1>7. ASSUME NEW w \in Workers, BeginList(w)
      PROVE  TypeInv'
  BY <1>7 DEF TypeOK, BeginList, queue, result
<1>8. ASSUME NEW w \in Workers, WalkStopped(w)
      PROVE  TypeInv'
  BY <1>8 DEF TypeOK, WalkStopped, queue, result
<1>9. ASSUME NEW w \in Workers, NEW e \in Dirs, WalkDir(w, e)
      PROVE  TypeInv'
  BY <1>9, PushType DEF TypeOK, WalkDir, result
<1>10. ASSUME NEW w \in Workers, NEW e \in Dirs, WalkSkip(w, e)
       PROVE  TypeInv'
  BY <1>10 DEF TypeOK, WalkSkip, queue
<1>11. ASSUME NEW w \in Workers, NEW e \in Dirs, WalkFollow(w, e)
       PROVE  TypeInv'
  BY <1>11, PushType DEF TypeOK, WalkFollow
<1>12. ASSUME NEW w \in Workers, Record(w)
       PROVE  TypeInv'
  BY <1>12 DEF TypeOK, Record, queue
<1>13. ASSUME NEW w \in Workers, Done(w)
       PROVE  TypeInv'
  BY <1>13, QueueDoneType DEF TypeOK, Done, QueueDone, result
<1>14. CASE StartScan
  BY <1>14 DEF TypeOK, StartScan
<1>15. CASE WatchContext
  BY <1>15 DEF TypeOK, WatchContext, QueueCancel, workers, result
<1>16. CASE Join
  BY <1>16 DEF TypeOK, Join, queue, workers, result
<1>17. CASE Return
  BY <1>17 DEF TypeOK, Return, queue, workers, result
<1>18. CASE CancelContext
  BY <1>18 DEF TypeOK, CancelContext, queue, workers, result
<1>19. CASE UNCHANGED vars
  BY <1>19 DEF TypeOK, vars, queue, workers, result
<1>20. ASSUME NEW w \in Workers, NEW e \in Dirs, WalkIgnore(w, e)
       PROVE  TypeInv'
  BY <1>20 DEF TypeOK, WalkIgnore, queue
<1> QED
  BY <1>1, <1>2, <1>3, <1>4, <1>5, <1>6, <1>7, <1>8, <1>9, <1>10, <1>11, <1>12, <1>13,
     <1>14, <1>15, <1>16, <1>17, <1>18, <1>19, <1>20 DEF Next, Worker

\* Every variable stays in its range, whatever the tree and the workers are.
THEOREM TypeCorrect == Spec => []TypeOK
<1>1. Spec => []TypeInv
  BY TypeInit, TypeStep, PTL DEF Spec
<1>2. TypeInv => TypeOK
  BY DEF TypeInv
<1> QED
  BY <1>1, <1>2, PTL

-----------------------------------------------------------------------------
\* The control of the pool: the count is the number of busy workers, a queue
\* closed by itself is over, and nothing has happened before StartScan.
BusySet == {w \in Workers : Busy(w)}

NotStarted ==
    main = "ready" => /\ items = <<>> /\ ~closed /\ ~cancelled /\ recorded = {}
                      /\ \A w \in Workers : pc[w] = "off"

Control == CountIsBusyWorkers /\ ClosedIsOver /\ NotStarted

\* The busy workers are finitely many, so they can be counted.
LEMMA BusyFinite == IsFiniteSet(BusySet) /\ Cardinality(BusySet) \in Nat
<1>1. BusySet \subseteq Workers
  BY DEF BusySet
<1> QED
  BY <1>1, DirScanAssumption, FS_Subset, FS_CardinalityType

\* The count says zero exactly when nobody is busy.
LEMMA ZeroIsNobody ==
    ASSUME CountIsBusyWorkers
    PROVE  activeWorkers = 0 <=> \A w \in Workers : ~Busy(w)
<1>1. activeWorkers = 0 <=> BusySet = {}
  BY BusyFinite, FS_EmptySet DEF CountIsBusyWorkers, BusySet
<1> QED
  BY <1>1 DEF BusySet

\* A step that takes nobody in or out of work and leaves the count alone keeps
\* the count right.
LEMMA SameBusy ==
    ASSUME CountIsBusyWorkers, UNCHANGED activeWorkers,
           \A w \in Workers : Busy(w)' <=> Busy(w)
    PROVE  CountIsBusyWorkers'
<1>1. {w \in Workers : Busy(w)}' = {w \in Workers : Busy(w)}
  OBVIOUS
<1> QED
  BY <1>1 DEF CountIsBusyWorkers

\* PopTake: one more worker, one more in the count.
LEMMA PopCounts ==
    ASSUME TypeInv, Control, NEW w \in Workers, PopTake(w)
    PROVE  CountIsBusyWorkers'
<1>1. BusySet' = BusySet \cup {w}
  BY DEF BusySet, Busy, PopTake, TypeInv, TypeOK
<1>2. w \notin BusySet
  BY DEF BusySet, Busy, PopTake
<1>3. Cardinality(BusySet') = Cardinality(BusySet) + 1
  BY <1>1, <1>2, BusyFinite, FS_AddElement
<1> QED
  BY <1>3 DEF CountIsBusyWorkers, Control, PopTake, BusySet

\* Done: one worker less, and one less in the count, which was not zero.
LEMMA DoneCounts ==
    ASSUME TypeInv, Control, NEW w \in Workers, Done(w)
    PROVE  CountIsBusyWorkers'
<1>1. BusySet' = BusySet \ {w}
  BY DEF BusySet, Busy, Done, TypeInv, TypeOK
<1>2. w \in BusySet
  BY DEF BusySet, Busy, Done
<1>3. Cardinality(BusySet') = Cardinality(BusySet) - 1
  BY <1>1, <1>2, BusyFinite, FS_RemoveElement
<1>4. activeWorkers = Cardinality(BusySet)
  BY DEF Control, CountIsBusyWorkers, BusySet
<1>5. activeWorkers # 0
  BY <1>2, ZeroIsNobody DEF Control, BusySet
<1>6. activeWorkers' = activeWorkers - 1
  BY <1>4, <1>5, BusyFinite DEF Done, QueueDone
<1>7. activeWorkers' = Cardinality(BusySet')
  BY <1>3, <1>4, <1>6
<1> QED
  BY <1>7 DEF CountIsBusyWorkers, BusySet

\* While a worker is busy the queue has not closed by itself.
LEMMA BusyIsOpen ==
    ASSUME Control, NEW w \in Workers, Busy(w)
    PROVE  closed => cancelled
  BY DEF Control, ClosedIsOver

\* Every step keeps the count, the sleepers and the closing of the queue right.
LEMMA ControlStep == TypeInv /\ Control /\ [Next]_vars => Control'
<1> SUFFICES ASSUME TypeInv, Control, [Next]_vars
             PROVE  Control'
  OBVIOUS
<1> USE DEF Control, TypeInv, TypeOK, ClosedIsOver, NotStarted
<1>1. ASSUME NEW w \in Workers, LoopTop(w)
      PROVE  Control'
  BY <1>1, SameBusy DEF LoopTop, queue, result, Busy
<1>2. ASSUME NEW w \in Workers, PopWait(w)
      PROVE  Control'
  BY <1>2, SameBusy DEF PopWait, workers, result, Busy
<1>3. ASSUME NEW w \in Workers, PopEnd(w)
      PROVE  Control'
  BY <1>3, SameBusy DEF PopEnd, queue, result, Busy
<1>4. ASSUME NEW w \in Workers, PopTake(w)
      PROVE  Control'
  <2>1. CountIsBusyWorkers'
    BY <1>4, PopCounts
  <2>2. ClosedIsOver' /\ NotStarted'
    BY <1>4 DEF PopTake
  <2> QED
    BY <2>1, <2>2
<1>5. ASSUME NEW w \in Workers, BeginStopped(w)
      PROVE  Control'
  BY <1>5, SameBusy DEF BeginStopped, queue, result, Busy
<1>6. ASSUME NEW w \in Workers, BeginRefused(w)
      PROVE  Control'
  BY <1>6, SameBusy DEF BeginRefused, queue, Busy
<1>7. ASSUME NEW w \in Workers, BeginList(w)
      PROVE  Control'
  BY <1>7, SameBusy DEF BeginList, queue, result, Busy
<1>8. ASSUME NEW w \in Workers, WalkStopped(w)
      PROVE  Control'
  BY <1>8, SameBusy DEF WalkStopped, queue, result, Busy
<1>9. ASSUME NEW w \in Workers, NEW e \in Dirs, WalkDir(w, e)
      PROVE  Control'
  BY <1>9, SameBusy DEF WalkDir, Push, result, Busy
<1>10. ASSUME NEW w \in Workers, NEW e \in Dirs, WalkSkip(w, e)
       PROVE  Control'
  BY <1>10, SameBusy DEF WalkSkip, queue, Busy
<1>11. ASSUME NEW w \in Workers, NEW e \in Dirs, WalkFollow(w, e)
       PROVE  Control'
  BY <1>11, SameBusy DEF WalkFollow, Push, Busy
<1>12. ASSUME NEW w \in Workers, Record(w)
       PROVE  Control'
  BY <1>12, SameBusy DEF Record, queue, Busy
<1>13. ASSUME NEW w \in Workers, Done(w)
       PROVE  Control'
  <2>1. CountIsBusyWorkers'
    BY <1>13, DoneCounts
  <2>2. NotStarted'
    BY <1>13 DEF Done
  <2>3. CASE activeWorkers' = 0 /\ items = <<>>
    <3>1. IsFiniteSet(BusySet')
      BY DirScanAssumption, FS_Subset DEF BusySet
    <3>2. BusySet' = {}
      BY <2>1, <2>3, <3>1, FS_EmptySet DEF CountIsBusyWorkers, BusySet
    <3>3. \A x \in Workers : ~Busy(x)'
      BY <3>2 DEF BusySet
    <3> QED
      BY <1>13, <2>1, <2>2, <2>3, <3>3 DEF Done, QueueDone
  <2>4. CASE ~(activeWorkers' = 0 /\ items = <<>>)
    <3>1. ClosedIsOver'
      BY <1>13, <2>4 DEF Done, QueueDone, Busy
    <3> QED
      BY <2>1, <2>2, <3>1
  <2> QED
    BY <2>3, <2>4
<1>14. CASE StartScan
  <2>1. \A w \in Workers : ~Busy(w) /\ ~Busy(w)'
    BY <1>14 DEF StartScan, Busy
  <2> QED
    BY <1>14, <2>1, SameBusy DEF StartScan
<1>15. CASE WatchContext
  BY <1>15, SameBusy DEF WatchContext, QueueCancel, workers, result, Busy
<1>16. CASE Join
  BY <1>16, SameBusy DEF Join, queue, workers, result, Busy
<1>17. CASE Return
  BY <1>17, SameBusy DEF Return, queue, workers, result, Busy
<1>18. CASE CancelContext
  BY <1>18, SameBusy DEF CancelContext, queue, workers, result, Busy
<1>19. CASE UNCHANGED vars
  BY <1>19, SameBusy DEF vars, queue, workers, result, Busy
<1>20. ASSUME NEW w \in Workers, NEW e \in Dirs, WalkIgnore(w, e)
       PROVE  Control'
  BY <1>20, SameBusy DEF WalkIgnore, queue, Busy
<1> QED
  BY <1>1, <1>2, <1>3, <1>4, <1>5, <1>6, <1>7, <1>8, <1>9, <1>10, <1>11, <1>12, <1>13,
     <1>14, <1>15, <1>16, <1>17, <1>18, <1>19, <1>20 DEF Next, Worker

\* Nobody is busy and nobody sleeps before StartScan.
LEMMA ControlInit == Init => Control
<1> SUFFICES ASSUME Init PROVE Control
  OBVIOUS
<1>1. \A w \in Workers : ~Busy(w)
  BY DEF Init, Busy
<1>2. {w \in Workers : Busy(w)} = {}
  BY <1>1
<1> QED
  BY <1>1, <1>2, FS_EmptySet DEF Init, Control, CountIsBusyWorkers, ClosedIsOver, NotStarted

\* Types and control hold in every state of every scan.
LEMMA PoolInvariant == Spec => [](TypeInv /\ Control)
<1>1. Init => TypeInv /\ Control
  BY TypeInit, ControlInit
<1>2. TypeInv /\ Control /\ [Next]_vars => (TypeInv /\ Control)'
  BY TypeStep, ControlStep
<1> QED
  BY <1>1, <1>2, PTL DEF Spec

\* The count Done decides on is the number of workers that hold a directory,
\* for any number of workers and whatever was cancelled in between.
THEOREM CountCorrect == Spec => []CountIsBusyWorkers
<1>1. TypeInv /\ Control => CountIsBusyWorkers
  BY DEF Control
<1> QED
  BY <1>1, PoolInvariant, PTL

\* A queue that closed by itself closed on a finished traversal, so no Push is
\* ever refused but for a cancellation.
THEOREM ClosedCorrect == Spec => []ClosedIsOver
<1>1. TypeInv /\ Control => ClosedIsOver
  BY DEF Control
<1> QED
  BY <1>1, PoolInvariant, PTL

-----------------------------------------------------------------------------
\* Completeness: until the context is done, a directory that was named is
\* accounted for, in the queue, or with a worker.
Covered(d) == d \in recorded \cup refused \cup skipped \/ InQueue(d) \/ Held(d)

NothingLost ==
    ~ctx /\ main # "ready" =>
        /\ \A d \in Roots : Covered(d)
        /\ \A d \in recorded : \A e \in Subdirs[d] : Covered(e)
        /\ \A w \in Workers : pc[w] = "walk" =>
              \A e \in Subdirs[dir[w]] : e \in todo[w] \/ Covered(e)
        /\ \A w \in Workers : pc[w] = "done" => dir[w] \in recorded \cup refused

Leaving ==
    /\ cancelled => ctx
    /\ \A w \in Workers : pc[w] = "exit" => ctx \/ closed
    /\ main \in {"joined", "ok"} => \A w \in Workers : pc[w] = "exit"

\* Append keeps what is in the queue and adds its element.
LEMMA AppendKeeps ==
    ASSUME TypeOK, NEW e \in Dirs, items' = Append(items, e)
    PROVE  InQueue(e)' /\ \A d \in Dirs : InQueue(d) => InQueue(d)'
<1>1. Len(items') = Len(items) + 1 /\ items'[Len(items) + 1] = e
  BY DEF TypeOK
<1>2. \A i \in 1..Len(items) : items'[i] = items[i]
  BY DEF TypeOK
<1>3. Len(items) \in Nat
  BY DEF TypeOK
<1> QED
  BY <1>1, <1>2, <1>3 DEF InQueue

\* Taking the head keeps every other element in the queue.
LEMMA TailKeeps ==
    ASSUME TypeOK, items # <<>>, items' = Tail(items)
    PROVE  \A d \in Dirs : InQueue(d) => d = Head(items) \/ InQueue(d)'
<1> SUFFICES ASSUME NEW d \in Dirs, NEW i \in 1..Len(items), items[i] = d, d # Head(items)
             PROVE  InQueue(d)'
  BY DEF InQueue
<1>1. i # 1 /\ Len(items') = Len(items) - 1 /\ Len(items) \in Nat
  BY DEF TypeOK
<1>2. i - 1 \in 1..Len(items') /\ items'[i - 1] = items[i]
  BY <1>1 DEF TypeOK
<1> QED
  BY <1>2 DEF InQueue

\* Push into a queue that is neither closed nor cancelled appends.
LEMMA PushCovers ==
    ASSUME TypeOK, NEW e \in Dirs, Push(e), ~closed, ~cancelled
    PROVE  InQueue(e)' /\ \A d \in Dirs : InQueue(d) => InQueue(d)'
<1>1. items' = Append(items, e)
  BY DEF Push
<1> QED
  BY <1>1, AppendKeeps

\* No step of a worker uncovers a directory.
LEMMA StaysCovered ==
    ASSUME TypeInv, Control, Leaving, NothingLost, ~ctx, main # "ready",
           NEW w \in Workers, Worker(w), NEW d \in Dirs, Covered(d)
    PROVE  Covered(d)'
<1> USE DEF TypeInv, TypeOK, Covered, Held, Busy
<1>0. Busy(w) => ~closed /\ ~cancelled
  BY BusyIsOpen DEF Leaving
<1>1. CASE LoopTop(w)
  BY <1>1 DEF LoopTop, queue, result, InQueue
<1>2. CASE PopWait(w)
  BY <1>2 DEF PopWait, workers, result, InQueue
<1>3. CASE PopEnd(w)
  BY <1>3 DEF PopEnd, queue, result, InQueue
<1>4. CASE PopTake(w)
  <2>1. InQueue(d) => d = Head(items) \/ InQueue(d)'
    BY <1>4, TailKeeps DEF PopTake
  <2>2. d = Head(items) => Held(d)'
    BY <1>4 DEF PopTake
  <2>3. Held(d) => Held(d)'
    BY <1>4 DEF PopTake
  <2> QED
    BY <1>4, <2>1, <2>2, <2>3 DEF PopTake, result
<1>5. CASE BeginStopped(w)
  BY <1>5 DEF BeginStopped
<1>6. CASE BeginRefused(w)
  BY <1>6 DEF BeginRefused, queue, InQueue
<1>7. CASE BeginList(w)
  BY <1>7 DEF BeginList, queue, result, InQueue
<1>8. CASE WalkStopped(w)
  BY <1>8 DEF WalkStopped
<1>9. ASSUME NEW e \in Dirs, WalkDir(w, e)
      PROVE  Covered(d)'
  <2>1. InQueue(d) => InQueue(d)'
    BY <1>0, <1>9, PushCovers DEF WalkDir
  <2> QED
    BY <1>9, <2>1 DEF WalkDir, result
<1>10. ASSUME NEW e \in Dirs, WalkSkip(w, e)
       PROVE  Covered(d)'
  BY <1>10 DEF WalkSkip, queue, InQueue
<1>11. ASSUME NEW e \in Dirs, WalkFollow(w, e)
       PROVE  Covered(d)'
  <2>1. InQueue(d) => InQueue(d)'
    BY <1>0, <1>11, PushCovers DEF WalkFollow
  <2> QED
    BY <1>11, <2>1 DEF WalkFollow
<1>12. CASE Record(w)
  BY <1>12 DEF Record, queue, InQueue
<1>13. CASE Done(w)
  <2>1. dir[w] \in recorded \cup refused
    BY <1>13 DEF Done, NothingLost
  <2>2. InQueue(d) => InQueue(d)'
    BY <1>13 DEF Done, QueueDone, InQueue
  <2>3. Held(d) => d = dir[w] \/ Held(d)'
    BY <1>13 DEF Done
  <2> QED
    BY <1>13, <2>1, <2>2, <2>3 DEF Done, result
<1>14. ASSUME NEW e \in Dirs, WalkIgnore(w, e)
       PROVE  Covered(d)'
  BY <1>14 DEF WalkIgnore, queue, InQueue
<1> QED
  BY <1>1, <1>2, <1>3, <1>4, <1>5, <1>6, <1>7, <1>8, <1>9, <1>10, <1>11, <1>12, <1>13, <1>14
     DEF Worker

\* A worker's step keeps NothingLost.
LEMMA NothingLostWorker ==
    ASSUME TypeInv, Control, Leaving, NothingLost,
           NEW w \in Workers, Worker(w)
    PROVE  NothingLost'
<1> USE DEF TypeInv, TypeOK, Busy
<1>0. SUFFICES ASSUME ~ctx, main # "ready"
               PROVE  NothingLost'
  <2>1. UNCHANGED <<ctx, main>>
    BY DEF Worker, LoopTop, PopWait, PopEnd, PopTake, BeginStopped, BeginRefused, BeginList,
           WalkStopped, WalkIgnore, WalkDir, WalkSkip, WalkFollow, Record, Done
  <2> QED
    BY <2>1 DEF NothingLost
<1>1. Roots \subseteq Dirs /\ \A d \in Dirs : Subdirs[d] \subseteq Dirs
  BY DirScanAssumption DEF Roots
<1>2. \A d \in Dirs : Covered(d) => Covered(d)'
  BY <1>0, StaysCovered
<1>3. \A d \in Roots : Covered(d)'
  BY <1>0, <1>1, <1>2 DEF NothingLost
<1>4. \A d \in recorded : \A e \in Subdirs[d] : Covered(e)'
  BY <1>0, <1>1, <1>2 DEF NothingLost
<1>5. \A x \in Workers : pc[x] = "walk" =>
         \A e \in Subdirs[dir[x]] : e \in todo[x] \/ Covered(e)'
  BY <1>0, <1>1, <1>2 DEF NothingLost, BusyHolds
<1>6. \A x \in Workers : pc[x] = "done" => dir[x] \in recorded \cup refused
  BY <1>0 DEF NothingLost
<1>7. CASE LoopTop(w)
  BY <1>3, <1>4, <1>5, <1>6, <1>7 DEF LoopTop, result, NothingLost
<1>8. CASE PopWait(w)
  BY <1>3, <1>4, <1>5, <1>6, <1>8 DEF PopWait, workers, result, NothingLost
<1>9. CASE PopEnd(w)
  BY <1>3, <1>4, <1>5, <1>6, <1>9 DEF PopEnd, result, NothingLost
<1>10. CASE PopTake(w)
  BY <1>3, <1>4, <1>5, <1>6, <1>10 DEF PopTake, result, NothingLost
<1>11. CASE BeginStopped(w) \/ WalkStopped(w)
  BY <1>0, <1>11 DEF BeginStopped, WalkStopped
<1>12. CASE BeginRefused(w)
  BY <1>3, <1>4, <1>5, <1>6, <1>12 DEF BeginRefused, NothingLost
<1>13. CASE BeginList(w)
  BY <1>3, <1>4, <1>5, <1>6, <1>13 DEF BeginList, result, NothingLost
<1>14. ASSUME NEW e \in Dirs, WalkDir(w, e)
       PROVE  NothingLost'
  <2>1. Covered(e)'
    BY <1>14, PushCovers, BusyIsOpen, <1>0 DEF WalkDir, Leaving, Covered
  <2> QED
    BY <1>3, <1>4, <1>5, <1>6, <1>14, <2>1 DEF WalkDir, result, NothingLost
<1>15. ASSUME NEW e \in Dirs, WalkSkip(w, e)
       PROVE  NothingLost'
  <2>1. Covered(e)'
    BY <1>15 DEF WalkSkip, Covered
  <2> QED
    BY <1>3, <1>4, <1>5, <1>6, <1>15, <2>1 DEF WalkSkip, NothingLost
<1>16. ASSUME NEW e \in Dirs, WalkFollow(w, e)
       PROVE  NothingLost'
  <2>1. Covered(e)'
    BY <1>16, PushCovers, BusyIsOpen, <1>0 DEF WalkFollow, Leaving, Covered
  <2> QED
    BY <1>3, <1>4, <1>5, <1>6, <1>16, <2>1 DEF WalkFollow, NothingLost
<1>17. CASE Record(w)
  <2>1. \A e \in Subdirs[dir[w]] : Covered(e)'
    BY <1>5, <1>17 DEF Record
  <2> QED
    BY <1>3, <1>4, <1>5, <1>6, <1>17, <2>1 DEF Record, NothingLost
<1>18. CASE Done(w)
  BY <1>3, <1>4, <1>5, <1>6, <1>18 DEF Done, result, NothingLost
<1>19. ASSUME NEW e \in Dirs, WalkIgnore(w, e)
       PROVE  NothingLost'
  <2>1. Covered(e)'
    BY <1>19 DEF WalkIgnore, Covered
  <2> QED
    BY <1>3, <1>4, <1>5, <1>6, <1>19, <2>1 DEF WalkIgnore, NothingLost
<1> QED
  BY <1>7, <1>8, <1>9, <1>10, <1>11, <1>12, <1>13, <1>14, <1>15, <1>16, <1>17, <1>18, <1>19
     DEF Worker

\* What StartScan and its helpers do to NothingLost.
LEMMA NothingLostMain ==
    ASSUME TypeInv, Control, Leaving, NothingLost,
           StartScan \/ WatchContext \/ Join \/ Return \/ CancelContext \/ UNCHANGED vars
    PROVE  NothingLost'
<1>1. CASE StartScan
  <2>1. CASE ctx
    BY <1>1, <2>1 DEF StartScan, NothingLost
  <2>2. CASE ~ctx
    <3>1. \A d \in Roots : InQueue(d)'
      BY <1>1, <2>2 DEF StartScan, Roots, InQueue
    <3>2. recorded' = {} /\ \A w \in Workers : pc'[w] = "loop"
      BY <1>1, <2>2 DEF StartScan, Control, NotStarted
    <3> QED
      BY <3>1, <3>2 DEF NothingLost, Covered
  <2> QED
    BY <2>1, <2>2
<1>2. CASE WatchContext \/ CancelContext
  BY <1>2 DEF WatchContext, CancelContext, NothingLost
<1>3. CASE Join \/ Return \/ UNCHANGED vars
  BY <1>3 DEF Join, Return, vars, queue, workers, result, NothingLost, Covered, InQueue, Held, Busy
<1> QED
  BY <1>1, <1>2, <1>3

\* No step at all loses a directory that is still to be accounted for.
LEMMA NothingLostStep ==
    ASSUME TypeInv, Control, Leaving, NothingLost, [Next]_vars
    PROVE  NothingLost'
  BY NothingLostWorker, NothingLostMain DEF Next

\* Nobody leaves the pool early: only a done context or a closed queue lets a
\* worker go, and StartScan goes on only when all have gone.
LEMMA LeavingStep ==
    ASSUME TypeInv, Leaving, [Next]_vars
    PROVE  Leaving'
<1> USE DEF TypeInv, TypeOK, Leaving
<1>1. ASSUME NEW w \in Workers, Worker(w)
      PROVE  Leaving'
  <2>1. UNCHANGED <<ctx, main, cancelled>> /\ (closed => closed')
    BY <1>1 DEF Worker, LoopTop, PopWait, PopEnd, PopTake, BeginStopped, BeginRefused, BeginList,
       WalkStopped, WalkIgnore, WalkDir, WalkSkip, WalkFollow, Record, Done, QueueDone, queue
  <2>2. \A x \in Workers : pc'[x] = "exit" => pc[x] = "exit" \/ ctx \/ closed
    BY <1>1 DEF Worker, LoopTop, PopWait, PopEnd, PopTake, BeginStopped, BeginRefused, BeginList,
       WalkStopped, WalkIgnore, WalkDir, WalkSkip, WalkFollow, Record, Done, queue, workers
  <2>3. pc[w] # "exit"
    BY <1>1 DEF Worker, LoopTop, PopWait, PopEnd, PopTake, BeginStopped, BeginRefused, BeginList,
       WalkStopped, WalkIgnore, WalkDir, WalkSkip, WalkFollow, Record, Done
  <2> QED
    BY <2>1, <2>2, <2>3
<1>2. CASE StartScan
  BY <1>2 DEF StartScan
<1>3. CASE WatchContext
  BY <1>3 DEF WatchContext, QueueCancel, workers
<1>4. CASE Join
  BY <1>4 DEF Join, queue, workers
<1>5. CASE Return
  BY <1>5 DEF Return, queue, workers
<1>6. CASE CancelContext
  BY <1>6 DEF CancelContext, queue, workers
<1>7. CASE UNCHANGED vars
  BY <1>7 DEF vars, queue, workers
<1> QED
  BY <1>1, <1>2, <1>3, <1>4, <1>5, <1>6, <1>7 DEF Next

\* When every worker has gone and the context is not done, the queue closed by
\* itself: what is covered is accounted for.
LEMMA JoinedIsComplete ==
    ASSUME Control, Leaving, NothingLost, main = "joined", ~ctx
    PROVE  LET Accounted == recorded \cup refused \cup skipped IN
           /\ Roots \subseteq Accounted
           /\ \A d \in recorded : Subdirs[d] \subseteq Accounted
<1>1. closed /\ ~cancelled
  BY DirScanAssumption DEF Leaving
<1>2. items = <<>> /\ \A w \in Workers : ~Busy(w)
  BY <1>1 DEF Control, ClosedIsOver
<1>3. \A d : Covered(d) => d \in recorded \cup refused \cup skipped
  BY <1>2 DEF Covered, InQueue, Held
<1> QED
  BY <1>3 DEF NothingLost

\* Return says "ok" only of a traversal that was joined and not cancelled.
LEMMA OkStep ==
    ASSUME TypeInv, Control, Leaving, NothingLost, OkIsComplete, [Next]_vars
    PROVE  OkIsComplete'
<1>1. ASSUME NEW w \in Workers, Worker(w)
      PROVE  OkIsComplete'
  <2>1. main' = main
    BY <1>1 DEF Worker, LoopTop, PopWait, PopEnd, PopTake, BeginStopped, BeginRefused, BeginList,
       WalkStopped, WalkIgnore, WalkDir, WalkSkip, WalkFollow, Record, Done
  <2>2. pc[w] # "exit"
    BY <1>1 DEF Worker, LoopTop, PopWait, PopEnd, PopTake, BeginStopped, BeginRefused, BeginList,
       WalkStopped, WalkIgnore, WalkDir, WalkSkip, WalkFollow, Record, Done
  <2>3. main # "ok"
    BY <2>2 DEF Leaving
  <2> QED
    BY <2>1, <2>3 DEF OkIsComplete
<1>2. CASE StartScan
  BY <1>2 DEF StartScan, OkIsComplete
<1>3. CASE Return
  <2>1. CASE ctx
    BY <1>3, <2>1 DEF Return, OkIsComplete
  <2>2. CASE ~ctx
    BY <1>3, <2>2, JoinedIsComplete DEF Return, OkIsComplete, result
  <2> QED
    BY <2>1, <2>2
<1>4. CASE WatchContext \/ Join \/ CancelContext \/ UNCHANGED vars
  BY <1>4 DEF WatchContext, Join, CancelContext, vars, result, OkIsComplete
<1> QED
  BY <1>1, <1>2, <1>3, <1>4 DEF Next

\* When StartScan returns nil nothing reachable was left out: for every tree,
\* every choice of links and every number of workers, every root and every
\* subdirectory of a recorded directory is in the tree or in the log.
THEOREM OkIsCompleteCorrect == Spec => []OkIsComplete
<1> DEFINE IInv == TypeInv /\ Control /\ Leaving /\ NothingLost /\ OkIsComplete
<1>1. Init => IInv
  <2> SUFFICES ASSUME Init PROVE IInv
    OBVIOUS
  <2>1. TypeInv /\ Control
    BY TypeInit, ControlInit
  <2>2. Leaving /\ NothingLost /\ OkIsComplete
    BY DEF Init, Leaving, NothingLost, OkIsComplete
  <2> QED
    BY <2>1, <2>2
<1>2. IInv /\ [Next]_vars => IInv'
  <2> SUFFICES ASSUME IInv, [Next]_vars PROVE IInv'
    OBVIOUS
  <2>1. TypeInv' /\ Control'
    BY TypeStep, ControlStep
  <2>2. Leaving'
    BY LeavingStep
  <2>3. NothingLost'
    BY NothingLostStep
  <2>4. OkIsComplete'
    BY OkStep
  <2> QED
    BY <2>1, <2>2, <2>3, <2>4
<1>3. IInv => OkIsComplete
  OBVIOUS
<1> QED
  BY <1>1, <1>2, <1>3, PTL DEF Spec

-----------------------------------------------------------------------------
\* Targets: a link that was entered is the one that stored its target, so a
\* second link to that target finds it stored, wherever the first has got to.
Taken ==
    /\ main = "ready" => refused = {}
    /\ main # "ready" => RootKeys \subseteq visited
    /\ \A l \in Links \ Roots : Entered(l) => Target[l] \in visited
    /\ TargetEnteredOnce

\* Nobody works before StartScan or after it.
Housed == main # "running" => \A w \in Workers : pc[w] \in {"off", "exit"}

\* Append adds its element to the queue and no other.
LEMMA AppendOnly ==
    ASSUME TypeOK, NEW e \in Dirs, items' = Append(items, e)
    PROVE  \A d \in Dirs : InQueue(d)' => InQueue(d) \/ d = e
<1> SUFFICES ASSUME NEW d \in Dirs, NEW i \in 1..Len(items'), items'[i] = d, d # e
             PROVE  InQueue(d)
  BY DEF InQueue
<1>1. Len(items') = Len(items) + 1 /\ items'[Len(items) + 1] = e /\ Len(items) \in Nat
  BY DEF TypeOK
<1>2. i \in 1..Len(items) /\ items'[i] = items[i]
  BY <1>1 DEF TypeOK
<1> QED
  BY <1>2 DEF InQueue

\* A push puts its path in the queue, or nothing.
LEMMA PushOnly ==
    ASSUME TypeOK, NEW e \in Dirs, Push(e)
    PROVE  \A d \in Dirs : InQueue(d)' => InQueue(d) \/ d = e
<1>1. CASE items' = Append(items, e)
  BY <1>1, AppendOnly
<1>2. CASE UNCHANGED items
  BY <1>2 DEF InQueue
<1> QED
  BY <1>1, <1>2 DEF Push

\* The head and the rest of the queue were in the queue.
LEMMA TakeOnly ==
    ASSUME TypeOK, items # <<>>, items' = Tail(items)
    PROVE  InQueue(Head(items)) /\ \A d \in Dirs : InQueue(d)' => InQueue(d)
<1>1. Len(items) \in Nat \ {0} /\ Head(items) = items[1]
  BY DEF TypeOK
<1>2. InQueue(Head(items))
  BY <1>1 DEF InQueue
<1>3. ASSUME NEW d \in Dirs, NEW i \in 1..Len(items'), items'[i] = d
      PROVE  InQueue(d)
  <2>1. i + 1 \in 1..Len(items) /\ items[i + 1] = d
    BY <1>1, <1>3 DEF TypeOK
  <2> QED
    BY <2>1 DEF InQueue
<1> QED
  BY <1>2, <1>3 DEF InQueue

\* A worker's step lets no directory in but the one it pushes.
LEMMA EnteredBefore ==
    ASSUME TypeInv, NEW w \in Workers, NEW d \in Dirs, Entered(d)',
           \/ LoopTop(w) \/ PopWait(w) \/ PopEnd(w) \/ PopTake(w)
           \/ BeginStopped(w) \/ BeginRefused(w) \/ BeginList(w) \/ WalkStopped(w)
           \/ \E e \in Dirs : \/ WalkIgnore(w, e) \/ WalkSkip(w, e)
                              \/ (WalkDir(w, e) \/ WalkFollow(w, e)) /\ d # e
           \/ Record(w) \/ Done(w)
    PROVE  Entered(d)
<1> USE DEF TypeInv, TypeOK, Entered, Held, Busy
<1>1. CASE LoopTop(w)
  BY <1>1 DEF LoopTop, queue, result, InQueue
<1>2. CASE PopWait(w)
  BY <1>2 DEF PopWait, workers, result, InQueue
<1>3. CASE PopEnd(w)
  BY <1>3 DEF PopEnd, queue, result, InQueue
<1>4. CASE PopTake(w)
  <2>1. InQueue(Head(items)) /\ (InQueue(d)' => InQueue(d))
    BY <1>4, TakeOnly DEF PopTake
  <2> QED
    BY <1>4, <2>1 DEF PopTake, result
<1>5. CASE BeginStopped(w)
  BY <1>5 DEF BeginStopped, queue, result, InQueue
<1>6. CASE BeginRefused(w)
  BY <1>6 DEF BeginRefused, queue, InQueue
<1>7. CASE BeginList(w)
  BY <1>7 DEF BeginList, queue, result, InQueue
<1>8. CASE WalkStopped(w)
  BY <1>8 DEF WalkStopped, queue, result, InQueue
<1>9. ASSUME NEW e \in Dirs, WalkIgnore(w, e)
      PROVE  Entered(d)
  BY <1>9 DEF WalkIgnore, queue, InQueue
<1>10. ASSUME NEW e \in Dirs, WalkSkip(w, e)
       PROVE  Entered(d)
  BY <1>10 DEF WalkSkip, queue, InQueue
<1>11. ASSUME NEW e \in Dirs, WalkDir(w, e), d # e
       PROVE  Entered(d)
  <2>1. InQueue(d)' => InQueue(d)
    BY <1>11, PushOnly DEF WalkDir
  <2> QED
    BY <1>11, <2>1 DEF WalkDir, result
<1>12. ASSUME NEW e \in Dirs, WalkFollow(w, e), d # e
       PROVE  Entered(d)
  <2>1. InQueue(d)' => InQueue(d)
    BY <1>12, PushOnly DEF WalkFollow
  <2> QED
    BY <1>12, <2>1 DEF WalkFollow
<1>13. CASE Record(w)
  BY <1>13 DEF Record, queue, InQueue
<1>14. CASE Done(w)
  BY <1>14 DEF Done, QueueDone, result, InQueue
<1> QED
  BY <1>1, <1>2, <1>3, <1>4, <1>5, <1>6, <1>7, <1>8, <1>9, <1>10, <1>11, <1>12, <1>13, <1>14

\* Workers come and go inside StartScan.
LEMMA HousedStep == TypeInv /\ Control /\ Leaving /\ Housed /\ [Next]_vars => Housed'
<1> SUFFICES ASSUME TypeInv, Control, Leaving, Housed, [Next]_vars
             PROVE  Housed'
  OBVIOUS
<1> USE DEF Housed
<1>1. ASSUME NEW w \in Workers, Worker(w)
      PROVE  Housed'
  <2>1. main' = main /\ pc[w] \notin {"off", "exit"}
    BY <1>1 DEF Worker, LoopTop, PopWait, PopEnd, PopTake, BeginStopped, BeginRefused, BeginList,
       WalkStopped, WalkIgnore, WalkDir, WalkSkip, WalkFollow, Record, Done
  <2> QED
    BY <2>1
<1>2. CASE StartScan \/ WatchContext \/ Join \/ Return \/ CancelContext \/ UNCHANGED vars
  BY <1>2 DEF StartScan, WatchContext, Join, Return, CancelContext, vars, workers
<1> QED
  BY <1>1, <1>2 DEF Next

\* A link is let in by the step that stores its target, and by no other.
LEMMA TakenStep == TypeInv /\ Control /\ Housed /\ Taken /\ [Next]_vars => Taken'
<1> SUFFICES ASSUME TypeInv, Control, Housed, Taken, [Next]_vars
             PROVE  Taken'
  OBVIOUS
<1> USE DEF TypeInv, TypeOK
<1>a. Links \subseteq Dirs
  BY DirScanAssumption
<1>1. ASSUME NEW w \in Workers, Worker(w), ~(\E e \in Dirs : WalkFollow(w, e))
      PROVE  Taken'
  <2>1. main' = main /\ main # "ready" /\ visited \subseteq visited'
    BY <1>1 DEF Housed, Worker, LoopTop, PopWait, PopEnd, PopTake, BeginStopped, BeginRefused,
       BeginList, WalkStopped, WalkIgnore, WalkDir, WalkSkip, Record, Done, result
  <2>2. \A l \in Links : Entered(l)' => Entered(l)
    BY <1>1, <1>a, EnteredBefore DEF Worker, WalkDir
  <2> QED
    BY <2>1, <2>2 DEF Taken, TargetEnteredOnce
<1>2. ASSUME NEW w \in Workers, NEW e \in Dirs, WalkFollow(w, e)
      PROVE  Taken'
  <2>1. main' = main /\ main # "ready" /\ visited' = visited \cup {Target[e]}
    BY <1>2 DEF Housed, WalkFollow
  <2>2. \A l \in Links : Entered(l)' => Entered(l) \/ l = e
    BY <1>2, <1>a, EnteredBefore
  <2>3. Target[e] \notin visited /\ Target[e] \notin RootKeys
    BY <1>2, <2>1 DEF WalkFollow, Taken
  <2> QED
    BY <2>1, <2>2, <2>3 DEF Taken, TargetEnteredOnce
<1>3. CASE StartScan
  <2>1. \A d \in Dirs : Entered(d)' => d \in Roots
    <3>1. recorded' = {} /\ refused' = {} /\ \A w \in Workers : ~Busy(w)'
      BY <1>3 DEF StartScan, Taken, Control, NotStarted, Busy
    <3>2. \A d \in Dirs : InQueue(d)' => d \in Roots
      BY <1>3 DEF StartScan, InQueue, Roots, Control, NotStarted
    <3> QED
      BY <3>1, <3>2 DEF Entered, Held
  <2>2. RootKeys \subseteq visited' /\ main' # "ready"
    BY <1>3 DEF StartScan
  <2> QED
    BY <1>a, <2>1, <2>2 DEF Taken, TargetEnteredOnce
<1>4. CASE WatchContext
  <2>1. \A d \in Dirs : Entered(d)' => Entered(d)
    BY <1>4 DEF WatchContext, QueueCancel, workers, result, Entered, InQueue, Held, Busy
  <2> QED
    BY <1>4, <1>a, <2>1 DEF WatchContext, result, Taken, TargetEnteredOnce
<1>5. CASE Join \/ Return \/ CancelContext \/ UNCHANGED vars
  <2>1. \A d \in Dirs : Entered(d)' => Entered(d)
    BY <1>5 DEF Join, Return, CancelContext, vars, queue, workers, result, Entered, InQueue, Held,
       Busy
  <2> QED
    BY <1>5, <1>a, <2>1 DEF Join, Return, CancelContext, vars, result, Taken, TargetEnteredOnce
<1> QED
  BY <1>1, <1>2, <1>3, <1>4, <1>5 DEF Next

\* Nothing is entered when the scan begins.
LEMMA TakenInit == Init => Taken /\ Housed
<1> SUFFICES ASSUME Init PROVE Taken /\ Housed
  OBVIOUS
<1>1. \A l \in Links : ~Entered(l)
  BY DEF Init, Entered, InQueue, Held, Busy
<1> QED
  BY <1>1 DEF Init, Taken, Housed, TargetEnteredOnce

\* What every state of a scan satisfies.
IInv == TypeInv /\ Control /\ Leaving /\ NothingLost /\ Housed /\ Taken

LEMMA IInvInvariant == Spec => []IInv
<1>1. Init => IInv
  BY TypeInit, ControlInit, TakenInit DEF Init, IInv, Leaving, NothingLost
<1>2. IInv /\ [Next]_vars => IInv'
  BY TypeStep, ControlStep, LeavingStep, NothingLostStep, HousedStep, TakenStep DEF IInv
<1> QED
  BY <1>1, <1>2, PTL DEF Spec

\* Whatever links there are and however the workers race for their targets,
\* each target is entered through one of them at most.
THEOREM TargetEnteredOnceCorrect == Spec => []TargetEnteredOnce
<1>1. IInv => TargetEnteredOnce
  BY DEF IInv, Taken
<1> QED
  BY <1>1, IInvInvariant, PTL

-----------------------------------------------------------------------------
\* Phase 1 implements the abstract traversal.  Whatever is queued, held or about
\* to be walked can be named from the roots.
Named ==
    /\ \A d \in Dirs : InQueue(d) => d \in Nameable
    /\ \A w \in Workers : /\ Busy(w) => dir[w] \in Nameable
                          /\ todo[w] \subseteq Nameable

\* The roots can be named, and so can the entries of what can be.
LEMMA NameableClosed ==
    /\ Roots \subseteq Nameable
    /\ \A p \in Nameable : Subdirs[p] \subseteq Nameable
<1>1. Roots \subseteq Dirs /\ \A p \in Dirs : Subdirs[p] \subseteq Dirs
  BY DirScanAssumption DEF Roots
<1>2. Roots \subseteq Nameable
  BY <1>1 DEF Nameable
<1>3. ASSUME NEW p \in Nameable, NEW e \in Subdirs[p]
      PROVE  e \in Nameable
  <2>1. p \in Dirs /\ e \in Dirs
    BY <1>1 DEF Nameable
  <2>2. ASSUME NEW S \in SUBSET Dirs, Roots \subseteq S, \A q \in S : Subdirs[q] \subseteq S
        PROVE  e \in S
    BY <2>2 DEF Nameable
  <2> QED
    BY <2>1, <2>2 DEF Nameable
<1> QED
  BY <1>2, <1>3

\* The queue and the pool start empty.
LEMMA NamedInit == Init => Named
  BY DEF Init, Named, InQueue, Busy

\* A directory gets into the queue as a root or out of a listing.
LEMMA NamedStep == TypeInv /\ Control /\ Named /\ [Next]_vars => Named'
<1> SUFFICES ASSUME TypeInv, Control, Named, [Next]_vars
             PROVE  Named'
  OBVIOUS
<1> USE DEF TypeInv, TypeOK
<1>1. ASSUME NEW w \in Workers, PopTake(w)
      PROVE  Named'
  <2>1. Head(items) \in Nameable /\ \A d \in Dirs : InQueue(d)' => InQueue(d)
    BY <1>1, TakeOnly DEF PopTake, Named
  <2> QED
    BY <1>1, <2>1 DEF PopTake, Named, Busy
<1>2. ASSUME NEW w \in Workers, BeginList(w)
      PROVE  Named'
  BY <1>2, NameableClosed DEF BeginList, queue, Named, InQueue, Busy
<1>3. ASSUME NEW w \in Workers, NEW e \in Dirs, WalkDir(w, e) \/ WalkFollow(w, e)
      PROVE  Named'
  <2>1. \A d \in Dirs : InQueue(d)' => InQueue(d) \/ d = e
    BY <1>3, PushOnly DEF WalkDir, WalkFollow
  <2>2. e \in Nameable
    BY <1>3 DEF WalkDir, WalkFollow, Named
  <2> QED
    BY <1>3, <2>1, <2>2 DEF WalkDir, WalkFollow, Named, Busy
<1>4. ASSUME NEW w \in Workers, NEW e \in Dirs, WalkIgnore(w, e) \/ WalkSkip(w, e)
      PROVE  Named'
  BY <1>4 DEF WalkIgnore, WalkSkip, queue, Named, InQueue, Busy
<1>5. ASSUME NEW w \in Workers,
             \/ LoopTop(w) \/ PopWait(w) \/ PopEnd(w) \/ BeginStopped(w)
             \/ BeginRefused(w) \/ WalkStopped(w) \/ Record(w)
      PROVE  Named'
  BY <1>5 DEF LoopTop, PopWait, PopEnd, BeginStopped, BeginRefused, WalkStopped, Record, queue,
     workers, Named, InQueue, Busy
<1>6. ASSUME NEW w \in Workers, Done(w)
      PROVE  Named'
  BY <1>6 DEF Done, QueueDone, Named, InQueue, Busy
<1>7. CASE StartScan
  <2>1. \A d \in Dirs : InQueue(d)' => InQueue(d) \/ d \in Roots
    BY <1>7 DEF StartScan, InQueue, Roots
  <2> QED
    BY <1>7, <2>1, NameableClosed DEF StartScan, Named, Busy
<1>8. CASE WatchContext
  BY <1>8 DEF WatchContext, QueueCancel, workers, Named, InQueue, Busy
<1>9. CASE Join \/ Return \/ CancelContext \/ UNCHANGED vars
  BY <1>9 DEF Join, Return, CancelContext, vars, queue, workers, Named, InQueue, Busy
<1> QED
  BY <1>1, <1>2, <1>3, <1>4, <1>5, <1>6, <1>7, <1>8, <1>9 DEF Next, Worker

\* A worker that holds a directory may enter it, by the abstract rule.
LEMMA HeldIsEnterable ==
    ASSUME IInv, Named, NEW w \in Workers, Busy(w)
    PROVE  dir[w] \in Nameable /\ Promise!Enterable(dir[w]) /\ main = "running"
<1>1. dir[w] \in Nameable /\ main = "running"
  BY DEF IInv, Named, Housed, Busy
<1>2. Entered(dir[w])
  BY DEF Entered, Held
<1>3. \A l \in (Links \ Roots) \cap (recorded \cup refused) : Entered(l)
  BY DEF Entered
<1> QED
  BY <1>1, <1>2, <1>3 DEF IInv, Taken, TargetEnteredOnce, Promise!Enterable

\* A worker's step lists, refuses or skips one directory, or shows nothing.
LEMMA WorkerImplements ==
    ASSUME IInv, Named, NEW w \in Workers, Worker(w)
    PROVE  [Promise!Next]_(Promise!vars)
<1>1. main' = main
  BY DEF Worker, LoopTop, PopWait, PopEnd, PopTake, BeginStopped, BeginRefused, BeginList,
     WalkStopped, WalkIgnore, WalkDir, WalkSkip, WalkFollow, Record, Done
<1>2. CASE BeginRefused(w)
  <2>1. Promise!Refuse(dir[w])
    BY <1>2, HeldIsEnterable DEF BeginRefused, Busy, Promise!Refuse
  <2> QED
    BY <1>2, <2>1, HeldIsEnterable DEF BeginRefused, Busy, Promise!Next
<1>3. CASE Record(w)
  <2>1. Promise!List(dir[w])
    BY <1>3, HeldIsEnterable DEF Record, Busy, Promise!List
  <2> QED
    BY <1>3, <2>1, HeldIsEnterable DEF Record, Busy, Promise!Next
<1>4. ASSUME NEW e \in Dirs, WalkIgnore(w, e) \/ WalkSkip(w, e)
      PROVE  Promise!Next
  <2>1. e \in Nameable /\ main = "running"
    BY <1>4, HeldIsEnterable DEF WalkIgnore, WalkSkip, Named, Busy
  <2>2. Promise!Skip(e)
    BY <1>1, <1>4, <2>1 DEF WalkIgnore, WalkSkip, Promise!Skip
  <2> QED
    BY <2>1, <2>2 DEF Promise!Next
<1>5. CASE UNCHANGED <<recorded, refused, skipped>>
  BY <1>1, <1>5 DEF Promise!vars
<1>6. \/ BeginRefused(w) \/ Record(w) \/ (\E e \in Dirs : WalkIgnore(w, e) \/ WalkSkip(w, e))
      \/ UNCHANGED <<recorded, refused, skipped>>
  BY DEF Worker, LoopTop, PopWait, PopEnd, PopTake, BeginStopped, BeginList, WalkStopped, WalkDir,
     WalkFollow, Done, result
<1> QED
  BY <1>2, <1>3, <1>4, <1>5, <1>6

\* StartScan finishes or aborts the traversal when it returns.
LEMMA MainImplements ==
    ASSUME IInv,
           StartScan \/ WatchContext \/ Join \/ Return \/ CancelContext \/ UNCHANGED vars
    PROVE  [Promise!Next]_(Promise!vars)
<1>1. CASE Return /\ ~ctx
  <2>1. Promise!Finish
    BY <1>1, JoinedIsComplete DEF IInv, Return, result, Promise!Finish, Promise!Accounted
  <2> QED
    BY <2>1 DEF Promise!Next
<1>2. CASE (Return \/ StartScan) /\ ctx
  <2>1. Promise!Abort
    BY <1>2 DEF Return, StartScan, result, Promise!Abort
  <2> QED
    BY <2>1 DEF Promise!Next
<1>3. CASE StartScan /\ ~ctx
  BY <1>3 DEF StartScan, Promise!vars
<1>4. CASE WatchContext \/ Join \/ CancelContext \/ UNCHANGED vars
  BY <1>4 DEF WatchContext, Join, CancelContext, vars, result, Promise!vars
<1> QED
  BY <1>1, <1>2, <1>3, <1>4

\* Queue, workers and locks implement the plain promise: every listing, refusal
\* and skip is one the abstract traversal allows, and StartScan answers only
\* what the abstract one may answer.
THEOREM ImplementsTraversalCorrect == Spec => ImplementsTraversal
<1>1. Init => Promise!Init
  BY DEF Init, Promise!Init
<1>2. IInv /\ Named /\ [Next]_vars => [Promise!Next]_(Promise!vars)
  BY WorkerImplements, MainImplements DEF Next
<1>3. Spec => []Named
  <2>1. IInv /\ Named /\ [Next]_vars => Named'
    BY NamedStep DEF IInv
  <2> QED
    BY <2>1, NamedInit, IInvInvariant, PTL DEF Spec
<1> QED
  BY <1>1, <1>2, <1>3, IInvInvariant, PTL DEF Spec, ImplementsTraversal, Promise!Spec
=============================================================================
