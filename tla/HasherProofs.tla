--------------------------- MODULE HasherProofs ---------------------------
(***************************************************************************)
(* Proofs about Hasher: for any number of calls, workers, files and        *)
(* failing reads, a call that answers without an error has dropped no pair *)
(* of equal files (TwinsHashed), no report is late or claims too much      *)
(* (NoLateReport), and Cancel reaches the call that runs (CancelReaches).  *)
(*                                                                         *)
(* The invariant says, by the place of the one call that is inside, what   *)
(* the counters count (Counting), what the choice by size keeps together   *)
(* (Sifting), where the files of the stage's pool are (Pooling), and what  *)
(* a stage that is over leaves behind (Leaving).  A step is either one of  *)
(* that call and its workers (Works) or one beside it (Beside).            *)
(***************************************************************************)
EXTENDS Hasher, TLAPS, FiniteSetTheorems

Labels == {"out", "in", "select", "count", "start ends", "ends", "check",
           "start full", "full", "finish", "leave", "cancel", "release", "over"}

\* TypeOK, with what a scan is.
Typed ==
    /\ TypeOK
    /\ content \in [Files -> Contents] /\ hashAll \in BOOLEAN

\* One call is inside, and it is the one registered while it has a context.
Serial ==
    /\ \A c \in Callers : Inside(c) => running /\ \A d \in Callers \ {c} : ~Inside(d)
    /\ \A c \in Callers : registered = c <=> pc[c] \notin {"out", "in", "release", "over"}

\* The ticker runs for a call between Register and StopProgress, and has loaded
\* a total no smaller than the one there is, or none.
Reporting ==
    /\ ticker # "off" =>
          \E c \in Callers : pc[c] \notin {"out", "in", "cancel", "release", "over"}
    /\ ticker = "loaded" /\ seen # 0 => total <= seen

\* The files to be hashed in full that are not, yet.
Unread(c) == { f \in direct[c] : hash[f] # "own" }

Planned(c) ==
    pc[c] \in {"count", "start ends", "ends", "check", "start full", "full", "finish"} \/ Settled(c)
Chosen(c) == pc[c] \in {"check", "start full", "full", "finish"} \/ Settled(c)

\* The counters, by the place of the call: the total is the files hashed and
\* those still to be.
Counting(c) ==
    /\ pc[c] \in {"select", "count"} => total = 0 /\ (ticker = "loaded" => seen = 0)
    /\ pc[c] \in {"count", "start ends", "ends", "check", "start full"} =>
          \A f \in direct[c] \cup ends[c] : hash[f] # "own"
    /\ pc[c] \in {"start ends", "ends"} => total = hashed + Cardinality(direct[c] \cup ends[c])
    /\ Chosen(c) => total = hashed + Cardinality(Unread(c))
    /\ pc[c] \in {"leave", "cancel", "release"} => hashed <= total

\* Nothing that must be compared is dropped by the choice: files of one size
\* have their ends read together.
Sifting(c) == Planned(c) =>
    /\ \A f \in Compared : hash[f] = "own" \/ f \in direct[c] \cup ends[c]
    /\ \A f \in ends[c] : Peers(f) \subseteq ends[c]
    /\ hashAll => ends[c] = {}

\* The pool of the call's stage: what its producer, channel and workers hold.
\* Of a pool that is done nothing is lost, unless the context is done.
Held(c) == unsent[c] \cup tasks[c] \cup reading

Apart(c) == InStage(c) =>
    unsent[c] \cap tasks[c] = {} /\ unsent[c] \cap reading = {} /\ tasks[c] \cap reading = {}

Drained(c) == InStage(c) /\ idle + Cardinality(reading) < Workers =>
    ctx[c] \/ (producer[c] = "gone" /\ tasks[c] = {})

EndsHeld(c) == pc[c] = "ends" =>
    ctx[c] \/ ends[c] \subseteq Held(c) \cup quick \cup failed.ends

FullHeld(c) == pc[c] = "full" =>
    /\ Held(c) \cap failed.full = {}
    /\ Held(c) \cup failed.full \subseteq Unread(c)
    /\ ctx[c] \/ Unread(c) \subseteq Held(c) \cup failed.full

Pooling(c) == Apart(c) /\ Drained(c) /\ EndsHeld(c) /\ FullHeld(c)

\* What a stage that is over leaves behind.
Leaving(c) ==
    /\ pc[c] \in {"in", "select", "count", "start ends"} => failed = NoFailure
    /\ pc[c] \in {"ends", "check", "start full"} => failed.full = {}
    /\ Chosen(c) => /\ ends[c] \subseteq quick \cup failed.ends
                    /\ Survivors(c) \subseteq direct[c]
    /\ pc[c] = "finish" \/ Settled(c) => Unread(c) = failed.full

\* No call inside means no failures, and no producer leaves with files to send.
Resting ==
    /\ (\A c \in Callers : ~Inside(c)) => failed = NoFailure
    /\ \A c \in Callers : producer[c] = "gone" => unsent[c] = {}

At(c) == Counting(c) /\ Sifting(c) /\ Pooling(c) /\ Leaving(c)

IInv == Typed /\ Serial /\ Reporting /\ Resting /\ \A c \in Callers : At(c)

-----------------------------------------------------------------------------
\* Sets of files are finite, and grow and shrink one file at a time.
LEMMA Constants ==
    /\ Capacity \in Nat /\ Capacity >= 1 /\ Workers \in Nat /\ Workers >= 1 /\ MaxFaults \in Nat
    /\ IsFiniteSet(Files) /\ NoCaller \notin Callers
  BY HasherAssumption DEF HasherAssumption

LEMMA Sets ==
    \A S \in SUBSET Files : IsFiniteSet(S) /\ Cardinality(S) \in Nat
  BY Constants, FS_Subset, FS_CardinalityType

LEMMA OneMore ==
    ASSUME NEW S \in SUBSET Files, NEW f \in Files, NEW T, T = S \cup {f}
    PROVE  /\ Cardinality(S) \in Nat /\ Cardinality(T) \in Nat
           /\ Cardinality(T) <= Cardinality(S) + 1
<1>1. IsFiniteSet(S) /\ Cardinality(S) \in Nat /\ Cardinality(T) \in Nat
  BY Sets
<1>2. Cardinality(S \cup {f}) = IF f \in S THEN Cardinality(S) ELSE Cardinality(S) + 1
  BY <1>1, FS_AddElement
<1> QED
  BY <1>1, <1>2

LEMMA OneLess ==
    ASSUME NEW S \in SUBSET Files, NEW f \in S, NEW T, T = S \ {f}
    PROVE  /\ Cardinality(S) \in Nat /\ Cardinality(T) \in Nat
           /\ Cardinality(T) = Cardinality(S) - 1
<1>1. IsFiniteSet(S) /\ Cardinality(S) \in Nat /\ Cardinality(T) \in Nat
  BY Sets
<1>2. Cardinality(S \ {f}) = Cardinality(S) - 1
  BY <1>1, FS_RemoveElement
<1> QED
  BY <1>1, <1>2

LEMMA Smaller ==
    \A S, T \in SUBSET Files : S \subseteq T => Cardinality(S) <= Cardinality(T)
  BY Sets, FS_Subset

\* A worker that is done waits again.
LEMMA BackFits ==
    ASSUME Typed, NEW f \in Files, NEW c \in Callers, NEW stage, Reading(f, c, stage), Back(f)
    PROVE  /\ idle' \in 0..Workers /\ reading' \subseteq Files
           /\ idle' + Cardinality(reading') = idle + Cardinality(reading)
           /\ idle + Cardinality(reading) <= Workers
<1>1. /\ reading \in SUBSET Files /\ f \in reading
      /\ idle' = idle + 1 /\ reading' = reading \ {f}
      /\ idle \in 0..Workers /\ idle + Cardinality(reading) <= Workers /\ Workers \in Nat
  BY Constants DEF Typed, TypeOK, Types, Fits, Reading, Back
<1>2. /\ Cardinality(reading') = Cardinality(reading) - 1
      /\ Cardinality(reading) \in Nat /\ Cardinality(reading') \in Nat
  BY <1>1, OneLess
<1> QED
  BY <1>1, <1>2

LEMMA TypedInit == Init => Typed
<1> SUFFICES ASSUME Init PROVE Typed
  OBVIOUS
<1>1. Cardinality({}) = 0
  BY FS_EmptySet
<1>2. Types
  <2>1. hash \in [Files -> {"none", "old", "own"}]
    BY DEF Init
  <2>2. failed \in [ends : SUBSET Files, full : SUBSET Files]
    BY DEF Init, NoFailure
  <2>3. 0 \in 0..Workers /\ 0 \in 0..MaxFaults
    BY Constants
  <2> QED
    BY <2>1, <2>2, <2>3 DEF Init, Types
<1>3. Fits
  BY <1>1, Constants DEF Init, Fits
<1>4. content \in [Files -> Contents] /\ hashAll \in BOOLEAN
  BY HasherAssumption DEF Init, HasherAssumption
<1> QED
  BY <1>2, <1>3, <1>4 DEF Typed, TypeOK

\* What starts, fills and empties the pool of a stage.
PoolMoves ==
    \/ \E c \in Callers : \/ StartEnds(c) \/ StartFull(c)
                          \/ Send(c) \/ Receive(c) \/ WorkerLeaves(c)
    \/ \E c \in Callers, f \in Files : Read(f, c)

LEMMA PoolElse == [Next]_vars => PoolMoves \/ UNCHANGED <<tasks, idle, reading>>
  BY DEF PoolMoves, Next, RunHashing, Produce, Wait, Call, CallRefused, CallerCancels, Register,
         SelectCandidates, SetTotal, EndsRead, Check, FullRead, Finish, StopProgress, Unregister,
         Release, ProducerLeaves, Cancel, Tick, Emit, TickerLeaves, pool, vars

LEMMA FitsStep == Typed /\ [Next]_vars => Fits'
<1> SUFFICES ASSUME Typed, [Next]_vars PROVE Fits'
  OBVIOUS
<1>a. /\ tasks \in [Callers -> SUBSET Files] /\ reading \in SUBSET Files /\ idle \in 0..Workers
      /\ \A c \in Callers : tasks[c] \in SUBSET Files
      /\ \A c \in Callers : Cardinality(tasks[c]) <= Capacity /\ Cardinality(tasks[c]) \in Nat
      /\ idle + Cardinality(reading) <= Workers /\ Cardinality(reading) \in Nat
      /\ Capacity \in Nat /\ Capacity >= 1 /\ Workers \in Nat
  BY Constants, Sets DEF Typed, TypeOK, Types, Fits
<1>1. ASSUME NEW c \in Callers, StartEnds(c) \/ StartFull(c)
      PROVE  Fits'
  <2>1. tasks' = [tasks EXCEPT ![c] = {}] /\ idle' = Workers /\ reading' = {}
    BY <1>1 DEF StartEnds, StartFull, StartStage
  <2>2. \A d \in Callers : tasks'[d] = {} \/ tasks'[d] = tasks[d]
    BY <1>a, <2>1
  <2>3. \A S : S = {} => Cardinality(S) = 0
    BY FS_EmptySet
  <2>4. \A d \in Callers : Cardinality(tasks'[d]) <= Capacity
    BY <1>a, <2>2, <2>3
  <2>5. Cardinality(reading') = 0
    BY <2>1, <2>3
  <2> QED
    BY <1>a, <2>1, <2>4, <2>5 DEF Fits
<1>2. ASSUME NEW c \in Callers, Send(c)
      PROVE  Fits'
  <2>1. PICK f \in Files : tasks' = [tasks EXCEPT ![c] = tasks[c] \cup {f}] /\ UNCHANGED <<idle, reading>>
    BY <1>2 DEF Send, Typed, TypeOK, Types
  <2>2. tasks'[c] = tasks[c] \cup {f} /\ \A d \in Callers \ {c} : tasks'[d] = tasks[d]
    BY <1>a, <2>1
  <2>3. Cardinality(tasks[c]) < Capacity
    BY <1>2 DEF Send
  <2>4. Cardinality(tasks'[c]) <= Cardinality(tasks[c]) + 1 /\ Cardinality(tasks'[c]) \in Nat
    BY <1>a, <2>2, OneMore
  <2>5. Cardinality(tasks'[c]) <= Capacity
    BY <1>a, <2>3, <2>4
  <2>6. \A d \in Callers : Cardinality(tasks'[d]) <= Capacity
    BY <1>a, <2>2, <2>5
  <2> QED
    BY <1>a, <2>1, <2>6 DEF Fits
<1>3. ASSUME NEW c \in Callers, Receive(c)
      PROVE  Fits'
  <2>1. PICK f \in tasks[c] : /\ tasks' = [tasks EXCEPT ![c] = tasks[c] \ {f}]
                              /\ idle' = idle - 1 /\ reading' = reading \cup {f}
    BY <1>a, <1>3 DEF Receive
  <2>2. tasks'[c] = tasks[c] \ {f} /\ \A d \in Callers \ {c} : tasks'[d] = tasks[d]
    BY <1>a, <2>1
  <2>3. Cardinality(reading') <= Cardinality(reading) + 1 /\ Cardinality(reading') \in Nat
    BY <1>a, <2>1, OneMore
  <2>4. Cardinality(tasks'[c]) = Cardinality(tasks[c]) - 1
    BY <1>a, <2>2, OneLess
  <2>5. Cardinality(tasks'[c]) <= Capacity
    BY <1>a, <2>4
  <2>6. \A d \in Callers : Cardinality(tasks'[d]) <= Capacity
    BY <1>a, <2>2, <2>5
  <2>7. idle' + Cardinality(reading') <= Workers
    BY <1>a, <2>1, <2>3
  <2> QED
    BY <2>6, <2>7 DEF Fits
<1>4. ASSUME NEW c \in Callers, WorkerLeaves(c)
      PROVE  Fits'
  BY <1>a, <1>4 DEF WorkerLeaves, Fits
<1>5. ASSUME NEW c \in Callers, NEW f \in Files, Read(f, c)
      PROVE  Fits'
  <2>1. UNCHANGED tasks /\ \E stage : Reading(f, c, stage) /\ Back(f)
    BY <1>5 DEF Read, ReadEnds, ReadFull, ReadFails, ReadAbandoned, Back
  <2> QED
    BY <1>a, <2>1, BackFits DEF Fits
<1>6. CASE UNCHANGED <<tasks, idle, reading>>
  BY <1>a, <1>6 DEF Fits
<1> QED
  BY <1>1, <1>2, <1>3, <1>4, <1>5, <1>6, PoolElse DEF PoolMoves

LEMMA StageTyped ==
    ASSUME Types, NEW c \in Callers, NEW fs \in SUBSET Files, NEW stage \in {"ends", "full"},
           StartStage(c, fs, stage)
    PROVE  Types' /\ UNCHANGED atrest
<1>1. /\ unsent' \in [Callers -> SUBSET Files] /\ tasks' \in [Callers -> SUBSET Files]
      /\ producer' \in [Callers -> {"off", "sending", "gone"}]
      /\ idle' \in 0..Workers /\ reading' \subseteq Files
  <2>1. /\ unsent \in [Callers -> SUBSET Files] /\ tasks \in [Callers -> SUBSET Files]
        /\ producer \in [Callers -> {"off", "sending", "gone"}] /\ Workers \in Nat
    BY Constants DEF Types
  <2> QED
    BY <2>1 DEF StartStage
<1> QED
  BY <1>1 DEF StartStage, Types, Goto, atrest, nodes, control, plan, counters, tick

LEMMA TypedStep == Typed /\ [Next]_vars => Typed'
<1> SUFFICES ASSUME Typed, [Next]_vars PROVE Typed'
  OBVIOUS
<1> SUFFICES Types' /\ UNCHANGED atrest
  BY FitsStep DEF Typed, TypeOK, atrest
<1>a. Types
  BY DEF Typed, TypeOK
<1>b. /\ hashed \in Nat /\ idle \in 0..Workers /\ faults \in 0..MaxFaults
      /\ MaxFaults \in Nat /\ Workers \in Nat
  BY <1>a, Constants DEF Types
<1>c. /\ direct \in [Callers -> SUBSET Files] /\ ends \in [Callers -> SUBSET Files]
      /\ unsent \in [Callers -> SUBSET Files] /\ tasks \in [Callers -> SUBSET Files]
      /\ \A c \in Callers : /\ direct[c] \in SUBSET Files /\ ends[c] \in SUBSET Files
                            /\ unsent[c] \in SUBSET Files /\ tasks[c] \in SUBSET Files
      /\ reading \in SUBSET Files /\ failed \in [ends : SUBSET Files, full : SUBSET Files]
  BY <1>a DEF Types
<1> USE DEF Goto, atrest, nodes, control, plan, pool, counters, tick
<1>1. ASSUME NEW c \in Callers, Call(c)
      PROVE  Types' /\ UNCHANGED atrest
  BY <1>1, <1>a DEF Call, Types
<1>2. ASSUME NEW c \in Callers, CallRefused(c)
      PROVE  Types' /\ UNCHANGED atrest
  BY <1>2, <1>a DEF CallRefused, Types
<1>3. ASSUME NEW c \in Callers, CallerCancels(c)
      PROVE  Types' /\ UNCHANGED atrest
  BY <1>3, <1>a DEF CallerCancels, Types
<1>4. ASSUME NEW c \in Callers, Register(c)
      PROVE  Types' /\ UNCHANGED atrest
  BY <1>4, <1>a DEF Register, Fails, Types
<1>5. ASSUME NEW c \in Callers, SelectCandidates(c)
      PROVE  Types' /\ UNCHANGED atrest
  <2>1. /\ { f \in Compared : Reused(f) } \in SUBSET Files
        /\ { f \in Pending : NeedsFull(f) } \in SUBSET Files
        /\ { f \in Pending : ~NeedsFull(f) } \in SUBSET Files
    BY DEF Pending, Compared, Candidates, Eligible
  <2>2. Cardinality({ f \in Compared : Reused(f) }) \in Nat
    BY <2>1, Sets, <1>b, <1>c
  <2> QED
    BY <1>5, <2>1, <2>2, <1>a DEF SelectCandidates, Types
<1>6. ASSUME NEW c \in Callers, SetTotal(c)
      PROVE  Types' /\ UNCHANGED atrest
  <2> DEFINE n == Cardinality(direct[c] \cup ends[c])
  <2>1. n \in Nat
    BY Sets, <1>c
  <2>2. total' = hashed + n
    BY <1>6 DEF SetTotal
  <2> HIDE DEF n
  <2>3. total' \in Nat
    BY <2>1, <2>2, <1>b
  <2> QED
    BY <1>6, <2>3, <1>a DEF SetTotal, Types
<1>7. ASSUME NEW c \in Callers, StartEnds(c)
      PROVE  Types' /\ UNCHANGED atrest
  BY <1>7, StageTyped, <1>a DEF StartEnds, Types
<1>8. ASSUME NEW c \in Callers, EndsRead(c)
      PROVE  Types' /\ UNCHANGED atrest
  <2>1. Survivors(c) \in SUBSET Files
    BY <1>c DEF Survivors
  <2>2. CASE ctx[c]
    BY <1>8, <2>2, <1>a DEF EndsRead, Fails, Types
  <2>3. CASE ~ctx[c]
    <3>1. direct' = [direct EXCEPT ![c] = @ \cup Survivors(c)] /\ total' = hashed + Cardinality(direct'[c])
      BY <1>8, <2>3, <1>b, <1>c DEF EndsRead
    <3>2. direct' \in [Callers -> SUBSET Files] /\ direct'[c] \in SUBSET Files
      BY <2>1, <3>1, <1>b, <1>c
    <3>3. Cardinality(direct'[c]) \in Nat
      BY <3>2, Sets, <1>b, <1>c
    <3>4. total' \in Nat
      BY <3>1, <3>3, <1>b, <1>c
    <3> QED
      BY <1>8, <2>3, <3>2, <3>4, <1>a DEF EndsRead, Types
  <2> QED
    BY <2>2, <2>3
<1>9. ASSUME NEW c \in Callers, Check(c)
      PROVE  Types' /\ UNCHANGED atrest
  BY <1>9, <1>a DEF Check, Fails, Types
<1>10. ASSUME NEW c \in Callers, StartFull(c)
       PROVE  Types' /\ UNCHANGED atrest
  BY <1>10, StageTyped, <1>a DEF StartFull, Types
<1>11. ASSUME NEW c \in Callers, FullRead(c)
       PROVE  Types' /\ UNCHANGED atrest
  BY <1>11, <1>a DEF FullRead, Fails, Types
<1>12. ASSUME NEW c \in Callers, Finish(c)
       PROVE  Types' /\ UNCHANGED atrest
  BY <1>12, <1>a DEF Finish, Fails, Types
<1>13. ASSUME NEW c \in Callers, StopProgress(c)
       PROVE  Types' /\ UNCHANGED atrest
  BY <1>13, <1>a DEF StopProgress, Types
<1>14. ASSUME NEW c \in Callers, Unregister(c)
       PROVE  Types' /\ UNCHANGED atrest
  BY <1>14, <1>a DEF Unregister, Types
<1>15. ASSUME NEW c \in Callers, Release(c)
       PROVE  Types' /\ UNCHANGED atrest
  BY <1>15, <1>a DEF Release, NoFailure, Types
<1>16. ASSUME NEW c \in Callers, Send(c)
       PROVE  Types' /\ UNCHANGED atrest
  <2>1. unsent' \in [Callers -> SUBSET Files] /\ tasks' \in [Callers -> SUBSET Files]
    BY <1>16, <1>b, <1>c DEF Send
  <2> QED
    BY <1>16, <2>1, <1>a DEF Send, Types
<1>17. ASSUME NEW c \in Callers, ProducerLeaves(c)
       PROVE  Types' /\ UNCHANGED atrest
  BY <1>17, <1>a DEF ProducerLeaves, Types
<1>18. ASSUME NEW c \in Callers, Receive(c)
       PROVE  Types' /\ UNCHANGED atrest
  <2>1. tasks' \in [Callers -> SUBSET Files] /\ reading' \subseteq Files /\ idle' \in 0..Workers
    BY <1>18, <1>b, <1>c DEF Receive
  <2> QED
    BY <1>18, <2>1, <1>a DEF Receive, Types
<1>19. ASSUME NEW c \in Callers, WorkerLeaves(c)
       PROVE  Types' /\ UNCHANGED atrest
  <2>1. idle' \in 0..Workers
    BY <1>19, <1>b, <1>c DEF WorkerLeaves
  <2> QED
    BY <1>19, <2>1, <1>a DEF WorkerLeaves, Types
<1>20. ASSUME NEW c \in Callers, NEW f \in Files, ReadEnds(f, c)
       PROVE  Types' /\ UNCHANGED atrest
  <2>1. idle' \in 0..Workers /\ reading' \subseteq Files
    BY <1>20, BackFits, <1>b, <1>c DEF ReadEnds
  <2> QED
    BY <1>20, <2>1, <1>a DEF ReadEnds, Reading, Back, InStage, Types
<1>21. ASSUME NEW c \in Callers, NEW f \in Files, ReadFull(f, c)
       PROVE  Types' /\ UNCHANGED atrest
  <2>1. idle' \in 0..Workers /\ reading' \subseteq Files
    BY <1>21, BackFits, <1>b, <1>c DEF ReadFull
  <2>2. hashed' \in Nat
    BY <1>21, <1>b DEF ReadFull
  <2>3. hash' \in [Files -> {"none", "old", "own"}]
    BY <1>21, <1>a DEF ReadFull, Types
  <2> QED
    BY <1>21, <2>1, <2>2, <2>3, <1>a DEF ReadFull, Back, Types
<1>22. ASSUME NEW c \in Callers, NEW f \in Files, ReadFails(f, c)
       PROVE  Types' /\ UNCHANGED atrest
  <2>1. idle' \in 0..Workers /\ reading' \subseteq Files
    BY <1>22, BackFits, <1>b, <1>c DEF ReadFails
  <2>2. faults' \in 0..MaxFaults
    BY <1>22, <1>b DEF ReadFails
  <2>3. failed' = [failed EXCEPT ![pc[c]] = failed[pc[c]] \cup {f}] /\ pc[c] \in {"ends", "full"}
    BY <1>22 DEF ReadFails, InStage
  <2>4. failed' \in [ends : SUBSET Files, full : SUBSET Files]
    BY <2>3, <1>c
  <2> QED
    BY <1>22, <2>1, <2>2, <2>4, <1>a DEF ReadFails, Back, Types
<1>23. ASSUME NEW c \in Callers, NEW f \in Files, ReadAbandoned(f, c)
       PROVE  Types' /\ UNCHANGED atrest
  <2>1. idle' \in 0..Workers /\ reading' \subseteq Files
    BY <1>23, BackFits, <1>b, <1>c DEF ReadAbandoned
  <2> QED
    BY <1>23, <2>1, <1>a DEF ReadAbandoned, Reading, Back, InStage, Types
<1>24. CASE Cancel
  BY <1>24, <1>a DEF Cancel, Types
<1>25. CASE Tick
  BY <1>25, <1>a DEF Tick, Types
<1>26. CASE Emit
  BY <1>26, <1>a DEF Emit, Types
<1>27. CASE TickerLeaves
  BY <1>27, <1>a DEF TickerLeaves, Types
<1>28. CASE UNCHANGED vars
  BY <1>28, <1>a DEF vars, Types
<1> QED
  BY <1>1, <1>2, <1>3, <1>4, <1>5, <1>6, <1>7, <1>8, <1>9, <1>10, <1>11, <1>12, <1>13,
     <1>14, <1>15, <1>16, <1>17, <1>18, <1>19, <1>20, <1>21, <1>22, <1>23, <1>24, <1>25,
     <1>26, <1>27, <1>28
     DEF Next, RunHashing, Produce, Wait, Read

LEMMA SerialStep == Typed /\ Serial /\ [Next]_vars => Serial'
<1> SUFFICES ASSUME Typed, Serial, [Next]_vars PROVE Serial'
  OBVIOUS
<1>a. /\ pc \in [Callers -> Labels] /\ registered \in Callers \cup {NoCaller} /\ NoCaller \notin Callers
  BY Constants DEF Typed, TypeOK, Types, Labels
<1> USE <1>a DEF Serial, Inside, Goto, control
<1>1. ASSUME NEW c \in Callers, Call(c)
      PROVE  Serial'
  BY <1>1 DEF Call, Arrives
<1>2. ASSUME NEW c \in Callers, CallRefused(c)
      PROVE  Serial'
  <2>1. pc[c] = "out" /\ pc' = [pc EXCEPT ![c] = "over"] /\ UNCHANGED <<running, registered>>
    BY <1>2 DEF CallRefused, Arrives
  <2> QED
    BY <2>1
<1>3. ASSUME NEW c \in Callers, CallerCancels(c)
      PROVE  Serial'
  BY <1>3 DEF CallerCancels
<1>4. ASSUME NEW c \in Callers, Register(c)
      PROVE  Serial'
  BY <1>4 DEF Register, Fails
<1>5. ASSUME NEW c \in Callers, SelectCandidates(c)
      PROVE  Serial'
  BY <1>5 DEF SelectCandidates
<1>6. ASSUME NEW c \in Callers, SetTotal(c)
      PROVE  Serial'
  BY <1>6, ZenonT(40) DEF SetTotal
<1>7. ASSUME NEW c \in Callers, StartEnds(c)
      PROVE  Serial'
  BY <1>7, ZenonT(40) DEF StartEnds, StartStage
<1>8. ASSUME NEW c \in Callers, EndsRead(c)
      PROVE  Serial'
  BY <1>8 DEF EndsRead, Fails
<1>9. ASSUME NEW c \in Callers, Check(c)
      PROVE  Serial'
  BY <1>9, ZenonT(40) DEF Check, Fails
<1>10. ASSUME NEW c \in Callers, StartFull(c)
       PROVE  Serial'
  BY <1>10, ZenonT(40) DEF StartFull, StartStage
<1>11. ASSUME NEW c \in Callers, FullRead(c)
       PROVE  Serial'
  BY <1>11 DEF FullRead, Fails
<1>12. ASSUME NEW c \in Callers, Finish(c)
       PROVE  Serial'
  BY <1>12 DEF Finish, Fails
<1>13. ASSUME NEW c \in Callers, StopProgress(c)
       PROVE  Serial'
  BY <1>13 DEF StopProgress
<1>14. ASSUME NEW c \in Callers, Unregister(c)
       PROVE  Serial'
  BY <1>14 DEF Unregister
<1>15. ASSUME NEW c \in Callers, Release(c)
       PROVE  Serial'
  BY <1>15 DEF Release
<1>16. ASSUME NEW c \in Callers, Send(c)
       PROVE  Serial'
  BY <1>16 DEF Send
<1>17. ASSUME NEW c \in Callers, ProducerLeaves(c)
       PROVE  Serial'
  BY <1>17 DEF ProducerLeaves
<1>18. ASSUME NEW c \in Callers, Receive(c)
       PROVE  Serial'
  BY <1>18 DEF Receive
<1>19. ASSUME NEW c \in Callers, WorkerLeaves(c)
       PROVE  Serial'
  BY <1>19 DEF WorkerLeaves
<1>20. ASSUME NEW c \in Callers, NEW f \in Files, ReadEnds(f, c)
       PROVE  Serial'
  BY <1>20 DEF ReadEnds, Reading, Back
<1>21. ASSUME NEW c \in Callers, NEW f \in Files, ReadFull(f, c)
       PROVE  Serial'
  BY <1>21 DEF ReadFull, Reading, Back
<1>22. ASSUME NEW c \in Callers, NEW f \in Files, ReadFails(f, c)
       PROVE  Serial'
  BY <1>22 DEF ReadFails, Reading, Back
<1>23. ASSUME NEW c \in Callers, NEW f \in Files, ReadAbandoned(f, c)
       PROVE  Serial'
  BY <1>23 DEF ReadAbandoned, Reading, Back
<1>24. CASE Cancel
  BY <1>24 DEF Cancel
<1>25. CASE Tick
  BY <1>25 DEF Tick
<1>26. CASE Emit
  BY <1>26 DEF Emit
<1>27. CASE TickerLeaves
  BY <1>27 DEF TickerLeaves
<1>28. CASE UNCHANGED vars
  BY <1>28 DEF vars
<1> QED
  BY <1>1, <1>2, <1>3, <1>4, <1>5, <1>6, <1>7, <1>8, <1>9, <1>10, <1>11, <1>12, <1>13,
     <1>14, <1>15, <1>16, <1>17, <1>18, <1>19, <1>20, <1>21, <1>22, <1>23, <1>24, <1>25,
     <1>26, <1>27, <1>28
     DEF Next, RunHashing, Produce, Wait, Read

\* The total is never raised once it is set.
LEMMA TotalFalls ==
    ASSUME Typed, NEW c \in Callers, Counting(c), EndsRead(c)
    PROVE  total' \in Nat /\ total' <= total
<1>1. /\ direct[c] \in SUBSET Files /\ ends[c] \in SUBSET Files /\ hashed \in Nat /\ total \in Nat
      /\ direct \in [Callers -> SUBSET Files]
  BY DEF Typed, TypeOK, Types
<1>2. CASE ctx[c]
  BY <1>1, <1>2 DEF EndsRead
<1>3. CASE ~ctx[c]
  <2> DEFINE left == direct[c] \cup ends[c]
  <2>1. total = hashed + Cardinality(left)
    BY DEF EndsRead, Counting
  <2>2. direct'[c] = direct[c] \cup Survivors(c) /\ total' = hashed + Cardinality(direct'[c])
    BY <1>1, <1>3 DEF EndsRead
  <2>3. direct'[c] \subseteq left /\ left \in SUBSET Files
    BY <1>1, <2>2 DEF Survivors
  <2>4. /\ Cardinality(direct'[c]) <= Cardinality(left)
        /\ Cardinality(direct'[c]) \in Nat /\ Cardinality(left) \in Nat
    BY <2>3, Sets, Smaller
  <2> HIDE DEF left
  <2> QED
    BY <1>1, <2>1, <2>2, <2>4
<1> QED
  BY <1>2, <1>3

LEMMA ReportingStep == IInv /\ [Next]_vars => Reporting'
<1> SUFFICES ASSUME IInv, [Next]_vars PROVE Reporting'
  OBVIOUS
<1>a. /\ pc \in [Callers -> Labels] /\ seen \in Nat /\ total \in Nat /\ hashed \in Nat
  BY DEF IInv, Typed, TypeOK, Types, Labels
<1>b. Typed /\ Serial /\ Reporting /\ \A c \in Callers : Counting(c)
  BY DEF IInv, At
<1> USE <1>a, <1>b DEF Reporting, Goto, control, counters, tick
<1>1. ASSUME NEW c \in Callers, Call(c)
      PROVE  Reporting'
  <2>1. pc[c] = "out" /\ pc' = [pc EXCEPT ![c] = "in"] /\ UNCHANGED <<ticker, seen, total>>
    BY <1>1 DEF Call, Arrives
  <2> QED
    BY <2>1
<1>2. ASSUME NEW c \in Callers, CallRefused(c)
      PROVE  Reporting'
  <2>1. pc[c] = "out" /\ pc' = [pc EXCEPT ![c] = "over"] /\ UNCHANGED <<ticker, seen, total>>
    BY <1>2 DEF CallRefused, Arrives
  <2> QED
    BY <2>1
<1>3. ASSUME NEW c \in Callers, CallerCancels(c)
      PROVE  Reporting'
  BY <1>3 DEF CallerCancels
<1>4. ASSUME NEW c \in Callers, Register(c)
      PROVE  Reporting'
  BY <1>4 DEF Register, Fails
<1>5. ASSUME NEW c \in Callers, SelectCandidates(c)
      PROVE  Reporting'
  BY <1>5 DEF SelectCandidates
<1>6. ASSUME NEW c \in Callers, SetTotal(c)
      PROVE  Reporting'
  <2>1. ~(ticker = "loaded" /\ seen # 0)
    BY <1>6 DEF SetTotal, Counting
  <2>2. UNCHANGED <<ticker, seen>> /\ pc[c] = "count" /\ pc' = [pc EXCEPT ![c] = IF ends[c] = {} THEN "check" ELSE "start ends"]
    BY <1>6 DEF SetTotal
  <2> QED
    BY <2>1, <2>2
<1>7. ASSUME NEW c \in Callers, StartEnds(c)
      PROVE  Reporting'
  BY <1>7 DEF StartEnds, StartStage
<1>8. ASSUME NEW c \in Callers, EndsRead(c)
      PROVE  Reporting'
  <2>1. total' \in Nat /\ total' <= total
    BY <1>8, TotalFalls
  <2>2. UNCHANGED <<ticker, seen>> /\ pc[c] = "ends" /\ pc' \in {[pc EXCEPT ![c] = "leave"], [pc EXCEPT ![c] = "check"]}
    BY <1>8 DEF EndsRead, Fails
  <2> QED
    BY <2>1, <2>2
<1>9. ASSUME NEW c \in Callers, Check(c)
      PROVE  Reporting'
  BY <1>9 DEF Check, Fails
<1>10. ASSUME NEW c \in Callers, StartFull(c)
       PROVE  Reporting'
  BY <1>10 DEF StartFull, StartStage
<1>11. ASSUME NEW c \in Callers, FullRead(c)
       PROVE  Reporting'
  BY <1>11 DEF FullRead, Fails
<1>12. ASSUME NEW c \in Callers, Finish(c)
       PROVE  Reporting'
  BY <1>12 DEF Finish, Fails
<1>13. ASSUME NEW c \in Callers, StopProgress(c)
       PROVE  Reporting'
  BY <1>13 DEF StopProgress
<1>14. ASSUME NEW c \in Callers, Unregister(c)
       PROVE  Reporting'
  BY <1>14 DEF Unregister
<1>15. ASSUME NEW c \in Callers, Release(c)
       PROVE  Reporting'
  BY <1>15 DEF Release
<1>16. ASSUME NEW c \in Callers, Send(c)
       PROVE  Reporting'
  BY <1>16 DEF Send
<1>17. ASSUME NEW c \in Callers, ProducerLeaves(c)
       PROVE  Reporting'
  BY <1>17 DEF ProducerLeaves
<1>18. ASSUME NEW c \in Callers, Receive(c)
       PROVE  Reporting'
  BY <1>18 DEF Receive
<1>19. ASSUME NEW c \in Callers, WorkerLeaves(c)
       PROVE  Reporting'
  BY <1>19 DEF WorkerLeaves
<1>20. ASSUME NEW c \in Callers, NEW f \in Files, ReadEnds(f, c)
       PROVE  Reporting'
  BY <1>20 DEF ReadEnds, Reading, Back
<1>21. ASSUME NEW c \in Callers, NEW f \in Files, ReadFull(f, c)
       PROVE  Reporting'
  BY <1>21 DEF ReadFull, Reading, Back
<1>22. ASSUME NEW c \in Callers, NEW f \in Files, ReadFails(f, c)
       PROVE  Reporting'
  BY <1>22 DEF ReadFails, Reading, Back
<1>23. ASSUME NEW c \in Callers, NEW f \in Files, ReadAbandoned(f, c)
       PROVE  Reporting'
  BY <1>23 DEF ReadAbandoned, Reading, Back
<1>24. CASE Cancel
  BY <1>24 DEF Cancel
<1>25. CASE Tick
  BY <1>25 DEF Tick
<1>26. CASE Emit
  BY <1>26 DEF Emit
<1>27. CASE TickerLeaves
  BY <1>27 DEF TickerLeaves
<1>28. CASE UNCHANGED vars
  BY <1>28 DEF vars
<1> QED
  BY <1>1, <1>2, <1>3, <1>4, <1>5, <1>6, <1>7, <1>8, <1>9, <1>10, <1>11, <1>12, <1>13,
     <1>14, <1>15, <1>16, <1>17, <1>18, <1>19, <1>20, <1>21, <1>22, <1>23, <1>24, <1>25,
     <1>26, <1>27, <1>28
     DEF Next, RunHashing, Produce, Wait, Read

-----------------------------------------------------------------------------
\* What the call inside does, and its workers.
Works(c) == RunHashing(c) \/ Wait(c) \/ \E f \in Files : Read(f, c)

LEMMA WorksInside ==
    ASSUME Typed, Serial, NEW c \in Callers, Works(c)
    PROVE  /\ Inside(c) /\ pc[c] # "out"
           /\ \A d \in Callers \ {c} : pc'[d] = pc[d] /\ pc[d] \in {"out", "over"}
<1>a. pc \in [Callers -> Labels]
  BY DEF Typed, TypeOK, Types, Labels
<1> USE <1>a DEF Goto, control, atrest
<1> SUFFICES pc[c] \notin {"out", "over"} /\ \A d \in Callers \ {c} : pc'[d] = pc[d]
  BY <1>a DEF Serial, Inside
<1>1. CASE Register(c)
  BY <1>1 DEF Register, Fails
<1>2. CASE SelectCandidates(c)
  BY <1>2 DEF SelectCandidates
<1>3. CASE SetTotal(c)
  BY <1>3 DEF SetTotal
<1>4. CASE StartEnds(c)
  BY <1>4 DEF StartEnds, StartStage
<1>5. CASE EndsRead(c)
  BY <1>5 DEF EndsRead, Fails
<1>6. CASE Check(c)
  BY <1>6 DEF Check, Fails
<1>7. CASE StartFull(c)
  BY <1>7 DEF StartFull, StartStage
<1>8. CASE FullRead(c)
  BY <1>8 DEF FullRead, Fails
<1>9. CASE Finish(c)
  BY <1>9 DEF Finish, Fails
<1>10. CASE StopProgress(c)
  BY <1>10 DEF StopProgress
<1>11. CASE Unregister(c)
  BY <1>11 DEF Unregister
<1>12. CASE Release(c)
  BY <1>12 DEF Release
<1>13. ASSUME Receive(c) \/ WorkerLeaves(c)
       PROVE  pc[c] \notin {"out", "over"} /\ \A d \in Callers \ {c} : pc'[d] = pc[d]
  BY <1>13 DEF Receive, WorkerLeaves, InStage
<1>14. ASSUME NEW f \in Files, ReadEnds(f, c) \/ ReadFull(f, c) \/ ReadFails(f, c) \/ ReadAbandoned(f, c)
       PROVE  pc[c] \notin {"out", "over"} /\ \A d \in Callers \ {c} : pc'[d] = pc[d]
  BY <1>14 DEF ReadEnds, ReadFull, ReadFails, ReadAbandoned, InStage, Reading, Back
<1> QED
  BY <1>1, <1>2, <1>3, <1>4, <1>5, <1>6, <1>7, <1>8, <1>9, <1>10, <1>11, <1>12, <1>13, <1>14
     DEF Works, RunHashing, Wait, Read

\* A call that is not inside asks nothing of the rest.
LEMMA Outside ==
    ASSUME NEW c \in Callers, pc'[c] \in {"out", "over"}
    PROVE  At(c)'
  BY DEF At, Counting, Sifting, Pooling, Apart, Drained, EndsHeld, FullHeld, Leaving, Planned, Chosen, Settled, InStage

LEMMA SumIsMore == \A m, h, n \in Nat : m = h + n => h <= m
  OBVIOUS

LEMMA SumGoesOn == \A m, h, n, k \in Nat : m = h + n /\ k = n - 1 => m = (h + 1) + k
  OBVIOUS

LEMMA CountingKept ==
    ASSUME IInv, NEW c \in Callers, Works(c)
    PROVE  Counting(c)'
<1>a. /\ Typed /\ Serial /\ Reporting /\ Counting(c) /\ Pooling(c)
      /\ Inside(c) /\ \A d \in Callers \ {c} : ~Inside(d)
  BY WorksInside DEF IInv, At, Inside
<1>b. /\ pc \in [Callers -> Labels] /\ result \in [Callers -> {"none", "ok", "cancelled", "in progress"}]
      /\ direct \in [Callers -> SUBSET Files] /\ ends \in [Callers -> SUBSET Files]
      /\ direct[c] \in SUBSET Files /\ ends[c] \in SUBSET Files
      /\ hash \in [Files -> {"none", "old", "own"}]
  BY <1>a DEF Typed, TypeOK, Types, Labels
<1>n. hashed \in Nat /\ total \in Nat /\ seen \in Nat
  BY <1>a DEF Typed, TypeOK, Types
<1>c. Counting(c)
  BY <1>a
<1>d. Chosen(c) => hashed <= total
  <2>1. Unread(c) \in SUBSET Files
    BY <1>b DEF Unread
  <2>2. Cardinality(Unread(c)) \in Nat
    BY <2>1, Sets
  <2> QED
    BY <1>n, <1>c, <2>2, SumIsMore DEF Counting
<1> USE DEF Goto, Chosen, Settled, Unread, counters, plan, nodes, tick, control
<1>1. CASE Register(c)
  <2>1. total' = 0 /\ hashed' = 0
    BY <1>b, <1>1 DEF Register
  <2>2. CASE ctx[c]
    <3>1. pc'[c] = "leave" /\ result'[c] = "cancelled"
      BY <1>b, <1>1, <2>2 DEF Register, Fails
    <3>2. hashed' <= total'
      BY <2>1
    <3> QED
      BY <3>1, <3>2 DEF Counting
  <2>3. CASE ~ctx[c]
    <3>1. pc'[c] = "select" /\ ticker' = "on"
      BY <1>b, <1>1, <2>3 DEF Register
    <3> QED
      BY <2>1, <3>1 DEF Counting
  <2> QED
    BY <2>2, <2>3
<1>2. CASE SelectCandidates(c)
  <2>1. pc'[c] = "count" /\ total' = total /\ UNCHANGED <<ticker, seen>>
    BY <1>b, <1>2 DEF SelectCandidates
  <2>2. total = 0 /\ (ticker = "loaded" => seen = 0)
    BY <1>b, <1>2, <1>c DEF SelectCandidates, Counting
  <2>3. \A f \in direct'[c] \cup ends'[c] : f \in Files /\ hash[f] # "own"
    BY <1>b, <1>2 DEF SelectCandidates, Pending, Reused, Compared, Candidates, Eligible
  <2>4. \A f \in Files : hash[f] # "own" => hash'[f] # "own"
    BY <1>b, <1>2 DEF SelectCandidates
  <2> QED
    BY <1>b, <2>1, <2>2, <2>3, <2>4 DEF Counting
<1>3. CASE SetTotal(c)
  <2>1. \A f \in direct[c] \cup ends[c] : hash[f] # "own"
    BY <1>b, <1>3, <1>c DEF SetTotal, Counting
  <2>2. total' = hashed + Cardinality(direct[c] \cup ends[c]) /\ UNCHANGED <<hash, direct, ends, hashed>>
    BY <1>b, <1>3 DEF SetTotal
  <2>3. CASE ends[c] = {}
    <3>1. pc'[c] = "check"
      BY <1>b, <1>3, <2>3 DEF SetTotal
    <3>2. Unread(c)' = direct[c] \cup ends[c]
      BY <1>b, <2>1, <2>2, <2>3
    <3>3. total' = hashed + Cardinality(Unread(c)')
      BY <2>2, <3>2
    <3> QED
      BY <1>b, <2>1, <2>2, <3>1, <3>3 DEF Counting
  <2>4. CASE ends[c] # {}
    <3>1. pc'[c] = "start ends"
      BY <1>b, <1>3, <2>4 DEF SetTotal
    <3> QED
      BY <1>b, <2>1, <2>2, <3>1 DEF Counting
  <2> QED
    BY <2>3, <2>4
<1>4. CASE EndsRead(c)
  <2>1. CASE ctx[c]
    <3>1. pc'[c] = "leave" /\ result'[c] = "cancelled" /\ UNCHANGED <<total, hashed>>
      BY <1>b, <1>4, <2>1 DEF EndsRead, Fails
    <3>2. total = hashed + Cardinality(direct[c] \cup ends[c])
      BY <1>b, <1>4, <1>c DEF EndsRead, Counting
    <3>3. Cardinality(direct[c] \cup ends[c]) \in Nat
      BY <1>b, Sets
    <3>4. hashed' <= total'
      BY <1>n, <3>1, <3>2, <3>3, SumIsMore
    <3> QED
      BY <1>b, <3>1, <3>4 DEF Counting
  <2>2. CASE ~ctx[c]
    <3>1. /\ pc'[c] = "check" /\ UNCHANGED <<hash, ends, hashed>>
          /\ direct'[c] = direct[c] \cup Survivors(c) /\ total' = hashed + Cardinality(direct'[c])
      BY <1>b, <1>4, <2>2 DEF EndsRead
    <3>2. direct'[c] \subseteq direct[c] \cup ends[c]
      BY <1>b, <3>1 DEF Survivors
    <3>3. \A f \in direct'[c] \cup ends'[c] : hash'[f] # "own"
      BY <1>b, <1>4, <1>c, <3>1, <3>2 DEF EndsRead, Counting
    <3>4. Unread(c)' = direct'[c]
      BY <1>b, <3>3
    <3>5. total' = hashed' + Cardinality(Unread(c)')
      BY <3>1, <3>4
    <3> QED
      BY <1>b, <3>1, <3>3, <3>5 DEF Counting
  <2> QED
    BY <2>1, <2>2
<1>5. CASE Check(c)
  <2>1. hashed <= total
    BY <1>b, <1>c, <1>d, <1>5 DEF Check, Counting
  <2> QED
    BY <1>b, <1>5, <1>c, <2>1 DEF Check, Fails, Counting
<1>6. CASE FullRead(c)
  <2>1. hashed <= total
    BY <1>b, <1>c, <1>d, <1>6 DEF FullRead, Counting
  <2> QED
    BY <1>b, <1>6, <1>c, <2>1 DEF FullRead, Fails, Counting
<1>7. CASE Finish(c)
  <2>1. hashed <= total
    BY <1>b, <1>c, <1>d, <1>7 DEF Finish, Counting
  <2> QED
    BY <1>b, <1>7, <1>c, <2>1 DEF Finish, Fails, Counting
<1>8. CASE Release(c)
  BY <1>b, <1>8, Outside DEF Release, At
<1>9. ASSUME NEW f \in Files, ReadFull(f, c)
      PROVE  Counting(c)'
  <2>1. /\ pc[c] = "full" /\ pc' = pc /\ hash' = [hash EXCEPT ![f] = "own"] /\ hashed' = hashed + 1
        /\ UNCHANGED <<total, direct, ends, result>> /\ f \in reading
    BY <1>b, <1>9 DEF ReadFull, Reading, Back
  <2>2. f \in Unread(c) /\ total = hashed + Cardinality(Unread(c)) /\ Unread(c) \in SUBSET Files
    BY <1>b, <1>a, <2>1 DEF Counting, Pooling, FullHeld, Held
  <2>3. Unread(c)' = Unread(c) \ {f}
    BY <1>b, <2>1
  <2> HIDE DEF Unread
  <2>4. /\ Cardinality(Unread(c)') = Cardinality(Unread(c)) - 1
        /\ Cardinality(Unread(c)) \in Nat /\ Cardinality(Unread(c)') \in Nat
    BY <2>2, <2>3, OneLess
  <2>5. total = (hashed + 1) + Cardinality(Unread(c)')
    BY <1>n, <2>2, <2>4, SumGoesOn
  <2>6. total' = hashed' + Cardinality(Unread(c)')
    BY <2>1, <2>5
  <2> QED
    BY <1>b, <2>1, <2>6 DEF Counting
<1>10. ASSUME StartEnds(c) \/ StartFull(c)
       PROVE  Counting(c)'
  BY <1>b, <1>10, <1>c DEF StartEnds, StartFull, StartStage, Counting
<1>11. ASSUME StopProgress(c) \/ Unregister(c)
       PROVE  Counting(c)'
  BY <1>b, <1>11, <1>c DEF StopProgress, Unregister, Counting
<1>12. ASSUME Receive(c) \/ WorkerLeaves(c)
       PROVE  Counting(c)'
  BY <1>b, <1>12, <1>c DEF Receive, WorkerLeaves, Counting
<1>13. ASSUME NEW f \in Files, ReadEnds(f, c) \/ ReadFails(f, c) \/ ReadAbandoned(f, c)
       PROVE  Counting(c)'
  BY <1>b, <1>13, <1>c DEF ReadEnds, ReadFails, ReadAbandoned, Back, Counting
<1> QED
  BY <1>1, <1>2, <1>3, <1>4, <1>5, <1>6, <1>7, <1>8, <1>9, <1>10, <1>11, <1>12, <1>13
     DEF Works, RunHashing, Wait, Read

-----------------------------------------------------------------------------
\* What files hold is for good, and so is which must be compared.
LEMMA Unchanging ==
    ASSUME UNCHANGED atrest
    PROVE  /\ Compared' = Compared /\ Eligible' = Eligible
           /\ \A f \in Files : Peers(f)' = Peers(f) /\ SizeOf(f)' = SizeOf(f)
  BY DEF atrest, Compared, Candidates, Eligible, Peers, SizeOf

LEMMA SiftingSame ==
    ASSUME NEW c \in Callers, Sifting(c), UNCHANGED <<atrest, hash, direct[c], ends[c]>>,
           ends[c] \in SUBSET Files, Planned(c)' => Planned(c)
    PROVE  Sifting(c)'
<1>1. Compared' = Compared /\ hashAll' = hashAll /\ \A f \in Files : Peers(f)' = Peers(f)
  BY Unchanging DEF atrest
<1> QED
  BY <1>1 DEF Sifting

\* Files of one size are told apart in the same way.
LEMMA PeersShare ==
    ASSUME NEW f \in Files, NEW g \in Peers(f)
    PROVE  SizeOf(g) = SizeOf(f) /\ Peers(g) = Peers(f) /\ g \in Eligible
  BY DEF Peers, Eligible

LEMMA SelectSifts ==
    ASSUME Typed, NEW c \in Callers, SelectCandidates(c)
    PROVE  Sifting(c)'
<1>a. /\ hash \in [Files -> {"none", "old", "own"}] /\ hashAll \in BOOLEAN
      /\ direct \in [Callers -> SUBSET Files] /\ ends \in [Callers -> SUBSET Files]
  BY DEF Typed, TypeOK, Types
<1>1. /\ direct'[c] = { f \in Pending : NeedsFull(f) } /\ ends'[c] = { f \in Pending : ~NeedsFull(f) }
      /\ UNCHANGED atrest
      /\ \A f \in Files : hash[f] = "own" => hash'[f] = "own"
  BY <1>a DEF SelectCandidates
<1>2. Compared \subseteq Files /\ Pending \subseteq Compared
  BY DEF Compared, Candidates, Eligible, Pending
<1>3. \A f \in Compared : hash'[f] = "own" \/ f \in direct'[c] \cup ends'[c]
  BY <1>1, <1>2 DEF Pending, Reused
<1>4. ASSUME NEW f \in ends'[c], NEW g \in Peers(f)
      PROVE  g \in ends'[c]
  <2>1. f \in Files /\ f \in Compared /\ ~NeedsFull(f) /\ ~hashAll
    BY <1>1, <1>2, <1>4 DEF NeedsFull
  <2>2. SizeOf(g) = SizeOf(f) /\ Peers(g) = Peers(f) /\ g \in Eligible
    BY <1>4, <2>1, PeersShare
  <2>3. g \in Candidates
    BY <2>1, <2>2 DEF Compared, Candidates
  <2>4. ~Reused(g) /\ ~NeedsFull(g)
    BY <1>4, <2>1, <2>2 DEF NeedsFull
  <2> QED
    BY <1>1, <2>1, <2>3, <2>4 DEF Pending, Compared
<1>5. hashAll => ends'[c] = {}
  BY <1>1 DEF NeedsFull
<1>6. Compared' = Compared /\ hashAll' = hashAll /\ \A f \in Files : Peers(f)' = Peers(f)
  BY <1>1, Unchanging DEF atrest
<1>7. ends'[c] \subseteq Files
  BY <1>1, <1>2
<1> QED
  BY <1>3, <1>4, <1>5, <1>6, <1>7 DEF Sifting

LEMMA SiftingKept ==
    ASSUME IInv, NEW c \in Callers, Works(c)
    PROVE  Sifting(c)'
<1>a. Typed /\ Sifting(c) /\ Inside(c)
  BY WorksInside DEF IInv, At
<1>b. /\ pc \in [Callers -> Labels] /\ result \in [Callers -> {"none", "ok", "cancelled", "in progress"}]
      /\ direct \in [Callers -> SUBSET Files] /\ ends \in [Callers -> SUBSET Files]
      /\ hash \in [Files -> {"none", "old", "own"}]
      /\ ends[c] \in SUBSET Files
  BY <1>a DEF Typed, TypeOK, Types, Labels
<1>1. CASE Register(c)
  <2>1. ~Planned(c)'
    BY <1>b, <1>1 DEF Register, Fails, Goto, Planned, Settled
  <2> QED
    BY <2>1 DEF Sifting
<1>2. CASE SelectCandidates(c)
  BY <1>2, <1>a, SelectSifts
<1>3. CASE EndsRead(c)
  <2>1. CASE ctx[c]
    <3>1. ~Planned(c)'
      BY <1>b, <1>3, <2>1 DEF EndsRead, Fails, Goto, Planned, Settled
    <3> QED
      BY <3>1 DEF Sifting
  <2>2. CASE ~ctx[c]
    <3>1. direct[c] \subseteq direct'[c] /\ UNCHANGED <<atrest, hash, ends>> /\ Planned(c)
      BY <1>b, <1>3, <2>2 DEF EndsRead, nodes, Planned
    <3>2. Compared' = Compared /\ hashAll' = hashAll /\ \A f \in Files : Peers(f)' = Peers(f)
      BY <3>1, Unchanging DEF atrest
    <3> QED
      BY <1>a, <1>b, <3>1, <3>2 DEF Sifting
  <2> QED
    BY <2>1, <2>2
<1>4. CASE Release(c)
  BY <1>b, <1>4, Outside DEF Release, Goto, At
<1>5. ASSUME NEW f \in Files, ReadFull(f, c)
      PROVE  Sifting(c)'
  <2>1. UNCHANGED <<atrest, direct, ends>> /\ (Planned(c)' => Planned(c))
    BY <1>5 DEF ReadFull, Back, control, plan, Planned, Settled
  <2>2. \A g \in Files : hash[g] = "own" => hash'[g] = "own"
    BY <1>b, <1>5 DEF ReadFull
  <2>3. Compared' = Compared /\ hashAll' = hashAll /\ \A g \in Files : Peers(g)' = Peers(g)
    BY <2>1, Unchanging DEF atrest
  <2>4. Compared \subseteq Files
    BY DEF Compared, Candidates, Eligible
  <2> QED
    BY <1>a, <1>b, <2>1, <2>2, <2>3, <2>4 DEF Sifting
<1>6. ASSUME SetTotal(c) \/ StartEnds(c) \/ StartFull(c)
      PROVE  Sifting(c)'
  <2>1. UNCHANGED <<atrest, hash, direct, ends>> /\ (Planned(c)' => Planned(c))
    BY <1>b, <1>6 DEF SetTotal, StartEnds, StartFull, StartStage, nodes, plan, Planned, Settled
  <2> QED
    BY <1>a, <1>b, <2>1, SiftingSame
<1>7. ASSUME Check(c) \/ FullRead(c) \/ Finish(c) \/ StopProgress(c) \/ Unregister(c)
      PROVE  Sifting(c)'
  <2>1. UNCHANGED <<atrest, hash, direct, ends>>
    BY <1>7 DEF Check, FullRead, Finish, StopProgress, Unregister, nodes, plan
  <2>2. Planned(c)' => Planned(c)
    BY <1>b, <1>7 DEF Check, FullRead, Finish, StopProgress, Unregister, Fails, Goto, Planned, Settled, control
  <2> QED
    BY <1>a, <1>b, <2>1, <2>2, SiftingSame
<1>8. ASSUME Receive(c) \/ WorkerLeaves(c)
      PROVE  Sifting(c)'
  <2>1. UNCHANGED <<atrest, hash, direct, ends>> /\ (Planned(c)' => Planned(c))
    BY <1>8 DEF Receive, WorkerLeaves, nodes, plan, control, Planned, Settled
  <2> QED
    BY <1>a, <1>b, <2>1, SiftingSame
<1>9. ASSUME NEW f \in Files, ReadEnds(f, c) \/ ReadFails(f, c) \/ ReadAbandoned(f, c)
      PROVE  Sifting(c)'
  <2>1. UNCHANGED <<atrest, hash, direct, ends>> /\ (Planned(c)' => Planned(c))
    BY <1>9 DEF ReadEnds, ReadFails, ReadAbandoned, Back, nodes, plan, control, Planned, Settled
  <2> QED
    BY <1>a, <1>b, <2>1, SiftingSame
<1> QED
  BY <1>1, <1>2, <1>3, <1>4, <1>5, <1>6, <1>7, <1>8, <1>9
     DEF Works, RunHashing, Wait, Read

-----------------------------------------------------------------------------
\* A worker takes a file that no other has, so the pool stays as full.
LEMMA OneAdded ==
    ASSUME NEW S \in SUBSET Files, NEW f \in Files \ S, NEW T, T = S \cup {f}
    PROVE  /\ Cardinality(S) \in Nat /\ Cardinality(T) \in Nat
           /\ Cardinality(T) = Cardinality(S) + 1
<1>1. IsFiniteSet(S) /\ Cardinality(S) \in Nat /\ Cardinality(T) \in Nat
  BY Sets
<1>2. Cardinality(S \cup {f}) = Cardinality(S) + 1
  BY <1>1, FS_AddElement
<1> QED
  BY <1>1, <1>2

LEMMA NothingFailed == NoFailure.ends = {} /\ NoFailure.full = {}
  BY DEF NoFailure

\* Of a stage whose pool is empty and whose context is not done, nothing is held.
LEMMA StageDone ==
    ASSUME Typed, Resting, NEW c \in Callers, Pooling(c), InStage(c), AllGone, ~ctx[c]
    PROVE  Held(c) = {}
<1>1. reading = {} /\ idle = 0 /\ Cardinality(reading) = 0
  BY FS_EmptySet DEF AllGone
<1>2. idle + Cardinality(reading) < Workers
  BY <1>1, Constants
<1>3. producer[c] = "gone" /\ tasks[c] = {}
  BY <1>2 DEF Pooling, Drained
<1>4. unsent[c] = {}
  BY <1>3 DEF Resting
<1> QED
  BY <1>1, <1>3, <1>4 DEF Held

LEMMA PoolingKept ==
    ASSUME IInv, NEW c \in Callers, Works(c)
    PROVE  Pooling(c)'
<1>a. Typed /\ Counting(c) /\ Pooling(c) /\ Leaving(c) /\ Apart(c) /\ Drained(c) /\ EndsHeld(c) /\ FullHeld(c)
  BY DEF IInv, At, Pooling
<1>b. /\ pc \in [Callers -> Labels]
      /\ direct \in [Callers -> SUBSET Files] /\ ends \in [Callers -> SUBSET Files]
      /\ unsent \in [Callers -> SUBSET Files] /\ tasks \in [Callers -> SUBSET Files]
      /\ producer \in [Callers -> {"off", "sending", "gone"}]
      /\ hash \in [Files -> {"none", "old", "own"}]
      /\ failed \in [ends : SUBSET Files, full : SUBSET Files]
  BY <1>a DEF Typed, TypeOK, Types, Labels
<1>r. reading \in SUBSET Files
  BY <1>a DEF Typed, TypeOK, Types
<1>n. /\ idle \in 0..Workers /\ Workers \in Nat /\ Cardinality(reading) \in Nat
      /\ idle + Cardinality(reading) <= Workers
  BY <1>a, <1>r, Constants, Sets DEF Typed, TypeOK, Types, Fits
<1>w. Workers \in Nat
  BY Constants
<1>o. pc'[c] \notin {"ends", "full"} => Pooling(c)'
  BY DEF Pooling, Apart, Drained, EndsHeld, FullHeld, InStage
<1>1. CASE StartEnds(c)
  <2>1. /\ pc'[c] = "ends" /\ unsent'[c] = ends[c] /\ tasks'[c] = {} /\ reading' = {}
        /\ idle' = Workers /\ ends' = ends
    BY <1>b, <1>1 DEF StartEnds, StartStage, Goto, plan
  <2>2. idle' = Workers /\ Cardinality(reading') = 0
    BY <2>1, FS_EmptySet
  <2>3. ~(idle' + Cardinality(reading') < Workers)
    BY <2>2, <1>w
  <2>4. Apart(c)' /\ Drained(c)'
    BY <2>1, <2>3 DEF Apart, Drained
  <2>5. EndsHeld(c)' /\ FullHeld(c)'
    BY <2>1 DEF EndsHeld, FullHeld, Held
  <2> QED
    BY <2>4, <2>5 DEF Pooling
<1>2. CASE StartFull(c)
  <2>1. /\ pc'[c] = "full" /\ unsent'[c] = direct[c] /\ tasks'[c] = {} /\ reading' = {}
        /\ idle' = Workers /\ UNCHANGED <<direct, hash, failed>> /\ pc[c] = "start full"
    BY <1>b, <1>2 DEF StartFull, StartStage, Goto, plan, nodes
  <2>2. idle' = Workers /\ Cardinality(reading') = 0
    BY <2>1, FS_EmptySet
  <2>3. ~(idle' + Cardinality(reading') < Workers)
    BY <2>2, <1>w
  <2>4. Apart(c)' /\ Drained(c)'
    BY <2>1, <2>3 DEF Apart, Drained
  <2>5. failed.full = {} /\ Unread(c) = direct[c]
    BY <2>1, <1>a DEF Leaving, Counting, Unread
  <2>6. Unread(c)' = direct[c] /\ Held(c)' = direct[c]
    BY <2>1, <2>5 DEF Unread, Held
  <2>7. EndsHeld(c)' /\ FullHeld(c)'
    BY <2>1, <2>5, <2>6 DEF EndsHeld, FullHeld
  <2> QED
    BY <2>4, <2>7 DEF Pooling
<1>3. CASE Receive(c)
  <2>1. PICK f \in tasks[c] : /\ tasks' = [tasks EXCEPT ![c] = tasks[c] \ {f}]
                              /\ idle' = idle - 1 /\ reading' = reading \cup {f}
    BY <1>b, <1>3 DEF Receive
  <2>2. /\ UNCHANGED <<atrest, hash, quick, pc, ctx, unsent, producer, failed, direct, ends>>
        /\ InStage(c) /\ tasks'[c] = tasks[c] \ {f} /\ f \in Files
    BY <1>b, <2>1, <1>3 DEF Receive, nodes, control, plan
  <2>3. f \notin reading /\ f \notin unsent[c]
    BY <1>a, <2>2 DEF Apart
  <2>4. Cardinality(reading') = Cardinality(reading) + 1
    BY <1>r, <2>1, <2>2, <2>3, OneAdded
  <2>5. idle' + Cardinality(reading') = idle + Cardinality(reading)
    BY <1>n, <2>1, <2>4
  <2>6. Drained(c)'
    BY <1>a, <2>2, <2>5 DEF Drained, InStage
  <2>7. Apart(c)'
    BY <1>a, <2>1, <2>2, <2>3 DEF Apart, InStage
  <2>8. Held(c)' = Held(c)
    BY <2>1, <2>2 DEF Held
  <2>9. Unread(c)' = Unread(c)
    BY <2>2 DEF Unread
  <2>10. EndsHeld(c)'
    BY <1>a, <2>2, <2>8 DEF EndsHeld
  <2>11. FullHeld(c)'
    BY <1>a, <2>2, <2>8, <2>9 DEF FullHeld
  <2> QED
    BY <2>6, <2>7, <2>10, <2>11 DEF Pooling
<1>4. CASE WorkerLeaves(c)
  <2>1. /\ UNCHANGED <<hash, quick, pc, ctx, unsent, tasks, reading, producer, failed, direct, ends>>
        /\ (producer[c] = "gone" /\ tasks[c] = {}) \/ ctx[c]
    BY <1>4 DEF WorkerLeaves, nodes, control, plan
  <2>2. Unread(c)' = Unread(c) /\ Held(c)' = Held(c)
    BY <2>1 DEF Unread, Held
  <2>3. Drained(c)'
    BY <2>1 DEF Drained
  <2>4. Apart(c)'
    BY <1>a, <2>1 DEF Apart, InStage
  <2>5. EndsHeld(c)'
    BY <1>a, <2>1, <2>2 DEF EndsHeld
  <2>6. FullHeld(c)'
    BY <1>a, <2>1, <2>2 DEF FullHeld
  <2> QED
    BY <2>3, <2>4, <2>5, <2>6 DEF Pooling
<1>5. ASSUME Register(c) \/ SelectCandidates(c) \/ SetTotal(c) \/ EndsRead(c) \/ Check(c)
      PROVE  Pooling(c)'
  <2>1. pc'[c] \notin {"ends", "full"}
    BY <1>b, <1>5 DEF Register, SelectCandidates, SetTotal, EndsRead, Check, Fails, Goto
  <2> QED
    BY <2>1, <1>o
<1>6. ASSUME FullRead(c) \/ Finish(c) \/ StopProgress(c) \/ Unregister(c) \/ Release(c)
      PROVE  Pooling(c)'
  <2>1. pc'[c] \notin {"ends", "full"}
    BY <1>b, <1>6 DEF FullRead, Finish, StopProgress, Unregister, Release, Fails, Goto
  <2> QED
    BY <2>1, <1>o
<1>7. ASSUME NEW f \in Files, ReadEnds(f, c) \/ ReadFull(f, c) \/ ReadFails(f, c) \/ ReadAbandoned(f, c)
      PROVE  Pooling(c)'
  <2>1. /\ InStage(c) /\ f \in reading /\ Back(f) /\ \E stage : Reading(f, c, stage)
        /\ UNCHANGED <<pc, ctx, unsent, tasks, producer, direct, ends>> /\ reading' = reading \ {f}
    BY <1>7 DEF ReadEnds, ReadFull, ReadFails, ReadAbandoned, Back, Reading, InStage, control, plan
  <2>2. idle' + Cardinality(reading') = idle + Cardinality(reading)
    BY <1>a, <2>1, BackFits
  <2>3. Drained(c)'
    BY <1>a, <2>1, <2>2 DEF Drained, InStage
  <2>4. Apart(c)'
    BY <1>a, <2>1 DEF Apart, InStage
  <2>5. Held(c)' = Held(c) \ {f} /\ f \in Held(c)
    BY <1>a, <2>1 DEF Held, Apart
  <2>6. CASE ReadEnds(f, c)
    <3>1. pc[c] = "ends" /\ quick' = quick \cup {f} /\ UNCHANGED failed
      BY <2>6 DEF ReadEnds, Reading
    <3>2. EndsHeld(c)' /\ FullHeld(c)'
      BY <1>a, <2>1, <2>5, <3>1 DEF EndsHeld, FullHeld
    <3> QED
      BY <2>3, <2>4, <3>2 DEF Pooling
  <2>7. CASE ReadFull(f, c)
    <3>1. pc[c] = "full" /\ hash' = [hash EXCEPT ![f] = "own"] /\ UNCHANGED failed
      BY <2>7 DEF ReadFull, Reading
    <3>2. Unread(c)' = Unread(c) \ {f}
      BY <1>b, <2>1, <3>1 DEF Unread
    <3>3. EndsHeld(c)' /\ FullHeld(c)'
      BY <1>a, <2>1, <2>5, <3>1, <3>2 DEF EndsHeld, FullHeld
    <3> QED
      BY <2>3, <2>4, <3>3 DEF Pooling
  <2>8. CASE ReadFails(f, c)
    <3>1. pc[c] \in {"ends", "full"} /\ UNCHANGED <<hash, quick>> /\ failed' = [failed EXCEPT ![pc[c]] = failed[pc[c]] \cup {f}]
      BY <2>8 DEF ReadFails, InStage, nodes
    <3>2. Unread(c)' = Unread(c)
      BY <2>1, <3>1 DEF Unread
    <3>3. CASE pc[c] = "ends"
      <4>1. failed'.ends = failed.ends \cup {f}
        BY <1>b, <3>1, <3>3
      <4> QED
        BY <1>a, <2>1, <2>3, <2>4, <2>5, <3>1, <3>3, <4>1 DEF EndsHeld, FullHeld, Pooling
    <3>4. CASE pc[c] = "full"
      <4>1. failed'.full = failed.full \cup {f}
        BY <1>b, <3>1, <3>4
      <4>2. FullHeld(c)'
        BY <1>a, <2>1, <2>5, <3>2, <3>4, <4>1 DEF FullHeld
      <4> QED
        BY <2>1, <2>3, <2>4, <3>4, <4>2 DEF EndsHeld, Pooling
    <3> QED
      BY <3>1, <3>3, <3>4
  <2>9. CASE ReadAbandoned(f, c)
    <3>1. pc[c] = "full" /\ ctx[c] /\ UNCHANGED <<hash, failed>>
      BY <2>9 DEF ReadAbandoned, Reading, nodes
    <3>2. Unread(c)' = Unread(c)
      BY <2>1, <3>1 DEF Unread
    <3>3. EndsHeld(c)' /\ FullHeld(c)'
      BY <1>a, <2>1, <2>5, <3>1, <3>2 DEF EndsHeld, FullHeld
    <3> QED
      BY <2>3, <2>4, <3>3 DEF Pooling
  <2> QED
    BY <1>7, <2>6, <2>7, <2>8, <2>9
<1> QED
  BY <1>1, <1>2, <1>3, <1>4, <1>5, <1>6, <1>7
     DEF Works, RunHashing, Wait, Read

\* What the two ends tell apart depends on what files hold and were read.
LEMMA SameSurvivors ==
    ASSUME NEW c \in Callers, UNCHANGED <<atrest, quick, ends[c]>>, ends[c] \in SUBSET Files
    PROVE  Survivors(c)' = Survivors(c)
  BY DEF atrest, Survivors, SizeOf

LEMMA LeavingSame ==
    ASSUME NEW c \in Callers, Leaving(c), UNCHANGED <<atrest, hash, quick, direct[c], ends[c], failed>>,
           ends[c] \in SUBSET Files,
           pc'[c] = pc[c] \/ pc'[c] \notin {"in", "select", "count", "start ends", "ends", "check", "start full"},
           Chosen(c)' => Chosen(c),
           pc'[c] = "finish" \/ Settled(c)' => pc[c] = "finish" \/ Settled(c)
    PROVE  Leaving(c)'
<1>1. Survivors(c)' = Survivors(c)
  BY SameSurvivors
<1>2. Unread(c)' = Unread(c)
  BY DEF Unread
<1> QED
  BY <1>1, <1>2 DEF Leaving

LEMMA LeavingKept ==
    ASSUME IInv, NEW c \in Callers, Works(c)
    PROVE  Leaving(c)'
<1>a. Typed /\ Resting /\ Counting(c) /\ Pooling(c) /\ Leaving(c) /\ EndsHeld(c) /\ FullHeld(c)
  BY DEF IInv, At, Pooling
<1>b. /\ pc \in [Callers -> Labels] /\ result \in [Callers -> {"none", "ok", "cancelled", "in progress"}]
      /\ direct \in [Callers -> SUBSET Files] /\ ends \in [Callers -> SUBSET Files]
      /\ hash \in [Files -> {"none", "old", "own"}]
      /\ failed \in [ends : SUBSET Files, full : SUBSET Files]
      /\ ends[c] \in SUBSET Files
  BY <1>a DEF Typed, TypeOK, Types, Labels
<1>f. pc'[c] = "leave" /\ result'[c] = "cancelled" => Leaving(c)'
  BY DEF Leaving, Chosen, Settled
<1>1. CASE Register(c)
  <2>1. pc[c] = "in" /\ UNCHANGED failed
    BY <1>1 DEF Register
  <2>2. pc'[c] = "select" \/ (pc'[c] = "leave" /\ result'[c] = "cancelled")
    BY <1>b, <1>1 DEF Register, Fails, Goto
  <2>3. failed' = NoFailure
    BY <1>a, <2>1 DEF Leaving
  <2> QED
    BY <1>f, <2>2, <2>3 DEF Leaving, Chosen, Settled
<1>2. CASE SelectCandidates(c)
  <2>1. pc[c] = "select" /\ pc'[c] = "count" /\ UNCHANGED failed
    BY <1>b, <1>2 DEF SelectCandidates, Goto
  <2> QED
    BY <1>a, <2>1, NothingFailed DEF Leaving, Chosen, Settled
<1>3. CASE SetTotal(c)
  <2>1. /\ pc[c] = "count" /\ UNCHANGED <<failed, ends>>
        /\ pc'[c] = IF ends[c] = {} THEN "check" ELSE "start ends"
    BY <1>b, <1>3 DEF SetTotal, Goto, plan
  <2>2. failed = NoFailure /\ failed.full = {}
    BY <1>a, <2>1, NothingFailed DEF Leaving
  <2>3. ends[c] = {} => Survivors(c)' = {}
    BY <2>1 DEF Survivors
  <2> QED
    BY <2>1, <2>2, <2>3 DEF Leaving, Chosen, Settled
<1>4. CASE StartEnds(c)
  <2>1. pc[c] = "start ends" /\ pc'[c] = "ends" /\ UNCHANGED failed
    BY <1>b, <1>4 DEF StartEnds, StartStage, Goto
  <2> QED
    BY <1>a, <2>1, NothingFailed DEF Leaving, Chosen, Settled
<1>5. CASE EndsRead(c)
  <2>1. pc[c] = "ends" /\ AllGone /\ InStage(c)
    BY <1>5 DEF EndsRead, InStage
  <2>2. CASE ctx[c]
    BY <1>b, <1>f, <1>5, <2>2 DEF EndsRead, Fails, Goto
  <2>3. CASE ~ctx[c]
    <3>1. /\ pc'[c] = "check" /\ UNCHANGED <<failed, ends, quick, atrest>>
          /\ direct'[c] = direct[c] \cup Survivors(c)
      BY <1>b, <1>5, <2>3 DEF EndsRead, Goto, nodes
    <3>2. ends[c] \subseteq quick \cup failed.ends
      BY <1>a, <2>1, <2>3, StageDone DEF EndsHeld
    <3>3. failed.full = {}
      BY <1>a, <2>1 DEF Leaving
    <3>4. Survivors(c)' = Survivors(c)
      BY <1>b, <3>1, SameSurvivors
    <3> QED
      BY <3>1, <3>2, <3>3, <3>4 DEF Leaving, Settled
  <2> QED
    BY <2>2, <2>3
<1>6. CASE Check(c)
  <2>1. pc[c] = "check" /\ UNCHANGED <<atrest, hash, quick, direct, ends, failed>>
    BY <1>6 DEF Check, nodes, plan
  <2>2. CASE ctx[c]
    BY <1>b, <1>f, <1>6, <2>2 DEF Check, Fails, Goto
  <2>3. CASE ~ctx[c]
    <3>1. pc'[c] = IF direct[c] = {} THEN "finish" ELSE "start full"
      BY <1>b, <1>6, <2>3 DEF Check, Goto
    <3>2. /\ failed.full = {} /\ ends[c] \subseteq quick \cup failed.ends
          /\ Survivors(c) \subseteq direct[c]
      BY <1>a, <2>1 DEF Leaving, Chosen
    <3>3. Survivors(c)' = Survivors(c)
      BY <1>b, <2>1, SameSurvivors
    <3>4. direct[c] = {} => Unread(c)' = {}
      BY <2>1 DEF Unread
    <3> QED
      BY <2>1, <3>1, <3>2, <3>3, <3>4 DEF Leaving, Settled
  <2> QED
    BY <2>2, <2>3
<1>7. CASE StartFull(c)
  <2>1. /\ pc[c] = "start full" /\ pc'[c] = "full"
        /\ UNCHANGED <<atrest, hash, quick, direct, ends, failed>>
    BY <1>b, <1>7 DEF StartFull, StartStage, Goto, nodes, plan
  <2>2. Chosen(c) /\ ~Settled(c)'
    BY <2>1 DEF Chosen, Settled
  <2> QED
    BY <1>a, <1>b, <2>1, <2>2, LeavingSame
<1>8. CASE FullRead(c)
  <2>1. /\ pc[c] = "full" /\ AllGone /\ InStage(c)
        /\ UNCHANGED <<atrest, hash, quick, direct, ends, failed>>
    BY <1>8 DEF FullRead, InStage, nodes, plan
  <2>2. CASE ctx[c]
    BY <1>b, <1>f, <1>8, <2>2 DEF FullRead, Fails, Goto
  <2>3. CASE ~ctx[c]
    <3>1. pc'[c] = "finish"
      BY <1>b, <1>8, <2>3 DEF FullRead, Goto
    <3>2. Unread(c) = failed.full
      BY <1>a, <2>1, <2>3, StageDone DEF FullHeld
    <3>3. ends[c] \subseteq quick \cup failed.ends /\ Survivors(c) \subseteq direct[c]
      BY <1>a, <2>1 DEF Leaving, Chosen
    <3>4. Survivors(c)' = Survivors(c)
      BY <1>b, <2>1, SameSurvivors
    <3>5. Unread(c)' = Unread(c)
      BY <2>1 DEF Unread
    <3> QED
      BY <2>1, <3>1, <3>2, <3>3, <3>4, <3>5 DEF Leaving
  <2> QED
    BY <2>2, <2>3
<1>9. CASE Finish(c)
  <2>1. pc[c] = "finish" /\ UNCHANGED <<atrest, hash, quick, direct, ends, failed>>
    BY <1>9 DEF Finish, nodes, plan
  <2>2. pc'[c] = "leave"
    BY <1>b, <1>9 DEF Finish, Fails, Goto
  <2>3. Chosen(c)
    BY <2>1 DEF Chosen
  <2> QED
    BY <1>a, <1>b, <2>1, <2>2, <2>3, LeavingSame
<1>10. CASE Release(c)
  BY <1>b, <1>10, Outside DEF Release, Goto, At
<1>11. ASSUME NEW f \in Files, ReadEnds(f, c)
       PROVE  Leaving(c)'
  <2>1. pc[c] = "ends" /\ UNCHANGED <<pc, result, failed>>
    BY <1>11 DEF ReadEnds, Reading, Back, control
  <2> QED
    BY <1>a, <2>1 DEF Leaving, Chosen, Settled
<1>12. ASSUME NEW f \in Files, ReadFull(f, c)
       PROVE  Leaving(c)'
  <2>1. pc[c] = "full" /\ UNCHANGED <<atrest, pc, result, failed, quick, direct, ends>>
    BY <1>12 DEF ReadFull, Reading, Back, control, plan
  <2>2. Survivors(c)' = Survivors(c)
    BY <1>b, <2>1, SameSurvivors
  <2> QED
    BY <1>a, <2>1, <2>2 DEF Leaving, Chosen, Settled
<1>13. ASSUME NEW f \in Files, ReadFails(f, c)
       PROVE  Leaving(c)'
  <2>1. /\ pc[c] \in {"ends", "full"} /\ UNCHANGED <<atrest, pc, result, quick, direct, ends>>
        /\ failed' = [failed EXCEPT ![pc[c]] = failed[pc[c]] \cup {f}]
    BY <1>13 DEF ReadFails, InStage, Back, control, plan, nodes
  <2>2. Survivors(c)' = Survivors(c)
    BY <1>b, <2>1, SameSurvivors
  <2>3. CASE pc[c] = "ends"
    <3>1. failed'.full = failed.full
      BY <1>b, <2>1, <2>3
    <3> QED
      BY <1>a, <2>1, <2>3, <3>1 DEF Leaving, Chosen, Settled
  <2>4. CASE pc[c] = "full"
    <3>1. failed'.ends = failed.ends
      BY <1>b, <2>1, <2>4
    <3> QED
      BY <1>a, <2>1, <2>2, <2>4, <3>1 DEF Leaving, Chosen, Settled
  <2> QED
    BY <2>1, <2>3, <2>4
<1>14. ASSUME NEW f \in Files, ReadAbandoned(f, c)
       PROVE  Leaving(c)'
  <2>1. /\ pc[c] = "full"
        /\ UNCHANGED <<atrest, pc, result, failed, hash, quick, direct, ends>>
    BY <1>14 DEF ReadAbandoned, Reading, Back, control, plan, nodes
  <2>2. (Chosen(c)' => Chosen(c)) /\ pc'[c] # "finish" /\ ~Settled(c)'
    BY <2>1 DEF Chosen, Settled
  <2> QED
    BY <1>a, <1>b, <2>1, <2>2, LeavingSame
<1>15. ASSUME StopProgress(c) \/ Unregister(c)
       PROVE  Leaving(c)'
  <2>1. /\ pc[c] \in {"leave", "cancel"} /\ pc'[c] \in {"cancel", "release"}
        /\ UNCHANGED <<atrest, result, hash, quick, direct, ends, failed>>
    BY <1>b, <1>15 DEF StopProgress, Unregister, Goto, nodes, plan, control
  <2>2. (Chosen(c)' => Chosen(c)) /\ (Settled(c)' => Settled(c))
    BY <2>1 DEF Chosen, Settled
  <2> QED
    BY <1>a, <1>b, <2>1, <2>2, LeavingSame
<1>16. ASSUME Receive(c) \/ WorkerLeaves(c)
       PROVE  Leaving(c)'
  <2>1. UNCHANGED <<atrest, pc, result, hash, quick, direct, ends, failed>>
    BY <1>16 DEF Receive, WorkerLeaves, nodes, plan, control
  <2>2. (Chosen(c)' => Chosen(c)) /\ (Settled(c)' => Settled(c))
    BY <2>1 DEF Chosen, Settled
  <2> QED
    BY <1>a, <1>b, <2>1, <2>2, LeavingSame
<1> QED
  BY <1>1, <1>2, <1>3, <1>4, <1>5, <1>6, <1>7, <1>8, <1>9, <1>10, <1>11, <1>12, <1>13, <1>14, <1>15, <1>16
     DEF Works, RunHashing, Wait, Read

-----------------------------------------------------------------------------
\* A step beside the call leaves what is known at it as it was, but for the
\* pool and the ticker.
LEMMA AtSame ==
    ASSUME NEW c \in Callers, At(c), ends[c] \in SUBSET Files,
           UNCHANGED <<atrest, nodes, pc[c], result[c], direct[c], ends[c], failed, counters>>,
           Pooling(c)', pc[c] \in {"select", "count"} /\ ticker' = "loaded" => seen' = 0
    PROVE  At(c)'
<1>1. /\ UNCHANGED <<hash, quick, hashed, total, pc[c], direct[c], ends[c], failed>>
      /\ (Planned(c)' <=> Planned(c)) /\ (Chosen(c)' <=> Chosen(c)) /\ (Settled(c)' <=> Settled(c))
  BY DEF nodes, counters, Planned, Chosen, Settled
<1>2. Unread(c)' = Unread(c)
  BY <1>1 DEF Unread
<1>3. Counting(c)'
  BY <1>1, <1>2 DEF At, Counting
<1>4. Sifting(c)'
  BY <1>1, SiftingSame DEF At
<1>5. Leaving(c)'
  BY <1>1, LeavingSame DEF At
<1> QED
  BY <1>3, <1>4, <1>5 DEF At

LEMMA PoolingSame ==
    ASSUME NEW c \in Callers, Pooling(c), ctx[c] => ctx'[c],
           UNCHANGED <<hash, quick, pc[c], direct[c], ends[c], unsent[c], tasks[c], producer[c],
                       idle, reading, failed>>
    PROVE  Pooling(c)'
<1>1. Unread(c)' = Unread(c) /\ Held(c)' = Held(c) /\ (InStage(c)' <=> InStage(c))
  BY DEF Unread, Held, InStage
<1>2. Apart(c)' /\ Drained(c)'
  BY <1>1 DEF Pooling, Apart, Drained
<1>3. EndsHeld(c)' /\ FullHeld(c)'
  BY <1>1 DEF Pooling, EndsHeld, FullHeld
<1> QED
  BY <1>2, <1>3 DEF Pooling

\* The producer hands a file over, or goes; it holds none back unless the
\* context is done.
LEMMA Produced ==
    ASSUME IInv, NEW d \in Callers, Produce(d), NEW c \in Callers
    PROVE  Pooling(c)'
<1>a. Pooling(c) /\ Apart(c) /\ Drained(c) /\ EndsHeld(c) /\ FullHeld(c) /\ Resting
  BY DEF IInv, At, Pooling
<1>b. /\ unsent \in [Callers -> SUBSET Files] /\ tasks \in [Callers -> SUBSET Files]
      /\ producer \in [Callers -> {"off", "sending", "gone"}]
  BY DEF IInv, Typed, TypeOK, Types
<1>1. UNCHANGED <<hash, quick, pc, ctx, direct, ends, idle, reading, failed>> /\ producer[d] = "sending"
  BY DEF Produce, Send, ProducerLeaves, nodes, control, plan
<1>2. CASE c # d
  <2>1. UNCHANGED <<unsent[c], tasks[c], producer[c]>>
    BY <1>b, <1>2 DEF Produce, Send, ProducerLeaves
  <2> QED
    BY <1>a, <1>1, <2>1, PoolingSame
<1>3. CASE c = d
  <2>1. Unread(c)' = Unread(c) /\ (InStage(c)' <=> InStage(c))
    BY <1>1 DEF Unread, InStage
  <2>2. Drained(c) /\ InStage(c) /\ idle + Cardinality(reading) < Workers => ctx[c]
    BY <1>1, <1>3 DEF Drained
  <2>3. Drained(c)'
    BY <1>a, <1>1, <2>1, <2>2 DEF Drained
  <2>4. CASE Send(d)
    <3>1. PICK f \in unsent[c] : unsent'[c] = unsent[c] \ {f} /\ tasks'[c] = tasks[c] \cup {f}
      BY <1>b, <1>3, <2>4 DEF Send
    <3>2. Held(c)' = Held(c)
      BY <1>1, <3>1 DEF Held
    <3>3. Apart(c)'
      BY <1>a, <1>1, <2>1, <3>1 DEF Apart
    <3>4. EndsHeld(c)' /\ FullHeld(c)'
      BY <1>a, <1>1, <2>1, <3>2 DEF EndsHeld, FullHeld
    <3> QED
      BY <2>3, <3>3, <3>4 DEF Pooling
  <2>5. CASE ProducerLeaves(d)
    <3>1. unsent'[c] = {} /\ tasks'[c] = tasks[c] /\ (unsent[c] = {} \/ ctx[c])
      BY <1>b, <1>3, <2>5 DEF ProducerLeaves
    <3>2. Held(c)' \subseteq Held(c) /\ (ctx[c] \/ Held(c)' = Held(c))
      BY <1>1, <3>1 DEF Held
    <3>3. Apart(c)'
      BY <1>a, <1>1, <2>1, <3>1 DEF Apart
    <3>4. EndsHeld(c)' /\ FullHeld(c)'
      BY <1>a, <1>1, <2>1, <3>2 DEF EndsHeld, FullHeld
    <3> QED
      BY <2>3, <3>3, <3>4 DEF Pooling
  <2> QED
    BY <2>4, <2>5 DEF Produce
<1> QED
  BY <1>2, <1>3

\* The steps of nobody's run.
Beside ==
    \/ \E c \in Callers : Call(c) \/ CallRefused(c) \/ CallerCancels(c) \/ Produce(c)
    \/ Cancel \/ Tick \/ Emit \/ TickerLeaves \/ UNCHANGED vars

LEMMA WorksOrBeside == [Next]_vars => Beside \/ \E c \in Callers : Works(c)
  BY DEF Next, Beside, Works

LEMMA BesideKeepsAt ==
    ASSUME IInv, Beside, NEW c \in Callers
    PROVE  At(c)'
<1>a. At(c) /\ Pooling(c) /\ Counting(c) /\ Serial /\ Resting
  BY DEF IInv, At
<1>b. /\ pc \in [Callers -> Labels] /\ result \in [Callers -> {"none", "ok", "cancelled", "in progress"}]
      /\ ctx \in [Callers -> BOOLEAN] /\ ends[c] \in SUBSET Files
  BY DEF IInv, Typed, TypeOK, Types, Labels
<1>1. ASSUME NEW d \in Callers, Call(d)
      PROVE  At(c)'
  <2>1. /\ \A e \in Callers : pc[e] \in {"out", "over"} /\ ~Inside(e)
        /\ pc' = [pc EXCEPT ![d] = "in"] /\ UNCHANGED failed
    BY <1>a, <1>1 DEF Call, Goto, Serial, Inside
  <2>2. CASE c # d
    BY <1>b, <2>1, <2>2, Outside
  <2>3. CASE c = d
    <3>1. pc'[c] = "in" /\ failed' = NoFailure
      BY <1>a, <1>b, <2>1, <2>3 DEF Resting
    <3> QED
      BY <3>1 DEF At, Counting, Sifting, Pooling, Apart, Drained, EndsHeld, FullHeld, Leaving,
                  Planned, Chosen, Settled, InStage
  <2> QED
    BY <2>2, <2>3
<1>2. ASSUME NEW d \in Callers, CallRefused(d)
      PROVE  At(c)'
  <2>1. CASE c # d
    <3>1. /\ UNCHANGED <<atrest, nodes, pc[c], ctx, result[c], direct, ends, failed, counters, ticker, seen>>
          /\ UNCHANGED <<hash, quick, unsent, tasks, producer, idle, reading>>
      BY <1>b, <1>2, <2>1 DEF CallRefused, Goto, plan, pool, tick, nodes
    <3>2. Pooling(c)'
      BY <1>a, <3>1, PoolingSame
    <3> QED
      BY <1>a, <1>b, <3>1, <3>2, AtSame DEF Counting
  <2>2. CASE c = d
    BY <1>b, <1>2, <2>2, Outside DEF CallRefused, Goto
  <2> QED
    BY <2>1, <2>2
<1>3. ASSUME NEW d \in Callers, Produce(d)
      PROVE  At(c)'
  <2>1. UNCHANGED <<atrest, nodes, pc, result, direct, ends, failed, counters, ticker, seen>>
    BY <1>3 DEF Produce, Send, ProducerLeaves, control, plan, tick
  <2>2. Pooling(c)'
    BY <1>3, Produced
  <2> QED
    BY <1>a, <1>b, <2>1, <2>2, AtSame DEF Counting
<1>4. ASSUME Cancel \/ (\E d \in Callers : CallerCancels(d)) \/ UNCHANGED vars
      PROVE  At(c)'
  <2>1. /\ UNCHANGED <<atrest, nodes, pc, result, direct, ends, failed, counters, ticker, seen>>
        /\ UNCHANGED <<hash, quick, unsent, tasks, producer, idle, reading>>
    BY <1>4 DEF Cancel, CallerCancels, vars, nodes, control, plan, pool, tick
  <2>2. ctx[c] => ctx'[c]
    BY <1>b, <1>4 DEF Cancel, CallerCancels, vars, control
  <2>3. Pooling(c)'
    BY <1>a, <2>1, <2>2, PoolingSame
  <2> QED
    BY <1>a, <1>b, <2>1, <2>3, AtSame DEF Counting
<1>5. CASE Tick \/ Emit \/ TickerLeaves
  <2>1. /\ UNCHANGED <<atrest, nodes, pc, result, direct, ends, failed, counters>>
        /\ UNCHANGED <<hash, quick, ctx, unsent, tasks, producer, idle, reading>>
    BY <1>5 DEF Tick, Emit, TickerLeaves, nodes, control, plan, pool
  <2>2. ticker' = "loaded" => seen' = total
    BY <1>5 DEF Tick, Emit, TickerLeaves
  <2>3. pc[c] \in {"select", "count"} => total = 0
    BY <1>a DEF Counting
  <2>4. Pooling(c)'
    BY <1>a, <2>1, PoolingSame
  <2> QED
    BY <1>a, <1>b, <2>1, <2>2, <2>3, <2>4, AtSame
<1> QED
  BY <1>1, <1>2, <1>3, <1>4, <1>5 DEF Beside

LEMMA AtStep ==
    ASSUME IInv, [Next]_vars, NEW c \in Callers
    PROVE  At(c)'
<1>1. CASE Beside
  BY <1>1, BesideKeepsAt
<1>2. ASSUME NEW d \in Callers, Works(d)
      PROVE  At(c)'
  <2>1. CASE c = d
    BY <1>2, <2>1, CountingKept, SiftingKept, PoolingKept, LeavingKept DEF At
  <2>2. CASE c # d
    <3>1. pc'[c] \in {"out", "over"}
      BY <1>2, <2>2, WorksInside DEF IInv
    <3> QED
      BY <3>1, Outside
  <2> QED
    BY <2>1, <2>2
<1> QED
  BY <1>1, <1>2, WorksOrBeside

-----------------------------------------------------------------------------
\* A call leaves, and forgets what failed, by Release alone.
LEMMA WorksStays ==
    ASSUME IInv, NEW c \in Callers, Works(c)
    PROVE  failed' = NoFailure \/ Inside(c)'
<1>a. Inside(c) /\ pc \in [Callers -> Labels]
  BY WorksInside DEF IInv, Typed, TypeOK, Types, Labels
<1> USE DEF Inside, Goto
<1>1. ASSUME Register(c) \/ SelectCandidates(c) \/ SetTotal(c) \/ StartEnds(c) \/ EndsRead(c) \/ Check(c)
      PROVE  failed' = NoFailure \/ Inside(c)'
  BY <1>a, <1>1 DEF Register, SelectCandidates, SetTotal, StartEnds, StartStage, EndsRead, Check, Fails
<1>2. ASSUME StartFull(c) \/ FullRead(c) \/ Finish(c) \/ StopProgress(c) \/ Unregister(c)
      PROVE  failed' = NoFailure \/ Inside(c)'
  BY <1>a, <1>2 DEF StartFull, StartStage, FullRead, Finish, StopProgress, Unregister, Fails
<1>3. ASSUME Release(c)
      PROVE  failed' = NoFailure \/ Inside(c)'
  BY <1>3 DEF Release
<1>4. ASSUME Receive(c) \/ WorkerLeaves(c)
      PROVE  failed' = NoFailure \/ Inside(c)'
  BY <1>a, <1>4 DEF Receive, WorkerLeaves
<1>5. ASSUME NEW f \in Files, ReadEnds(f, c) \/ ReadFull(f, c) \/ ReadFails(f, c) \/ ReadAbandoned(f, c)
      PROVE  failed' = NoFailure \/ Inside(c)'
  BY <1>a, <1>5 DEF ReadEnds, ReadFull, ReadFails, ReadAbandoned, Back
<1> QED
  BY <1>1, <1>2, <1>3, <1>4, <1>5
     DEF Works, RunHashing, Wait, Read

LEMMA ProducersStep == IInv /\ [Next]_vars => \A c \in Callers : producer'[c] = "gone" => unsent'[c] = {}
<1> SUFFICES ASSUME IInv, [Next]_vars, NEW c \in Callers
             PROVE  producer'[c] = "gone" => unsent'[c] = {}
  OBVIOUS
<1>a. /\ producer[c] = "gone" => unsent[c] = {}
      /\ unsent \in [Callers -> SUBSET Files] /\ producer \in [Callers -> {"off", "sending", "gone"}]
  BY DEF IInv, Resting, Typed, TypeOK, Types
<1>1. ASSUME NEW d \in Callers, StartEnds(d) \/ StartFull(d)
      PROVE  producer'[c] = "gone" => unsent'[c] = {}
  BY <1>a, <1>1 DEF StartEnds, StartFull, StartStage
<1>2. ASSUME NEW d \in Callers, Send(d) \/ ProducerLeaves(d)
      PROVE  producer'[c] = "gone" => unsent'[c] = {}
  BY <1>a, <1>2 DEF Send, ProducerLeaves
<1>3. CASE UNCHANGED <<producer, unsent>>
  BY <1>a, <1>3
<1>4. ASSUME NEW d \in Callers, RunHashing(d)
      PROVE  StartEnds(d) \/ StartFull(d) \/ UNCHANGED <<producer, unsent>>
  BY <1>4 DEF RunHashing, Register, SelectCandidates, SetTotal, EndsRead, Check, FullRead, Finish,
              StopProgress, Unregister, Release, pool
<1>5. ASSUME NEW d \in Callers, Wait(d) \/ \E f \in Files : Read(f, d)
      PROVE  UNCHANGED <<producer, unsent>>
  BY <1>5 DEF Wait, Receive, WorkerLeaves, Read, ReadEnds, ReadFull, ReadFails, ReadAbandoned, Back
<1>6. Beside => (\E d \in Callers : Send(d) \/ ProducerLeaves(d)) \/ UNCHANGED <<producer, unsent>>
  BY DEF Beside, Produce, Call, CallRefused, CallerCancels, Cancel, Tick, Emit, TickerLeaves, pool, vars
<1> QED
  BY <1>1, <1>2, <1>3, <1>4, <1>5, <1>6, WorksOrBeside DEF Works

LEMMA RestingStep == IInv /\ [Next]_vars => Resting'
<1> SUFFICES ASSUME IInv, [Next]_vars, \A c \in Callers : ~Inside(c)'
             PROVE  failed' = NoFailure
  BY ProducersStep DEF Resting
<1>a. pc \in [Callers -> Labels] /\ Resting
  BY DEF IInv, Typed, TypeOK, Types, Labels
<1>1. ASSUME NEW d \in Callers, Works(d)
      PROVE  failed' = NoFailure
  BY <1>1, WorksStays
<1>2. CASE Beside
  <2>1. UNCHANGED failed
    BY <1>2 DEF Beside, Call, CallRefused, CallerCancels, Produce, Send, ProducerLeaves, Cancel,
                Tick, Emit, TickerLeaves, vars
  <2>2. ASSUME NEW c \in Callers
        PROVE  ~Inside(c)
    <3>1. ~Inside(c)'
      OBVIOUS
    <3>2. ASSUME NEW d \in Callers, Call(d)
          PROVE  ~Inside(c)
      BY <1>a, <3>1, <3>2 DEF Call, Arrives, Goto, Inside
    <3>3. ASSUME NEW d \in Callers, CallRefused(d)
          PROVE  ~Inside(c)
      BY <1>a, <3>1, <3>3 DEF CallRefused, Arrives, Goto, Inside
    <3>4. CASE UNCHANGED pc
      BY <3>1, <3>4 DEF Inside
    <3>5. (\E d \in Callers : Call(d) \/ CallRefused(d)) \/ UNCHANGED pc
      BY <1>2 DEF Beside, CallerCancels, Produce, Send, ProducerLeaves, Cancel, Tick, Emit,
                  TickerLeaves, vars
    <3> QED
      BY <3>2, <3>3, <3>4, <3>5
  <2> QED
    BY <1>a, <2>1, <2>2 DEF Resting
<1> QED
  BY <1>1, <1>2, WorksOrBeside

LEMMA IInvInit == Init => IInv
<1> SUFFICES ASSUME Init PROVE IInv
  OBVIOUS
<1>1. Typed
  BY TypedInit
<1>2. \A c \in Callers : pc[c] = "out" /\ ~Inside(c) /\ producer[c] = "off"
  BY DEF Init, Inside
<1>3. Serial
  BY <1>2, Constants DEF Init, Serial
<1>4. Reporting /\ Resting
  BY <1>2 DEF Init, Reporting, Resting
<1>5. \A c \in Callers : At(c)
  BY <1>2 DEF At, Counting, Sifting, Pooling, Apart, Drained, EndsHeld, FullHeld, Leaving,
              Planned, Chosen, Settled, InStage
<1> QED
  BY <1>1, <1>3, <1>4, <1>5 DEF IInv

LEMMA IInvStep == IInv /\ [Next]_vars => IInv'
<1> SUFFICES ASSUME IInv, [Next]_vars PROVE IInv'
  OBVIOUS
<1>1. Typed' /\ Serial'
  BY TypedStep, SerialStep DEF IInv
<1>2. Reporting' /\ Resting'
  BY ReportingStep, RestingStep
<1>3. \A c \in Callers : At(c)'
  BY AtStep
<1> QED
  BY <1>1, <1>2, <1>3 DEF IInv

\* What the proofs below rest on holds in every state of every run.
THEOREM InvariantHolds == Spec => []IInv
<1> HIDE DEF Init, Next, IInv, vars
<1> QED
  BY IInvInit, IInvStep, PTL DEF Spec

-----------------------------------------------------------------------------
\* The fields of Hasher keep their types, a channel holds no more than its
\* capacity, and no pool has more workers than were started.
THEOREM TypeCorrect == Spec => []TypeOK
<1>1. IInv => TypeOK
  BY DEF IInv, Typed
<1> HIDE DEF TypeOK, IInv
<1> QED
  BY <1>1, InvariantHolds, PTL

\* One call of RunHashing is inside at a time, and Cancel reaches that one from
\* the moment it registers until it is forgotten, and no other.
THEOREM CancelReachesCorrect == Spec => []CancelReaches
<1>1. IInv => CancelReaches
  BY DEF IInv, Serial, CancelReaches, Inside
<1> HIDE DEF CancelReaches, IInv
<1> QED
  BY <1>1, InvariantHolds, PTL

LEMMA CountWithinTotal ==
    ASSUME Typed, NEW c \in Callers, Counting(c), pc[c] \notin {"out", "in", "over"},
           ticker = "loaded", seen # 0
    PROVE  hashed <= total
<1>a. direct[c] \in SUBSET Files /\ ends[c] \in SUBSET Files /\ pc \in [Callers -> Labels]
  BY DEF Typed, TypeOK, Types, Labels
<1>n. hashed \in Nat /\ total \in Nat
  BY DEF Typed, TypeOK, Types
<1>1. pc[c] \notin {"select", "count"}
  BY DEF Counting
<1>2. CASE pc[c] \in {"start ends", "ends"}
  <2>1. total = hashed + Cardinality(direct[c] \cup ends[c])
    BY <1>2 DEF Counting
  <2>2. Cardinality(direct[c] \cup ends[c]) \in Nat
    BY <1>a, Sets
  <2> QED
    BY <1>n, <2>1, <2>2, SumIsMore
<1>3. CASE Chosen(c)
  <2>1. total = hashed + Cardinality(Unread(c))
    BY <1>3 DEF Counting
  <2>2. Unread(c) \in SUBSET Files
    BY <1>a DEF Unread
  <2>3. Cardinality(Unread(c)) \in Nat
    BY <2>2, Sets
  <2> QED
    BY <1>n, <2>1, <2>3, SumIsMore
<1>4. CASE pc[c] \in {"leave", "cancel", "release"}
  BY <1>4 DEF Counting
<1> QED
  BY <1>a, <1>1, <1>2, <1>3, <1>4 DEF Chosen, Labels

\* No progress is reported for a call that has stopped its ticker, and none that
\* claims more files hashed than there were to hash, though the two counters are
\* loaded one after the other.
THEOREM NoLateReportCorrect == Spec => []NoLateReport
<1>1. IInv => NoLateReport
  <2> SUFFICES ASSUME IInv PROVE NoLateReport
    OBVIOUS
  <2>a. Typed /\ Reporting /\ TypeOK /\ \A c \in Callers : Counting(c)
    BY DEF IInv, At, Typed
  <2>n. hashed \in Nat /\ total \in Nat /\ seen \in Nat
    BY <2>a DEF TypeOK, Types
  <2>1. ticker # "off" => \E c \in Callers : Inside(c) /\ pc[c] \notin {"in", "cancel", "release"}
    BY <2>a DEF Reporting, Inside
  <2>2. ASSUME ticker = "loaded", seen # 0
        PROVE  hashed <= seen
    <3>1. PICK c \in Callers : pc[c] \notin {"out", "in", "over"}
      BY <2>2, <2>1 DEF Inside
    <3>2. hashed <= total
      BY <2>2, <2>a, <3>1, CountWithinTotal
    <3>3. total <= seen
      BY <2>2, <2>a DEF Reporting
    <3> QED
      BY <2>n, <3>2, <3>3
  <2> QED
    BY <2>a, <2>1, <2>2 DEF NoLateReport
<1> HIDE DEF NoLateReport, IInv
<1> QED
  BY <1>1, InvariantHolds, PTL

LEMMA TwoOf ==
    ASSUME NEW S \in SUBSET Files, NEW f \in S, NEW g \in S, f # g
    PROVE  Cardinality(S) >= 2
<1> DEFINE T == S \ {f}
           U == T \ {g}
<1>1. T \in SUBSET Files /\ g \in T /\ U \in SUBSET Files
  OBVIOUS
<1>2. Cardinality(T) = Cardinality(S) - 1 /\ Cardinality(S) \in Nat
  BY OneLess
<1>3. Cardinality(U) = Cardinality(T) - 1 /\ Cardinality(T) \in Nat /\ Cardinality(U) \in Nat
  BY <1>1, OneLess
<1> HIDE DEF T, U
<1> QED
  BY <1>2, <1>3

\* Equal files whose ends were read both survive them.
LEMMA TwinsSurvive ==
    ASSUME NEW c \in Callers, ends[c] \in SUBSET Files, NEW f \in ends[c] \cap quick,
           NEW g \in ends[c] \cap quick, f # g, content[f] = content[g]
    PROVE  f \in Survivors(c)
<1> DEFINE read == ends[c] \cap quick
           alike(h) == { k \in read : SizeOf(k) = SizeOf(h) /\ Quick[content[k]] = Quick[content[h]] }
<1>1. alike(f) \in SUBSET Files /\ f \in alike(f) /\ g \in alike(f)
  BY DEF SizeOf
<1>2. Cardinality(alike(f)) >= 2
  <2> HIDE DEF alike
  <2> QED
    BY <1>1, TwoOf
<1>3. Survivors(c) = { h \in read : Cardinality(alike(h)) >= 2 }
  BY DEF Survivors
<1> HIDE DEF alike
<1> QED
  BY <1>2, <1>3

LEMMA TwinsCompared ==
    ASSUME NEW f \in Eligible, NEW g \in Eligible, f # g, content[f] = content[g]
    PROVE  g \in Peers(f) /\ f \in Candidates
<1>1. Peers(f) \in SUBSET Files /\ f \in Peers(f) /\ g \in Peers(f)
  BY DEF Peers, Eligible, SizeOf
<1>2. Cardinality(Peers(f)) >= 2
  <2> HIDE DEF Peers
  <2> QED
    BY <1>1, TwoOf
<1> QED
  BY <1>1, <1>2 DEF Candidates

\* Neither the choice by size, nor a reused hash, nor the two ends drop a pair of
\* equal files: a call that answers without an error has hashed them, or failed
\* to read one; and its counters close.
THEOREM TwinsHashedCorrect == Spec => []TwinsHashed
<1>1. IInv => TwinsHashed
  <2> SUFFICES ASSUME IInv, NEW c \in Callers, Settled(c)
               PROVE  /\ hashed + Cardinality(failed.full) = total
                      /\ \A f \in Eligible \ Locked :
                            (hashAll \/ \E g \in Eligible \ (Locked \cup {f}) : content[g] = content[f])
                                => hash[f] = "own"
    BY DEF TwinsHashed
  <2>a. /\ Counting(c) /\ Sifting(c) /\ Leaving(c) /\ Planned(c) /\ Chosen(c)
        /\ ends[c] \in SUBSET Files
    BY DEF IInv, At, Typed, TypeOK, Types, Planned, Chosen
  <2>1. Unread(c) = failed.full
    BY <2>a DEF Leaving
  <2>2. total = hashed + Cardinality(Unread(c))
    BY <2>a DEF Counting
  <2>3. ASSUME NEW f \in Eligible \ Locked,
               hashAll \/ \E g \in Eligible \ (Locked \cup {f}) : content[g] = content[f]
        PROVE  hash[f] = "own"
    <3>0. SUFFICES ASSUME hash[f] # "own" PROVE FALSE
      OBVIOUS
    <3>1. f \notin direct[c]
      BY <2>1, <2>3, <3>0 DEF Unread, Locked
    <3>2. f \in Compared
      BY <2>3, TwinsCompared DEF Compared
    <3>3. f \in ends[c] /\ ~hashAll
      BY <2>a, <3>0, <3>1, <3>2 DEF Sifting
    <3>4. PICK g \in Eligible \ (Locked \cup {f}) : content[g] = content[f]
      BY <2>3, <3>3
    <3>5. g \in ends[c]
      BY <2>a, <2>3, <3>3, <3>4, TwinsCompared DEF Sifting
    <3>6. f \in quick /\ g \in quick
      BY <2>a, <2>3, <3>3, <3>4, <3>5 DEF Leaving, Locked
    <3>7. f \in Survivors(c)
      BY <2>a, <3>3, <3>4, <3>5, <3>6, TwinsSurvive
    <3> QED
      BY <2>a, <3>1, <3>7 DEF Leaving
  <2> QED
    BY <2>1, <2>2, <2>3
<1> HIDE DEF TwinsHashed, IInv
<1> QED
  BY <1>1, InvariantHolds, PTL
=============================================================================
