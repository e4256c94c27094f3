------------------------------- MODULE Hasher -------------------------------
(***************************************************************************)
(* Phase 2 of a scan (pkg/hasher/hasher.go, prehash.go): which files are   *)
(* read in full, and the two pools of workers that read them.  Files of a  *)
(* size no other file has are never read; of the rest, the large ones are  *)
(* first told apart by their two ends, and only those that still collide   *)
(* are hashed.  A cancellation may come at any moment, a file may be       *)
(* locked, a second call may arrive while the first runs, and the ticker   *)
(* reports progress beside it all.                                         *)
(*                                                                         *)
(* A content stands for its full hash, which is a function of it.  The     *)
(* bytes of a file, the rate and the logs are left out.                    *)
(***************************************************************************)
EXTENDS Naturals, FiniteSets

CONSTANTS
    Callers,     \* the calls of RunHashing, numbered as they arrive
    Workers,     \* how many goroutines a stage's pool has (ResolveWorkers)
    Files,       \* allFiles
    Contents,    \* what a file may hold
    Size,        \* Size[c]: its length
    Quick,       \* Quick[c]: the hash of its two ends (ComputeQuickHash)
    Scans,       \* the scans considered: what each file holds, and HashAllFiles
    Carried,     \* the sets of files that may carry a hash of an older algorithm
    MinSize,     \* opts.MinSize
    PrehashMin,  \* PrehashMinSize: files up to this size have no more than two ends
    Capacity,    \* of taskChan
    MaxFaults,   \* how many reads may fail
    NoCaller

ASSUME HasherAssumption ==
    /\ Callers \subseteq Nat
    /\ IsFiniteSet(Files)
    /\ Size \in [Contents -> Nat]
    /\ Scans \subseteq [content : [Files -> Contents], hashAll : BOOLEAN]
    /\ MinSize \in Nat \ {0}    \* RunHashing raises it to 1
    /\ Capacity \in Nat \ {0}
    /\ Workers \in Nat \ {0}
    /\ MaxFaults \in Nat
    /\ NoCaller \notin Callers

VARIABLES
    content,     \* what each file holds, for good
    hashAll,     \* opts.HashAllFiles
    hash,        \* FileNode.Hash: "none", of an "old" algorithm, or its "own"
    quick,       \* FileNode.QuickHash is set
    running,     \* Hasher.isRunning
    registered,  \* Hasher.cancelFunc: the call whose context it cancels
    pc,          \* where each call of RunHashing is
    ctx,         \* ctx[c]: the context of the call is done
    result,      \* what the call returned
    direct,      \* direct[c]: the files to be hashed in full
    ends,        \* ends[c]: the files whose two ends are to be read
    unsent,      \* unsent[c]: what the producer of the stage has yet to send
    producer,    \* producer[c]: it is "off", "sending", or "gone"
    tasks,       \* tasks[c]: taskChan, as the set of what is in it
    idle,        \* how many workers of the pool wait for a file
    reading,     \* the files the other workers of the pool read
    failed,      \* the reads of this run that failed, by stage
    hashed, total,  \* hashedFiles, totalToHash
    ticker,      \* the goroutine of startProgressTicker
    seen,        \* the total it has loaded
    faults       \* counts failed reads, a bound of the model

atrest   == <<content, hashAll>>
nodes    == <<hash, quick>>
control  == <<running, registered, ctx, result>>
plan     == <<direct, ends>>
pool     == <<unsent, producer, tasks, idle, reading>>
counters == <<hashed, total>>
tick     == <<ticker, seen>>
vars     == <<atrest, nodes, control, pc, plan, pool, failed, counters, tick, faults>>

NoFailure == [ends |-> {}, full |-> {}]

SizeOf(f)  == Size[content[f]]
Eligible   == { f \in Files : SizeOf(f) >= MinSize }
Peers(f)   == { g \in Eligible : SizeOf(g) = SizeOf(f) }
Candidates == { f \in Eligible : Cardinality(Peers(f)) >= 2 }

Init ==
    /\ \E s \in Scans : content = s.content /\ hashAll = s.hashAll
    /\ \E S \in Carried : hash = [f \in Files |-> IF f \in S THEN "old" ELSE "none"]
    /\ quick = {}
    /\ running = FALSE /\ registered = NoCaller
    /\ pc = [c \in Callers |-> "out"]
    /\ ctx = [c \in Callers |-> FALSE]
    /\ result = [c \in Callers |-> "none"]
    /\ direct = [c \in Callers |-> {}] /\ ends = [c \in Callers |-> {}]
    /\ unsent = [c \in Callers |-> {}]
    /\ producer = [c \in Callers |-> "off"]
    /\ tasks = [c \in Callers |-> {}]
    /\ idle = 0 /\ reading = {}
    /\ failed = NoFailure
    /\ hashed = 0 /\ total = 0
    /\ ticker = "off" /\ seen = 0
    /\ faults = 0

Goto(c, where) == pc' = [pc EXCEPT ![c] = where]
Fails(c) ==
    /\ result' = [result EXCEPT ![c] = "cancelled"]
    /\ Goto(c, "leave")

-----------------------------------------------------------------------------
\* The call: one at a time, and only the one that got in resets the counters.
\* Each scan brings new nodes, to which Quick Scan carries the full hashes.
Arrives(c) == pc[c] = "out" /\ \A d \in Callers : d < c => pc[d] # "out"

Call(c) ==
    /\ Arrives(c) /\ ~running
    /\ running' = TRUE
    /\ Goto(c, "in")
    /\ quick' = {}
    /\ UNCHANGED <<atrest, hash, registered, ctx, result, plan, pool, failed, counters, tick, faults>>

CallRefused(c) ==
    /\ Arrives(c) /\ running
    /\ result' = [result EXCEPT ![c] = "in progress"]
    /\ Goto(c, "over")
    /\ UNCHANGED <<atrest, nodes, running, registered, ctx, plan, pool, failed, counters, tick, faults>>

\* setCancel, the counters at zero, a look at the context, the ticker.
Register(c) ==
    /\ pc[c] = "in"
    /\ registered' = c
    /\ hashed' = 0 /\ total' = 0
    /\ \/ ctx[c] /\ Fails(c) /\ UNCHANGED tick
       \/ /\ ~ctx[c] /\ Goto(c, "select")
          /\ ticker' = "on" /\ UNCHANGED <<seen, result>>
    /\ UNCHANGED <<atrest, nodes, running, ctx, plan, pool, failed, faults>>

\* selectCandidates: a hash of this algorithm is reused, one of another is
\* thrown away; files of one size that must be compared with a reused hash are
\* hashed in full, and so are those too small for the two ends to help.
Reused(f) == hash[f] = "own"
Compared  == IF hashAll THEN Eligible ELSE Candidates
Pending   == { f \in Compared : ~Reused(f) }

\* A file is told apart by its ends even from one whose hash is reused.
NeedsFullIgnoringReuse(f) ==
    \/ hashAll
    \/ SizeOf(f) <= PrehashMin

NeedsFull(f) ==
    \/ hashAll
    \/ \E g \in Peers(f) : Reused(g)
    \/ SizeOf(f) <= PrehashMin

SelectCandidates(c) ==
    /\ pc[c] = "select"
    /\ hash' = [f \in Files |-> IF f \in Eligible /\ hash[f] = "old" THEN "none" ELSE hash[f]]
    /\ hashed' = Cardinality({ f \in Compared : Reused(f) })
    /\ direct' = [direct EXCEPT ![c] = { f \in Pending : NeedsFull(f) }]
    /\ ends' = [ends EXCEPT ![c] = { f \in Pending : ~NeedsFull(f) }]
    /\ Goto(c, "count")
    /\ UNCHANGED <<atrest, quick, control, pool, failed, total, tick, faults>>

SetTotal(c) ==
    /\ pc[c] = "count"
    /\ total' = hashed + Cardinality(direct[c] \cup ends[c])
    /\ Goto(c, IF ends[c] = {} THEN "check" ELSE "start ends")
    /\ UNCHANGED <<atrest, nodes, control, plan, pool, failed, hashed, tick, faults>>

-----------------------------------------------------------------------------
\* A stage: a pool of workers, a producer that feeds them through a bounded
\* channel and closes it, and the wait for the workers (not for the producer).
StartStage(c, fs, stage) ==
    /\ unsent' = [unsent EXCEPT ![c] = fs]
    /\ producer' = [producer EXCEPT ![c] = "sending"]
    /\ tasks' = [tasks EXCEPT ![c] = {}]
    /\ idle' = Workers /\ reading' = {}
    /\ Goto(c, stage)
    /\ UNCHANGED <<atrest, nodes, control, plan, failed, counters, tick, faults>>

Send(c) ==
    /\ producer[c] = "sending"
    /\ Cardinality(tasks[c]) < Capacity
    /\ \E f \in unsent[c] :
          /\ unsent' = [unsent EXCEPT ![c] = @ \ {f}]
          /\ tasks' = [tasks EXCEPT ![c] = @ \cup {f}]
    /\ UNCHANGED <<atrest, nodes, control, pc, plan, producer, idle, reading, failed, counters, tick, faults>>

\* The producer does not look at the context.
ProducerLeavesWhenDone(c) ==
    /\ producer[c] = "sending"
    /\ unsent[c] = {}
    /\ producer' = [producer EXCEPT ![c] = "gone"]
    /\ unsent' = [unsent EXCEPT ![c] = {}]
    /\ UNCHANGED <<atrest, nodes, control, pc, plan, tasks, idle, reading, failed, counters, tick, faults>>

\* close(taskChan): everything was sent, or the context is done.
ProducerLeaves(c) ==
    /\ producer[c] = "sending"
    /\ unsent[c] = {} \/ ctx[c]
    /\ producer' = [producer EXCEPT ![c] = "gone"]
    /\ unsent' = [unsent EXCEPT ![c] = {}]
    /\ UNCHANGED <<atrest, nodes, control, pc, plan, tasks, idle, reading, failed, counters, tick, faults>>

InStage(c) == pc[c] \in {"ends", "full"}

Receive(c) ==
    /\ InStage(c) /\ idle > 0
    /\ \E f \in tasks[c] :
          /\ idle' = idle - 1
          /\ reading' = reading \cup {f}
          /\ tasks' = [tasks EXCEPT ![c] = @ \ {f}]
    /\ UNCHANGED <<atrest, nodes, control, pc, plan, unsent, producer, failed, counters, tick, faults>>

\* The channel is closed and empty, or the context is done.
WorkerLeaves(c) ==
    /\ InStage(c) /\ idle > 0
    /\ (producer[c] = "gone" /\ tasks[c] = {}) \/ ctx[c]
    /\ idle' = idle - 1
    /\ UNCHANGED <<atrest, nodes, control, pc, plan, unsent, producer, tasks, reading, failed, counters, tick, faults>>

\* The worker that reads f is done with it, one way or another.
Reading(f, c, stage) == pc[c] = stage /\ f \in reading

Back(f) ==
    /\ idle' = idle + 1
    /\ reading' = reading \ {f}
    /\ UNCHANGED <<atrest, control, pc, plan, unsent, producer, tasks, tick>>

ReadEnds(f, c) ==
    /\ Reading(f, c, "ends") /\ Back(f)
    /\ quick' = quick \cup {f}
    /\ UNCHANGED <<hash, failed, counters, faults>>

ReadFull(f, c) ==
    /\ Reading(f, c, "full") /\ Back(f)
    /\ hash' = [hash EXCEPT ![f] = "own"]
    /\ hashed' = hashed + 1
    /\ UNCHANGED <<quick, failed, total, faults>>

\* The file cannot be opened, or a read fails: it is logged and passed over.
ReadFails(f, c) ==
    /\ InStage(c) /\ Reading(f, c, pc[c]) /\ Back(f)
    /\ faults < MaxFaults /\ faults' = faults + 1
    /\ failed' = [failed EXCEPT ![pc[c]] = @ \cup {f}]
    /\ UNCHANGED <<nodes, counters>>

\* Between two blocks of a file the worker looks at the context; the two ends
\* are read without a look.
ReadAbandoned(f, c) ==
    /\ Reading(f, c, "full") /\ ctx[c] /\ Back(f)
    /\ UNCHANGED <<nodes, failed, counters, faults>>

AllGone == idle = 0 /\ reading = {}

-----------------------------------------------------------------------------
\* RunHashing around the stages.
StartEnds(c) == pc[c] = "start ends" /\ StartStage(c, ends[c], "ends")

\* regroupAfterPrehash: those that still share size and ends with another.
Survivors(c) ==
    LET read == ends[c] \cap quick
        alike(f) == { g \in read : SizeOf(g) = SizeOf(f) /\ Quick[content[g]] = Quick[content[f]] }
    IN  { f \in read : Cardinality(alike(f)) >= 2 }

EndsRead(c) ==
    /\ pc[c] = "ends" /\ AllGone
    /\ IF ctx[c]
         THEN Fails(c) /\ UNCHANGED <<direct, total>>
         ELSE /\ direct' = [direct EXCEPT ![c] = @ \cup Survivors(c)]
              /\ total' = hashed + Cardinality(direct'[c])
              /\ Goto(c, "check") /\ UNCHANGED result
    /\ UNCHANGED <<atrest, nodes, running, registered, ctx, ends, pool, failed, hashed, tick, faults>>

Check(c) ==
    /\ pc[c] = "check"
    /\ IF ctx[c] THEN Fails(c)
                 ELSE /\ Goto(c, IF direct[c] = {} THEN "finish" ELSE "start full")
                      /\ UNCHANGED result
    /\ UNCHANGED <<atrest, nodes, running, registered, ctx, plan, pool, failed, counters, tick, faults>>

StartFull(c) == pc[c] = "start full" /\ StartStage(c, direct[c], "full")

FullRead(c) ==
    /\ pc[c] = "full" /\ AllGone
    /\ IF ctx[c] THEN Fails(c) ELSE Goto(c, "finish") /\ UNCHANGED result
    /\ UNCHANGED <<atrest, nodes, running, registered, ctx, plan, pool, failed, counters, tick, faults>>

\* The last look at the context; then everything is done.
Finish(c) ==
    /\ pc[c] = "finish"
    /\ IF ctx[c] THEN Fails(c)
                 ELSE Goto(c, "leave") /\ result' = [result EXCEPT ![c] = "ok"]
    /\ UNCHANGED <<atrest, nodes, running, registered, ctx, plan, pool, failed, counters, tick, faults>>

\* The ticker is told to end but not waited for.
StopProgressAtOnce(c) ==
    /\ pc[c] = "leave"
    /\ Goto(c, "cancel")
    /\ UNCHANGED <<atrest, nodes, control, plan, pool, failed, counters, tick, faults>>

\* The deferred calls, last first: the ticker is waited for, the context is
\* cancelled and forgotten, and only then may another call come in.
StopProgress(c) ==
    /\ pc[c] = "leave" /\ ticker = "off"
    /\ Goto(c, "cancel")
    /\ UNCHANGED <<atrest, nodes, control, plan, pool, failed, counters, tick, faults>>

\* The next call is let in before this one is forgotten.
UnregisterLast(c) ==
    /\ pc[c] = "cancel"
    /\ running' = FALSE
    /\ Goto(c, "release")
    /\ UNCHANGED <<atrest, nodes, registered, ctx, result, plan, pool, failed, counters, tick, faults>>

Unregister(c) ==
    /\ pc[c] = "cancel"
    /\ ctx' = [ctx EXCEPT ![c] = TRUE]
    /\ registered' = NoCaller
    /\ Goto(c, "release")
    /\ UNCHANGED <<atrest, nodes, running, result, plan, pool, failed, counters, tick, faults>>

Release(c) ==
    /\ pc[c] = "release"
    /\ running' = FALSE
    /\ Goto(c, "over")
    /\ direct' = [direct EXCEPT ![c] = {}] /\ ends' = [ends EXCEPT ![c] = {}]
    /\ failed' = NoFailure
    /\ UNCHANGED <<atrest, nodes, registered, ctx, result, pool, counters, tick, faults>>

-----------------------------------------------------------------------------
\* Cancel calls the function that is registered, if there is one; the caller's
\* own context may be done at any time of the call.
Cancel ==
    /\ registered # NoCaller
    /\ ctx' = [ctx EXCEPT ![registered] = TRUE]
    /\ UNCHANGED <<atrest, nodes, running, registered, result, pc, plan, pool, failed, counters, tick, faults>>

CallerCancels(c) ==
    /\ pc[c] \notin {"out", "over"}
    /\ ctx' = [ctx EXCEPT ![c] = TRUE]
    /\ UNCHANGED <<atrest, nodes, running, registered, result, pc, plan, pool, failed, counters, tick, faults>>

\* The ticker loads the total, then the count, and reports the two.
Tick ==
    /\ ticker = "on" /\ ticker' = "loaded" /\ seen' = total
    /\ UNCHANGED <<atrest, nodes, control, pc, plan, pool, failed, counters, faults>>

Emit ==
    /\ ticker = "loaded" /\ ticker' = "on"
    /\ seen' = 0
    /\ UNCHANGED <<atrest, nodes, control, pc, plan, pool, failed, counters, faults>>

\* It ends with the context, or when stopProgress closes done.
TickerLeaves ==
    /\ ticker = "on"
    /\ \E c \in Callers : /\ pc[c] \notin {"out", "in", "cancel", "release", "over"}
                          /\ ctx[c] \/ pc[c] = "leave"
    /\ ticker' = "off"
    /\ UNCHANGED <<atrest, nodes, control, pc, plan, pool, failed, counters, seen, faults>>

-----------------------------------------------------------------------------
RunHashing(c) ==
    \/ Register(c) \/ SelectCandidates(c) \/ SetTotal(c)
    \/ StartEnds(c) \/ EndsRead(c) \/ Check(c) \/ StartFull(c) \/ FullRead(c)
    \/ Finish(c) \/ StopProgress(c) \/ Unregister(c) \/ Release(c)

Produce(c) == Send(c) \/ ProducerLeaves(c)

Wait(c) == Receive(c) \/ WorkerLeaves(c)

Read(f, c) == ReadEnds(f, c) \/ ReadFull(f, c) \/ ReadFails(f, c) \/ ReadAbandoned(f, c)

Next ==
    \/ \E c \in Callers : \/ Call(c) \/ CallRefused(c) \/ CallerCancels(c)
                          \/ RunHashing(c) \/ Produce(c) \/ Wait(c)
                          \/ \E f \in Files : Read(f, c)
    \/ Cancel \/ Tick \/ Emit \/ TickerLeaves

Spec == Init /\ [][Next]_vars

\* While some goroutine of a run can move, one does: each of their steps takes
\* the run forward, so no more is needed of the scheduler.  A read returns.
\* The ticker's select does not forever prefer the clock to the end.
Advance(c) == RunHashing(c) \/ Produce(c) \/ Wait(c) \/ \E f \in Files : Read(f, c)

Fairness ==
    /\ WF_vars(\E c \in Callers : Advance(c))
    /\ WF_vars(Emit) /\ SF_vars(TickerLeaves)

FairSpec == Spec /\ Fairness

-----------------------------------------------------------------------------
\* The fields of Hasher and the goroutines of a run (hasher.go, type Hasher).
Types ==
    /\ hash \in [Files -> {"none", "old", "own"}] /\ quick \subseteq Files
    /\ running \in BOOLEAN /\ registered \in Callers \cup {NoCaller}
    /\ pc \in [Callers -> {"out", "in", "select", "count", "start ends", "ends", "check",
                           "start full", "full", "finish", "leave", "cancel", "release", "over"}]
    /\ ctx \in [Callers -> BOOLEAN]
    /\ result \in [Callers -> {"none", "ok", "cancelled", "in progress"}]
    /\ direct \in [Callers -> SUBSET Files] /\ ends \in [Callers -> SUBSET Files]
    /\ unsent \in [Callers -> SUBSET Files] /\ tasks \in [Callers -> SUBSET Files]
    /\ producer \in [Callers -> {"off", "sending", "gone"}]
    /\ idle \in 0..Workers /\ reading \subseteq Files
    /\ failed \in [ends : SUBSET Files, full : SUBSET Files]
    /\ hashed \in Nat /\ total \in Nat
    /\ ticker \in {"off", "on", "loaded"} /\ seen \in Nat
    /\ faults \in 0..MaxFaults

\* The channel and the pool hold what there is room for.
Fits ==
    /\ \A c \in Callers : Cardinality(tasks[c]) <= Capacity
    /\ idle + Cardinality(reading) <= Workers

TypeOK == Types /\ Fits

Inside(c)  == pc[c] \notin {"out", "over"}
Settled(c) == result[c] = "ok" /\ pc[c] \in {"leave", "cancel", "release"}
Locked     == failed.ends \cup failed.full

\* A run that answers without an error leaves no pair of equal files without
\* their hashes, unless one of them could not be read: neither the choice by
\* size, nor the hashes reused, nor the two ends may drop a duplicate.  And
\* its counters close: every file of the total was hashed or failed, though
\* the total is set twice along the way (totalToHash).
TwinsHashed ==
    \A c \in Callers : Settled(c) =>
        /\ hashed + Cardinality(failed.full) = total
        /\ \A f \in Eligible \ Locked :
            (hashAll \/ \E g \in Eligible \ (Locked \cup {f}) : content[g] = content[f])
                => hash[f] = "own"

\* No progress is reported for a call that has stopped its ticker: the server
\* would otherwise show a phase that is over (startProgressTicker waits).  And what is
\* reported never claims more files hashed than there are to hash, though the
\* two numbers are loaded one after the other (emitProgress).
NoLateReport ==
    /\ TypeOK
    /\ ticker # "off" =>
          \E c \in Callers : Inside(c) /\ pc[c] \notin {"in", "cancel", "release"}
    /\ ticker = "loaded" /\ seen # 0 => hashed <= seen

\* One call runs, and from the moment it has a context to cancel until it lets
\* the next call in, Cancel reaches that one and no other.
CancelReaches ==
    \A c \in Callers :
        /\ Inside(c) => running /\ \A d \in Callers \ {c} : ~Inside(d)
        /\ Inside(c) /\ pc[c] \notin {"in", "release"} => registered = c
        /\ pc[c] \in {"in", "release", "over"} => registered # c

\* A call that got in returns, cancelled or not and whatever files are locked,
\* and its producers end even when nobody takes their files any more.
RunEnds ==
    \A c \in Callers : (pc[c] = "in") ~> (pc[c] = "over" /\ producer[c] # "sending")
=============================================================================
