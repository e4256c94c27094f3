------------------------------- MODULE Monitor -------------------------------
(* The Monitoramento (pkg/watcher) over the tree and the duplicate index:    *)
(* notifications of the system are coalesced per path, one goroutine         *)
(* dispatches the paths whose silence is over, and files go through a        *)
(* bounded queue to the workers that read them.  When the buffer of the      *)
(* system overflows, the server maps the root again, with the watcher still  *)
(* running.  Stop ends the watcher for good: every scan makes a new one.     *)
(*                                                                           *)
(* The disk has one directory inside the watched root, with the files of     *)
(* Inside, and the files of Outside beside it.  A file is abstracted to the  *)
(* number of its last write, 0 if it does not exist; reading its metadata    *)
(* and its content is one step, since a change between the two is notified   *)
(* like a change after both.                                                 *)
EXTENDS Naturals, FiniteSets, Sequences

CONSTANTS
    Inside, Outside,  \* the files of the directory and of the root
    Workers,          \* HashWorkers
    Capacity,         \* hashQueueCapacity
    MaxEvents         \* bound on what happens to the disk and to the watcher

Dir == "dir"
Nothing == "nothing"
Files == Inside \cup Outside
Paths == Files \cup {Dir}

ASSUME MonitorAssumption ==
    /\ IsFiniteSet(Files) /\ Inside \cap Outside = {}
    /\ Dir \notin Files /\ Nothing \notin Paths
    /\ "hand" \notin Workers /\ "sweep" \notin Workers
    /\ Capacity \in Nat \ {0} /\ MaxEvents \in Nat \ {0}

VARIABLES
    disk, dirOn,    \* the files and the directory on disk
    tree, dirIn,    \* the same in the TreeManager
    hashed,         \* the files whose node in the tree has a hash
    index,          \* what the DuplicateIndex holds of each file
    notes,          \* paths in the notification buffer of the system
    pending,        \* FSWatcher.pending
    batch,          \* due paths the coalescing goroutine has still to dispatch
    hand,           \* what that goroutine is doing, with which path
    queue, queued,  \* FSWatcher.queue, FSWatcher.queued
    work,           \* what each worker is doing, with which path and write
    sweep,          \* what the re-scan is doing, what it read and reuses
    state,          \* of the watcher
    events,         \* events so far
    passed,         \* history: who was overtaken by a later look at which file
    excused,        \* history: files the tree is known to get wrong
    skewed          \* history: files the index is known to get wrong

env  == <<disk, dirOn>>
kept == <<tree, dirIn, hashed, index>>
wait == <<notes, pending, batch>>
jobs == <<queue, queued>>
past == <<passed, excused, skewed>>
life == <<state, events>>
vars == <<env, kept, wait, hand, jobs, work, sweep, life, past>>

Writes == 0..MaxEvents
None == [f \in Files |-> 0]
Rest == [at |-> "rest", path |-> Nothing, got |-> 0]
At(at, p, v) == [at |-> at, path |-> p, got |-> v]
NoSweep == [at |-> "rest", got |-> None, reuse |-> None]
Watched == state = "running"

HandAt(at) == hand.at = at
SweepAt(at) == sweep.at = at

\* Work that will still look at the path on disk.
Awaited(p) ==
    \/ p \in notes \cup pending \cup batch
    \/ HandAt("push") /\ hand.path = p
    \/ \E i \in 1..Len(queue) : queue[i] = p
    \/ \E k \in Workers : work[k].at = "look" /\ work[k].path = p
    \/ SweepAt("root") /\ p \in Files
    \/ sweep.at \in {"setRoot", "dir"} /\ p \in Inside
\* Work on the path that is past its look.
Handled(p) ==
    \/ hand.at \in {"file", "index"} /\ hand.path = p
    \/ hand.at \in {"folder", "detach"} /\ p \in Inside
    \/ \E k \in Workers : work[k].at \notin {"rest", "gone", "look"}
                          /\ work[k].path = p
    \/ SweepAt("setRoot") /\ p \in Outside
    \/ SweepAt("setDir") /\ p \in Inside
Outstanding(p) ==
    Awaited(p) \/ Handled(p) \/ (p \in Inside /\ Awaited(Dir))

----------------------------------------------------------------------------
\* History.  Everybody who looked at one of these files before, and has not
\* done with what was seen, is overtaken by a look of me: what the overtaken
\* then do to the tree or the index, they may do last.
Holding(f) ==
    {k \in Workers : work[k].at \notin {"rest", "gone", "look"} /\ work[k].path = f}
    \cup (IF \/ hand.at \in {"file", "index"} /\ hand.path = f
             \/ hand.at \in {"folder", "detach"} /\ f \in Inside
          THEN {"hand"} ELSE {})
    \cup (IF \/ SweepAt("setRoot") /\ f \in Outside
             \/ SweepAt("setDir") /\ f \in Inside
          THEN {"sweep"} ELSE {})
Overtaken(fs, me) ==
    UNION {(Holding(f) \ {me}) \X {f} : f \in fs}
Overtake(fs, me) == passed' = passed \cup Overtaken(fs, me)
Done(me) == passed' = {q \in passed : q[1] # me}
Late(fs, me) == {f \in fs : <<me, f>> \in passed}

\* What me does to these files in the tree or in the index; a change of the
\* index is undone by a re-scan that has collected the files already.
ToTree(fs, me) ==
    /\ excused' = excused \cup Late(fs, me)
    /\ skewed' = skewed \cup Late(fs, me)
ToIndex(fs, me) ==
    /\ excused' = excused \cup Late(fs, me)
    /\ skewed' = skewed \cup IF SweepAt("rebuild") THEN fs ELSE Late(fs, me)

----------------------------------------------------------------------------
\* The watcher starts on a tree that is what the disk is, every file hashed.
Init ==
    /\ \E fs \in {{}, Files} : disk = [f \in Files |-> IF f \in fs THEN 1 ELSE 0]
    /\ dirOn = (\E f \in Inside : disk[f] > 0)
    /\ tree = disk /\ dirIn = dirOn /\ index = disk
    /\ hashed = {f \in Files : disk[f] > 0}
    /\ notes = {} /\ pending = {} /\ batch = {}
    /\ hand = Rest
    /\ queue = <<>> /\ queued = {}
    /\ work = [k \in Workers |-> Rest]
    /\ sweep = NoSweep
    /\ state = "running"
    /\ events = 1
    /\ passed = {} /\ excused = {} /\ skewed = {}

----------------------------------------------------------------------------
\* The disk.  A change is notified while the watcher runs.
Happens(ps, unseen) ==
    /\ Watched /\ events < MaxEvents
    /\ events' = events + 1
    /\ notes' = notes \cup ps
    /\ excused' = (excused \ ps) \cup unseen
    /\ UNCHANGED <<kept, pending, batch, hand, jobs, work, sweep, state, passed, skewed>>

WriteFile(f) ==
    /\ f \in Inside => dirOn
    /\ disk' = [disk EXCEPT ![f] = events + 1]
    /\ Happens({f}, {})
    /\ UNCHANGED dirOn

DeleteFile(f) ==
    /\ disk[f] > 0
    /\ disk' = [disk EXCEPT ![f] = 0]
    /\ Happens({f}, {})
    /\ UNCHANGED dirOn

\* The directory is moved out of the root, or renamed: its files raise nothing.
MoveOut ==
    /\ dirOn
    /\ dirOn' = FALSE
    /\ disk' = [f \in Files |-> IF f \in Inside THEN 0 ELSE disk[f]]
    /\ Happens({Dir}, {})

\* A directory appears, empty or with files that were in it already.  The
\* files are unseen; so is what left with the directory of the same name that
\* nobody has looked for yet.
MoveIn(fs) ==
    /\ ~dirOn
    /\ dirOn' = TRUE
    /\ disk' = [f \in Files |-> IF f \in fs THEN events + 1 ELSE disk[f]]
    /\ Happens({Dir}, fs \cup (IF Awaited(Dir) THEN Inside ELSE {}))

\* The buffer overflows and what it held is dropped.  rescanRoot maps the root
\* again, unless a cycle is under way: then nobody makes up for the loss.
Overflow ==
    /\ Watched /\ notes # {}
    /\ notes' = {}
    /\ \/ /\ SweepAt("rest") /\ events < MaxEvents
          /\ events' = events + 1
          /\ sweep' = [at |-> "root", got |-> None,
                       reuse |-> [f \in Files |-> IF f \in hashed THEN tree[f] ELSE 0]]
          /\ UNCHANGED excused
       \/ /\ ~SweepAt("rest")
          /\ excused' = excused \cup (notes \cap Files)
                                \cup (IF Dir \in notes THEN Inside ELSE {})
          /\ UNCHANGED <<sweep, events>>
    /\ UNCHANGED <<env, kept, pending, batch, hand, jobs, work, state, passed, skewed>>

----------------------------------------------------------------------------
\* notifyChange.
Notify(p) ==
    /\ Watched /\ p \in notes
    /\ notes' = notes \ {p}
    /\ pending' = pending \cup {p}
    /\ UNCHANGED <<env, kept, batch, hand, jobs, work, sweep, life, past>>

\* coalesceLoop: a tick takes the paths that are due, one or more of them.
Tick ==
    /\ hand = Rest /\ batch = {} /\ Watched
    /\ \E due \in SUBSET pending \ {{}} :
        /\ batch' = due
        /\ pending' = pending \ due
    /\ UNCHANGED <<env, kept, notes, hand, jobs, work, sweep, life, past>>

\* The next due path, unless the context is cancelled.
Takes(p) ==
    /\ hand = Rest /\ p \in batch /\ Watched
    /\ batch' = batch \ {p}
Hand(h) == hand' = h

\* dispatch: what happened is read off the disk.  The directory is new, known,
\* or gone; a file is gone or goes to the queue, unless it waits there.
LookDir ==
    /\ Takes(Dir)
    /\ IF dirOn
       THEN dirIn' = TRUE /\ Hand(Rest) /\ UNCHANGED passed
       ELSE /\ Hand(IF dirIn THEN At("folder", Dir, 0) ELSE Rest)
            /\ Overtake(Inside, "hand")
            /\ UNCHANGED dirIn
    /\ UNCHANGED <<env, tree, hashed, index, notes, pending, jobs, work, sweep, life,
                   excused, skewed>>

LookFile(f) ==
    /\ Takes(f)
    /\ IF disk[f] = 0
       THEN /\ Hand(At("file", f, 0))
            /\ Overtake({f}, "hand")
            /\ UNCHANGED queued
       ELSE /\ Hand(IF f \in queued THEN Rest ELSE At("push", f, 0))
            /\ queued' = queued \cup {f}
            /\ UNCHANGED passed
    /\ UNCHANGED <<env, kept, notes, pending, queue, work, sweep, life, excused, skewed>>

\* handleRemoval of a file: the tree first, then the index.
Drop(f) == tree' = [tree EXCEPT ![f] = 0] /\ hashed' = hashed \ {f}

\* Mutant: the tree only.
RemoveFileOnly ==
    /\ HandAt("file")
    /\ Drop(hand.path)
    /\ Hand(Rest) /\ Done("hand")
    /\ ToTree({hand.path}, "hand")
    /\ UNCHANGED <<env, dirIn, index, wait, jobs, work, sweep, life>>

RemoveFile ==
    /\ HandAt("file")
    /\ Drop(hand.path)
    /\ IF tree[hand.path] > 0
       THEN Hand(At("index", hand.path, 0)) /\ UNCHANGED passed
       ELSE Hand(Rest) /\ Done("hand")
    /\ ToTree({hand.path}, "hand")
    /\ UNCHANGED <<env, dirIn, index, wait, jobs, work, sweep, life>>

RemoveFileFromIndex ==
    /\ HandAt("index")
    /\ index' = [index EXCEPT ![hand.path] = 0]
    /\ Hand(Rest) /\ Done("hand")
    /\ ToIndex({hand.path}, "hand")
    /\ UNCHANGED <<env, tree, dirIn, hashed, wait, jobs, work, sweep, life>>

\* handleRemoval of a directory: the index first, then the tree.
Without(held) == [f \in Files |-> IF f \in Inside THEN 0 ELSE held[f]]

RemoveDirFromIndex ==
    /\ HandAt("folder")
    /\ index' = Without(index)
    /\ Hand(At("detach", Dir, 0))
    /\ ToIndex(Inside, "hand")
    /\ UNCHANGED <<env, tree, dirIn, hashed, wait, jobs, work, sweep, life, passed>>

RemoveDir ==
    /\ HandAt("detach")
    /\ tree' = Without(tree) /\ hashed' = hashed \ Inside
    /\ dirIn' = FALSE
    /\ Hand(Rest) /\ Done("hand")
    /\ ToIndex(Inside, "hand")
    /\ UNCHANGED <<env, index, wait, jobs, work, sweep, life>>

\* Mutant: the send does not watch the context.
PushOnly ==
    /\ HandAt("push") /\ Len(queue) < Capacity
    /\ queue' = Append(queue, hand.path)
    /\ Hand(Rest)
    /\ UNCHANGED <<env, kept, wait, queued, work, sweep, life, past>>

\* enqueueHash: a full queue holds the goroutine until a worker takes a file or
\* the context is cancelled.
Push ==
    /\ HandAt("push")
    /\ \/ /\ Len(queue) < Capacity
          /\ queue' = Append(queue, hand.path)
          /\ UNCHANGED queued
       \/ /\ ~Watched
          /\ queued' = queued \ {hand.path}
          /\ UNCHANGED queue
    /\ Hand(Rest)
    /\ UNCHANGED <<env, kept, wait, work, sweep, life, past>>

\* The goroutine sees the cancelled context between two paths.
HandLeaves ==
    /\ hand = Rest /\ state = "stopping"
    /\ Hand([Rest EXCEPT !.at = "gone"])
    /\ batch' = {}
    /\ UNCHANGED <<env, kept, notes, pending, jobs, work, sweep, life, past>>

----------------------------------------------------------------------------
\* hashWorker and processFile.
Now(k, job) == work' = [work EXCEPT ![k] = job]

\* Mutant: the path is forgotten when the file has been processed.
TakeKeeping(k) ==
    /\ work[k] = Rest /\ queue # <<>> /\ state # "stopped"
    /\ queue' = Tail(queue)
    /\ Now(k, At("look", Head(queue), 0))
    /\ UNCHANGED <<env, kept, wait, hand, queued, sweep, life, past>>

Take(k) ==
    /\ work[k] = Rest /\ queue # <<>> /\ state # "stopped"
    /\ queue' = Tail(queue)
    /\ queued' = queued \ {Head(queue)}
    /\ Now(k, At("look", Head(queue), 0))
    /\ UNCHANGED <<env, kept, wait, hand, sweep, life, past>>

\* The file is gone, or it is read.
WorkLook(k) ==
    LET p == work[k].path IN
    /\ work[k].at = "look"
    /\ Now(k, IF disk[p] = 0 THEN At("drop", p, 0) ELSE At("put", p, disk[p]))
    /\ Overtake({p}, k)
    /\ UNCHANGED <<env, kept, wait, hand, jobs, sweep, life, excused, skewed>>

\* A file that is locked gives no hash.
FileLocked(k) ==
    /\ work[k].at = "put" /\ events < MaxEvents
    /\ events' = events + 1
    /\ Now(k, [work[k] EXCEPT !.at = "putBare"])
    /\ UNCHANGED <<env, kept, wait, hand, jobs, sweep, state, past>>

\* ReplaceFile, which makes the directory again if it has gone.
ReplaceFile(k) ==
    LET p == work[k].path
        bare == work[k].at = "putBare"
    IN
    /\ work[k].at \in {"put", "putBare"}
    /\ tree' = [tree EXCEPT ![p] = work[k].got]
    /\ hashed' = IF bare THEN hashed \ {p} ELSE hashed \cup {p}
    /\ dirIn' = (dirIn \/ p \in Inside)
    /\ ToTree({p}, k)
    /\ Now(k, At("upsert", p, IF bare THEN 0 ELSE work[k].got))
    /\ UNCHANGED <<env, index, wait, hand, jobs, sweep, life, passed>>

\* UpsertFile; a node without a hash leaves the index.
UpsertFile(k) ==
    /\ work[k].at = "upsert"
    /\ index' = [index EXCEPT ![work[k].path] = work[k].got]
    /\ ToIndex({work[k].path}, k)
    /\ Now(k, Rest) /\ Done(k)
    /\ UNCHANGED <<env, tree, dirIn, hashed, wait, hand, jobs, sweep, life>>

\* handleRemoval, by a worker.
DropFile(k) ==
    LET p == work[k].path IN
    /\ work[k].at = "drop"
    /\ Drop(p)
    /\ IF tree[p] > 0
       THEN Now(k, At("unindex", p, 0)) /\ UNCHANGED passed
       ELSE Now(k, Rest) /\ Done(k)
    /\ ToTree({p}, k)
    /\ UNCHANGED <<env, dirIn, index, wait, hand, jobs, sweep, life>>

UnindexFile(k) ==
    /\ work[k].at = "unindex"
    /\ index' = [index EXCEPT ![work[k].path] = 0]
    /\ ToIndex({work[k].path}, k)
    /\ Now(k, Rest) /\ Done(k)
    /\ UNCHANGED <<env, tree, dirIn, hashed, wait, hand, jobs, sweep, life>>

\* Mutant: a worker that finds the queue empty ends.
WorkerQuits(k) ==
    /\ work[k] = Rest /\ (state = "stopping" \/ queue = <<>>)
    /\ Now(k, [Rest EXCEPT !.at = "gone"])
    /\ UNCHANGED <<env, kept, wait, hand, jobs, sweep, life, past>>

\* The select of a worker takes the cancelled context or, while there is one,
\* another file.
WorkerLeaves(k) ==
    /\ work[k] = Rest /\ state = "stopping"
    /\ Now(k, [Rest EXCEPT !.at = "gone"])
    /\ UNCHANGED <<env, kept, wait, hand, jobs, sweep, life, past>>

----------------------------------------------------------------------------
\* The re-scan: a Quick Scan of the root beside the running watcher.  Every
\* directory is read, then its files are replaced as a whole; the hash of a
\* file whose write is the known one is reused, any other has none.
Read(fs) == [f \in Files |-> IF f \in fs THEN disk[f] ELSE 0]
SweepTo(at, got) == sweep' = [sweep EXCEPT !.at = at, !.got = got]

SweepRead(at, fs, to) ==
    /\ SweepAt(at)
    /\ SweepTo(to, Read(fs))
    /\ Overtake(fs, "sweep")
    /\ excused' = excused \ fs
    /\ UNCHANGED <<env, kept, wait, hand, jobs, work, life, skewed>>
SweepRoot == SweepRead("root", Outside, "setRoot")
SweepDir == dirOn /\ SweepRead("dir", Inside, "setDir")

\* FastSetDir.
SweepSet(at, fs, to) ==
    /\ SweepAt(at)
    /\ tree' = [f \in Files |-> IF f \in fs THEN sweep.got[f] ELSE tree[f]]
    /\ hashed' = (hashed \ fs) \cup
                 {f \in fs : sweep.got[f] > 0 /\ sweep.got[f] = sweep.reuse[f]}
    /\ dirIn' = (dirIn \/ fs = Inside)
    /\ ToTree(fs, "sweep") /\ Done("sweep")
    /\ SweepTo(to, None)
    /\ UNCHANGED <<env, index, wait, hand, jobs, work, life>>
SweepSetRoot == SweepSet("setRoot", Outside, "dir")
SweepSetDir == SweepSet("setDir", Inside, "collect")

\* Nothing is removed: a directory that has gone keeps its files in the tree.
SweepNoDir ==
    /\ SweepAt("dir") /\ ~dirOn
    /\ excused' = excused \cup Inside
    /\ SweepTo("collect", None)
    /\ UNCHANGED <<env, kept, wait, hand, jobs, work, life, passed, skewed>>

\* RebuildIndex(GetAllFiles()): the files are collected, then the index is
\* built anew.  A directory of which only the index has been told is collected.
SweepCollect ==
    /\ SweepAt("collect")
    /\ SweepTo("rebuild", [f \in Files |-> IF f \in hashed THEN tree[f] ELSE 0])
    /\ skewed' = {f \in skewed : Holding(f) # {}}
                 \cup IF HandAt("detach") THEN Inside ELSE {}
    /\ UNCHANGED <<env, kept, wait, hand, jobs, work, life, passed, excused>>

SweepRebuild ==
    /\ SweepAt("rebuild")
    /\ index' = sweep.got
    /\ sweep' = NoSweep
    /\ UNCHANGED <<env, tree, dirIn, hashed, wait, hand, jobs, work, life, past>>

\* The user cancels the re-scan: what is left of it is not done, and hashes may
\* be gone from the tree that the index still has.
SweepCancelled ==
    /\ sweep.at \in {"root", "dir", "setDir"} /\ events < MaxEvents
    /\ events' = events + 1
    /\ sweep' = NoSweep
    /\ excused' = Files /\ skewed' = Files
    /\ Done("sweep")
    /\ UNCHANGED <<env, kept, wait, hand, jobs, work, state>>

----------------------------------------------------------------------------
\* Stop, for a new scan or the load of a Snapshot, no cycle being under way.
StopBegins ==
    /\ state = "running" /\ SweepAt("rest")
    /\ state' = "stopping"
    /\ notes' = {}
    /\ UNCHANGED <<env, kept, pending, batch, hand, jobs, work, sweep, events, past>>

AllGone == hand.at = "gone" /\ \A k \in Workers : work[k].at = "gone"
StopReturns ==
    /\ state = "stopping" /\ AllGone
    /\ state' = "stopped"
    /\ UNCHANGED <<env, kept, wait, hand, jobs, work, sweep, events, past>>

----------------------------------------------------------------------------
DiskChanges ==
    \/ \E f \in Files : WriteFile(f) \/ DeleteFile(f)
    \/ MoveOut
    \/ \E fs \in SUBSET Inside : MoveIn(fs)
    \/ Overflow
Coalesce ==
    \/ Tick
    \/ LookDir \/ \E f \in Files : LookFile(f)
    \/ RemoveFile \/ RemoveFileFromIndex
    \/ RemoveDirFromIndex \/ RemoveDir
    \/ Push \/ HandLeaves
Worker(k) ==
    \/ Take(k) \/ WorkLook(k)
    \/ ReplaceFile(k) \/ UpsertFile(k)
    \/ DropFile(k) \/ UnindexFile(k)
    \/ WorkerLeaves(k)
Rescan ==
    \/ SweepRoot \/ SweepSetRoot \/ SweepDir \/ SweepSetDir \/ SweepNoDir
    \/ SweepCollect \/ SweepRebuild

Next ==
    \/ DiskChanges \/ Coalesce \/ Rescan
    \/ SweepCancelled \/ StopBegins \/ StopReturns
    \/ \E p \in Paths : Notify(p)
    \/ \E k \in Workers : Worker(k) \/ FileLocked(k)

Spec == Init /\ [][Next]_vars
\* Every goroutine goes on; the disk and the user owe nothing.
FairSpec ==
    /\ Spec
    /\ WF_vars(\E p \in Paths : Notify(p))
    /\ WF_vars(Coalesce)
    /\ \A k \in Workers : WF_vars(Worker(k))
    /\ WF_vars(Rescan)
    /\ WF_vars(StopReturns)

----------------------------------------------------------------------------
\* Every variable keeps its shape.
Jobs ==
    [at : {"rest", "look", "put", "putBare", "upsert", "drop", "unindex", "gone",
           "push", "file", "index", "folder", "detach"},
     path : Paths \cup {Nothing}, got : Writes]
Sweeps ==
    [at : {"rest", "root", "setRoot", "dir", "setDir", "collect", "rebuild"},
     got : [Files -> Writes], reuse : [Files -> Writes]]
TypeOK ==
    /\ disk \in [Files -> Writes] /\ dirOn \in BOOLEAN
    /\ tree \in [Files -> Writes] /\ dirIn \in BOOLEAN
    /\ hashed \subseteq Files /\ index \in [Files -> Writes]
    /\ notes \subseteq Paths /\ pending \subseteq Paths /\ batch \subseteq Paths
    /\ hand \in Jobs /\ work \in [Workers -> Jobs] /\ sweep \in Sweeps
    /\ queue \in Seq(Files) /\ Len(queue) <= Capacity
    /\ queued \subseteq Files
    /\ state \in {"running", "stopping", "stopped"}
    /\ events \in Writes
    /\ passed \subseteq (Workers \cup {"hand", "sweep"}) \X Files
    /\ excused \cup skewed \subseteq Files

\* While the watcher runs, a file the tree has wrong is one that somebody will
\* still look at: in the buffer, pending, due, queued, in a hand, or on the way
\* of a re-scan.  The exceptions are these: a goroutine overtaken by a later
\* look at the same file, files that came or went with their directory unseen,
\* a directory the re-scan no longer found, a re-scan that was cancelled, and
\* a buffer that overflowed again during a re-scan.
StaleIsAwaited ==
    /\ TypeOK
    /\ Watched => \A f \in Files \ excused : ~Outstanding(f) => tree[f] = disk[f]

\* The duplicate index holds of every settled file the hash the tree holds, also
\* of those the tree has wrong: the two are changed one after the other, in
\* either order, by goroutines that do not wait for each other.  The exceptions
\* are a file in which an overtaken goroutine was last, which only a re-scan
\* mends, as a removal leaves the index alone when the tree does not know the
\* file; a change of the index that a re-scan had collected before; and a
\* re-scan that was cancelled.
IndexFollowsTree ==
    Watched /\ SweepAt("rest") => \A f \in Files \ skewed :
        ~Outstanding(f) => index[f] = IF f \in hashed THEN tree[f] ELSE 0

\* Stop returns, also with a full queue and the coalescing goroutine waiting
\* for a place in it.
StopEnds == state = "stopping" ~> state = "stopped"

\* A change the watcher is told of reaches the tree, unless the watcher is
\* stopped first or one of the exceptions applies.
Behind(f) == Watched /\ f \notin excused /\ tree[f] # disk[f]
ChangesArrive == \A f \in Files : Behind(f) ~> ~Behind(f)
=============================================================================
