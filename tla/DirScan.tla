------------------------------- MODULE DirScan -------------------------------
(***************************************************************************)
(* Phase 1 of a scan: Scanner.StartScan runs a pool of workers over the    *)
(* unbounded DirWorkQueue (pkg/scanner/queue.go, scanner.go).  Each worker *)
(* pops a directory, lists it, pushes its subdirectories back and installs *)
(* the listing in the tree.  The queue is a monitor: one mutex, one        *)
(* condition variable, a count of busy workers that decides by itself when *)
(* the traversal is over.                                                  *)
(*                                                                         *)
(* A directory is a logical path (the name under which it is reached), so  *)
(* a followed link and its target are two members of Dirs.  What ReadDir   *)
(* returns is fixed by the constants; that it may fail is not.             *)
(***************************************************************************)
EXTENDS Naturals, Sequences, FiniteSets

CONSTANTS
    Workers,        \* the goroutines of the pool (ResolveWorkers)
    Dirs,           \* every logical path the traversal could name
    RootSeq,        \* config.Roots, in the order they are pushed
    Subdirs,        \* Subdirs[d]: the directory entries ReadDir finds in d
    Links,          \* the paths that are symbolic links or junctions
    Target,         \* Target[l]: the canonical target of link l
    RootKeys,       \* the roots' own keys, stored in visitedDirs up front
    AncestorLinks,  \* the links whose target is an ancestor of their path
    Ignored,        \* the entries whose names are never entered
    TooDeep,        \* the paths below MaxScanDepth
    FollowSymlinks, \* config.FollowSymlinks
    NoDir           \* what a worker holds between two directories

ASSUME DirScanAssumption ==
    /\ IsFiniteSet(Workers) /\ Workers # {}   \* ResolveWorkers gives one at least
    /\ RootSeq \in Seq(Dirs) \ {<<>>}   \* handleStartScan refuses no roots
    /\ Subdirs \in [Dirs -> SUBSET Dirs]
    /\ Links \subseteq Dirs
    /\ DOMAIN Target = Links
    /\ Ignored \subseteq Dirs /\ TooDeep \subseteq Dirs
    /\ FollowSymlinks \in BOOLEAN
    /\ NoDir \notin Dirs

VARIABLES
    items, activeWorkers, closed, cancelled, \* the fields of DirWorkQueue
    waiting,    \* the workers asleep in cond.Wait
    pc,         \* where each worker goroutine is
    dir,        \* the directory each worker popped
    todo,       \* the entries of it the worker has not walked yet
    visited,    \* Scanner.visitedDirs
    recorded,   \* the directories FastSetDir has put in the tree
    refused,    \* popped but not listed, and logged: too deep, ReadDir error
    skipped,    \* entries not descended, and logged as Skipped Items
    ctx,        \* the scan's context is done
    main        \* where StartScan itself is

Roots == { RootSeq[i] : i \in 1..Len(RootSeq) }

\* What a walk from the roots can name: the least set with the roots that is
\* closed under Subdirs.
Nameable == { d \in Dirs : \A S \in SUBSET Dirs :
                 Roots \subseteq S /\ (\A p \in S : Subdirs[p] \subseteq S) => d \in S }

queue   == <<items, activeWorkers, closed, cancelled, waiting>>
workers == <<pc, dir, todo>>
result  == <<visited, recorded, refused, skipped>>
vars    == <<queue, workers, result, ctx, main>>

Busy(w)    == pc[w] \in {"begin", "walk", "done"}
InQueue(d) == \E i \in 1..Len(items) : items[i] = d
Held(d)    == \E w \in Workers : Busy(w) /\ dir[w] = d

Init ==
    /\ items = <<>> /\ activeWorkers = 0 /\ waiting = {}
    /\ closed = FALSE /\ cancelled = FALSE
    /\ pc = [w \in Workers |-> "off"]
    /\ dir = [w \in Workers |-> NoDir]
    /\ todo = [w \in Workers |-> {}]
    /\ visited = {} /\ recorded = {} /\ refused = {} /\ skipped = {}
    /\ ctx = FALSE
    /\ main = "ready"

-----------------------------------------------------------------------------
\* The operations of DirWorkQueue; each holds the mutex from end to end.

Signal ==
    \/ waiting = {} /\ UNCHANGED waiting
    \/ \E x \in waiting : waiting' = waiting \ {x}

\* Push of one path: ignored once the queue is closed or cancelled.
Push(d) ==
    IF closed \/ cancelled
    THEN UNCHANGED <<items, waiting>>
    ELSE items' = Append(items, d) /\ Signal

\* Pop, when there is nothing to take yet: sleep on the condition variable.
PopWait(w) ==
    /\ pc[w] = "pop" /\ w \notin waiting
    /\ items = <<>> /\ ~closed /\ ~cancelled
    /\ waiting' = waiting \cup {w}
    /\ UNCHANGED <<items, activeWorkers, closed, cancelled, workers, result, ctx, main>>

\* Pop, when the traversal is over: the worker leaves its loop.
PopEnd(w) ==
    /\ pc[w] = "pop" /\ w \notin waiting
    /\ items = <<>> /\ (closed \/ cancelled)
    /\ pc' = [pc EXCEPT ![w] = "exit"]
    /\ UNCHANGED <<queue, dir, todo, result, ctx, main>>

\* Mutant: the worker is not counted as active.
PopTakeUncounted(w) ==
    /\ pc[w] = "pop" /\ w \notin waiting /\ items # <<>>
    /\ items' = Tail(items)
    /\ dir' = [dir EXCEPT ![w] = Head(items)]
    /\ pc' = [pc EXCEPT ![w] = "begin"]
    /\ UNCHANGED <<activeWorkers, closed, cancelled, waiting, todo, result, ctx, main>>

\* Pop of the head: the worker counts as active from here on.
PopTake(w) ==
    /\ pc[w] = "pop" /\ w \notin waiting
    /\ items # <<>>
    /\ items' = Tail(items)
    /\ activeWorkers' = activeWorkers + 1
    /\ dir' = [dir EXCEPT ![w] = Head(items)]
    /\ pc' = [pc EXCEPT ![w] = "begin"]
    /\ UNCHANGED <<closed, cancelled, waiting, todo, result, ctx, main>>

\* Mutant: the queue closes and nobody is woken.
QueueDoneSilent ==
    /\ activeWorkers' = IF activeWorkers > 0 THEN activeWorkers - 1 ELSE 0
    /\ closed' = (closed \/ (activeWorkers' = 0 /\ items = <<>>))
    /\ UNCHANGED <<items, cancelled, waiting>>

\* What Done leaves in the queue: the last busy worker of an empty queue
\* closes it and wakes everybody.
QueueDone ==
    /\ activeWorkers' = IF activeWorkers > 0 THEN activeWorkers - 1 ELSE 0
    /\ IF activeWorkers' = 0 /\ items = <<>>
       THEN closed' = TRUE /\ waiting' = {}
       ELSE UNCHANGED <<closed, waiting>>
    /\ UNCHANGED <<items, cancelled>>

\* Cancel: drop what is pending and wake everybody.
QueueCancel ==
    /\ cancelled' = TRUE /\ closed' = TRUE
    /\ items' = <<>>
    /\ waiting' = {}
    /\ UNCHANGED activeWorkers

-----------------------------------------------------------------------------
\* The worker goroutine.

\* The top of the loop: leave at once when the context is done.
LoopTop(w) ==
    /\ pc[w] = "loop"
    /\ pc' = [pc EXCEPT ![w] = IF ctx THEN "exit" ELSE "pop"]
    /\ UNCHANGED <<queue, dir, todo, result, ctx, main>>

\* scanDirectory returns before listing: the context is done.
BeginStopped(w) ==
    /\ pc[w] = "begin" /\ ctx
    /\ pc' = [pc EXCEPT ![w] = "done"]
    /\ UNCHANGED <<queue, dir, todo, result, ctx, main>>

\* scanDirectory gives up on the directory and logs it: below the maximum
\* depth, or ReadDir failed (which any directory may).
BeginRefused(w) ==
    /\ pc[w] = "begin"
    /\ ~ctx
    /\ refused' = refused \cup {dir[w]}
    /\ pc' = [pc EXCEPT ![w] = "done"]
    /\ UNCHANGED <<queue, dir, todo, visited, recorded, skipped, ctx, main>>

\* scanDirectory lists the directory.
BeginList(w) ==
    /\ pc[w] = "begin" /\ ~ctx
    /\ dir[w] \notin TooDeep
    /\ todo' = [todo EXCEPT ![w] = Subdirs[dir[w]]]
    /\ pc' = [pc EXCEPT ![w] = "walk"]
    /\ UNCHANGED <<queue, dir, result, ctx, main>>

\* The context is polled before every entry; a listing cut short is thrown
\* away, FastSetDir is not reached.
WalkStopped(w) ==
    /\ pc[w] = "walk" /\ ctx /\ todo[w] # {}
    /\ pc' = [pc EXCEPT ![w] = "done"]
    /\ todo' = [todo EXCEPT ![w] = {}]
    /\ UNCHANGED <<queue, dir, result, ctx, main>>

\* An entry of the file system's own (classifyIgnoredName): logged, not entered.
WalkIgnore(w, e) ==
    /\ pc[w] = "walk" /\ ~ctx
    /\ e \in todo[w] \cap Ignored
    /\ skipped' = skipped \cup {e}
    /\ todo' = [todo EXCEPT ![w] = @ \ {e}]
    /\ UNCHANGED <<queue, pc, dir, visited, recorded, refused, ctx, main>>

\* An entry that is a plain directory: push it.
WalkDir(w, e) ==
    /\ pc[w] = "walk" /\ ~ctx
    /\ e \in todo[w] \ (Links \cup Ignored)
    /\ todo' = [todo EXCEPT ![w] = @ \ {e}]
    /\ Push(e)
    /\ UNCHANGED <<activeWorkers, closed, cancelled, pc, dir, result, ctx, main>>

\* A link that is not descended, and logged: links are not followed, or its
\* target cannot be read, was taken before, or is an ancestor.  LoadOrStore
\* comes before the ancestor test, so an ancestor is stored as visited too.
WalkSkip(w, e) ==
    /\ pc[w] = "walk" /\ ~ctx
    /\ e \in (todo[w] \cap Links) \ Ignored
    /\ \/ UNCHANGED visited          \* not followed, unreadable or visited
       \/ /\ FollowSymlinks /\ e \in AncestorLinks
          /\ visited' = visited \cup {Target[e]}
    /\ skipped' = skipped \cup {e}
    /\ todo' = [todo EXCEPT ![w] = @ \ {e}]
    /\ UNCHANGED <<queue, pc, dir, recorded, refused, ctx, main>>

\* Mutant: the target is stored without asking whether it was there.
WalkFollowStore(w, e) ==
    /\ pc[w] = "walk" /\ ~ctx
    /\ e \in (todo[w] \cap Links) \ (Ignored \cup AncestorLinks)
    /\ FollowSymlinks
    /\ visited' = visited \cup {Target[e]}
    /\ todo' = [todo EXCEPT ![w] = @ \ {e}]
    /\ Push(e)
    /\ UNCHANGED <<activeWorkers, closed, cancelled, pc, dir,
                   recorded, refused, skipped, ctx, main>>

\* A link whose target nobody took yet: LoadOrStore takes it, push the path.
WalkFollow(w, e) ==
    /\ pc[w] = "walk" /\ ~ctx
    /\ e \in (todo[w] \cap Links) \ Ignored
    /\ FollowSymlinks
    /\ Target[e] \notin visited
    /\ e \notin AncestorLinks
    /\ visited' = visited \cup {Target[e]}
    /\ todo' = [todo EXCEPT ![w] = @ \ {e}]
    /\ Push(e)
    /\ UNCHANGED <<activeWorkers, closed, cancelled, pc, dir,
                   recorded, refused, skipped, ctx, main>>

\* The whole listing was walked: FastSetDir.  No poll of the context here.
Record(w) ==
    /\ pc[w] = "walk" /\ todo[w] = {}
    /\ recorded' = recorded \cup {dir[w]}
    /\ pc' = [pc EXCEPT ![w] = "done"]
    /\ UNCHANGED <<queue, dir, todo, visited, refused, skipped, ctx, main>>

\* queue.Done() and back to the top of the loop.
Done(w) ==
    /\ pc[w] = "done"
    /\ QueueDone
    /\ pc' = [pc EXCEPT ![w] = "loop"]
    /\ dir' = [dir EXCEPT ![w] = NoDir]
    /\ UNCHANGED <<todo, result, ctx, main>>

-----------------------------------------------------------------------------
\* StartScan, the goroutine that watches the context, and whoever cancels.

\* The roots are queued before any worker exists.
StartScan ==
    /\ main = "ready"
    /\ visited' = RootKeys
    /\ IF ctx
       THEN main' = "cancelled" /\ UNCHANGED <<items, pc>>
       ELSE /\ main' = "running"
            /\ items' = RootSeq
            /\ pc' = [w \in Workers |-> "loop"]
    /\ UNCHANGED <<activeWorkers, closed, cancelled, waiting, dir, todo,
                   recorded, refused, skipped, ctx>>

\* The goroutine that turns the context's end into queue.Cancel(); it lives
\* until the workers are joined.
WatchContext ==
    /\ main = "running" /\ ctx /\ ~cancelled
    /\ QueueCancel
    /\ UNCHANGED <<workers, result, ctx, main>>

\* wg.Wait() returns.
Join ==
    /\ main = "running"
    /\ \A w \in Workers : pc[w] = "exit"
    /\ main' = "joined"
    /\ UNCHANGED <<queue, workers, result, ctx>>

\* The last look at the context decides what the caller is told.
Return ==
    /\ main = "joined"
    /\ main' = IF ctx THEN "cancelled" ELSE "ok"
    /\ UNCHANGED <<queue, workers, result, ctx>>

\* Somebody cancels: Scanner.Cancel or the orchestrator's own context.
CancelContext ==
    /\ ~ctx
    /\ ctx' = TRUE
    /\ UNCHANGED <<queue, workers, result, main>>

-----------------------------------------------------------------------------
Worker(w) ==
    \/ LoopTop(w)
    \/ PopWait(w) \/ PopEnd(w) \/ PopTake(w)
    \/ BeginStopped(w) \/ BeginRefused(w) \/ BeginList(w)
    \/ WalkStopped(w)
    \/ \E e \in Dirs : WalkIgnore(w, e) \/ WalkDir(w, e) \/ WalkSkip(w, e) \/ WalkFollow(w, e)
    \/ Record(w)
    \/ Done(w)

Next ==
    \/ \E w \in Workers : Worker(w)
    \/ StartScan \/ WatchContext \/ Join \/ Return
    \/ CancelContext

Spec == Init /\ [][Next]_vars

\* Goroutines that can run do run; nobody has to press Cancel.
FairSpec ==
    /\ Spec
    /\ \A w \in Workers : WF_vars(Worker(w))
    /\ WF_vars(StartScan \/ WatchContext \/ Join \/ Return)

-----------------------------------------------------------------------------
\* Properties.

\* Every variable stays in its range.
TypeOK ==
    /\ items \in Seq(Dirs)
    /\ activeWorkers \in Nat
    /\ closed \in BOOLEAN /\ cancelled \in BOOLEAN
    /\ waiting \subseteq Workers
    /\ pc \in [Workers -> {"off", "loop", "pop", "begin", "walk", "done", "exit"}]
    /\ dir \in [Workers -> Dirs \cup {NoDir}]
    /\ todo \in [Workers -> SUBSET Dirs]
    /\ recorded \subseteq Dirs /\ refused \subseteq Dirs /\ skipped \subseteq Links \cup Ignored
    /\ ctx \in BOOLEAN
    /\ main \in {"ready", "running", "joined", "ok", "cancelled"}

\* The count Done decides on is the number of workers that hold a directory,
\* whatever was cancelled in between: it is what tells an empty queue that is
\* finished from one that is about to be refilled.
CountIsBusyWorkers == activeWorkers = Cardinality({w \in Workers : Busy(w)})

\* A queue that closed by itself closed on a finished traversal: nothing is
\* pending and no worker can still push, so Push's early return on a closed
\* queue never loses a directory.
ClosedIsOver == closed /\ ~cancelled => items = <<>> /\ \A w \in Workers : ~Busy(w)

\* When StartScan returns nil every root, and every subdirectory of every
\* recorded directory, is in the tree or in the log (logSkipped: "Nenhuma
\* decisao de pular pode ser silenciosa").
OkIsComplete ==
    main = "ok" =>
        LET Accounted == recorded \cup refused \cup skipped IN
        /\ Roots \subseteq Accounted
        /\ \A d \in recorded : Subdirs[d] \subseteq Accounted

\* The roots and their subdirectories form a forest: no root lies below
\* another one.
Forest ==
    /\ \A i, j \in 1..Len(RootSeq) : RootSeq[i] = RootSeq[j] => i = j
    /\ \A p \in Dirs : Subdirs[p] \cap Roots = {}
    /\ \A p, q \in Dirs : Subdirs[p] \cap Subdirs[q] # {} => p = q

\* A link is entered: queued, popped or dealt with as a directory.
Entered(l) == InQueue(l) \/ Held(l) \/ l \in recorded \cup refused

\* However the workers interleave, two links to one target are not both
\* entered, and no link back to a root is: LoadOrStore decides the race.  A root
\* that is itself a link is entered because it was asked for.
TargetEnteredOnce ==
    \A l \in Links \ Roots : Entered(l) =>
        /\ Target[l] \notin RootKeys
        /\ \A k \in Links \ Roots : Entered(k) /\ Target[k] = Target[l] => k = l

\* A worker never sleeps for ever: StartScan returns, with or without a
\* cancellation.
Returns == main = "ready" ~> main \in {"ok", "cancelled"}

\* The abstract promise, read off the concrete state.
Promise == INSTANCE Traversal WITH
    Dirs    <- Nameable,
    listed  <- recorded,
    outcome <- IF main \in {"ok", "cancelled"} THEN main ELSE "none"

\* Phase 1 implements it.
ImplementsTraversal == Promise!Spec
=============================================================================
