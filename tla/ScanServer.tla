------------------------------ MODULE ScanServer ------------------------------
(***************************************************************************)
(* The life of a scan in AppServer (pkg/server): the handlers that start   *)
(* and cancel a scan and load a Snapshot, the orchestrator goroutine that  *)
(* takes a scan through its phases, the re-scan of one root after a        *)
(* notification overflow, the watcher left running at the end and the one  *)
(* Autosave clock.  They meet in the published phase (Scanner.Status), in  *)
(* the slot guarded by scanMu (scanDone, scanCancel), in the watcher, in   *)
(* the active tree and in autosaveWriteMu; most of what they read they     *)
(* read outside any common lock, so every such read is a step of its own.  *)
(*                                                                         *)
(* Cycles, Cancels and Loads are the scans or re-scans, the POSTs to       *)
(* /api/scan/cancel and the Snapshot loads a behaviour may contain; each   *)
(* is used once.  What StartScan does inside is DirScan's business.        *)
(***************************************************************************)
EXTENDS Naturals, FiniteSets

CONSTANTS
    Cycles, Cancels, Loads,
    FirstTree,  \* the TreeManager of NewAppServer; a load brings its own
    NoOne

ASSUME ScanServerAssumption ==
    /\ NoOne \notin Cycles \cup Loads \cup {"clock"}
    /\ FirstTree \notin Loads
    /\ "clock" \notin Cycles

VARIABLES
    phase,    \* Scanner.Status.Phase
    slot,     \* the cycle that owns scanDone and scanCancel
    kind,     \* kind[c]: "scan", or "rescan" of one root
    pc,       \* where the goroutine of each cycle is
    ctx,      \* ctx[c]: the context of the cycle is cancelled
    running,  \* Scanner.isRunning
    killed,   \* Scanner.Cancel or Hasher.Cancel reached the stage in course
    lookup,   \* Scanner.quickScanLookup holds the previous tree
    tree,     \* AppServer.tree
    engine,   \* Scanner.Tree
    files,    \* files[t]: what tree t holds and counts
    watcher,  \* AppServer.Watcher, named by the cycle that created it
    alive,    \* the watchers started and not stopped
    watched,  \* watched[c]: the tree captured by the watcher of cycle c
    writer,   \* who holds autosaveWriteMu and is writing
    clk,      \* the Autosave clock goroutine
    cancel,   \* cancel[x]: where each cancel handler is
    aim,      \* aim[x]: the cycle the handler found in the slot
    load      \* load[l]: where each load handler is

cycleVars  == <<kind, pc, ctx>>
engineVars == <<running, killed, lookup>>
treeVars   == <<tree, engine, files>>
watchVars  == <<watcher, alive, watched>>
saveVars   == <<writer, clk>>
reqVars    == <<cancel, aim, load>>
vars == <<phase, slot, cycleVars, engineVars, treeVars, watchVars, saveVars, reqVars>>

Trees == Loads \cup {FirstTree}

\* isBusyPhase and autoSavePhaseNeedsTicker.
BusyPhases   == {"phase1_metadata", "phase2_hashing", "indexing", "cancelling", "loading_cache"}
TickerPhases == {"phase1_metadata", "phase2_hashing", "indexing", "watching"}
Phases == BusyPhases \cup {"idle", "completed", "cancelled", "watching"}

Init ==
    /\ phase = "idle" /\ slot = NoOne
    /\ kind = [c \in Cycles |-> "none"]
    /\ pc = [c \in Cycles |-> "none"]
    /\ ctx = [c \in Cycles |-> FALSE]
    /\ running = FALSE /\ killed = FALSE /\ lookup = FALSE
    /\ tree = FirstTree /\ engine = FirstTree
    /\ files = [t \in Trees |-> "none"]
    /\ watcher = NoOne /\ alive = {}
    /\ watched = [c \in Cycles |-> FirstTree]
    /\ writer = NoOne /\ clk = "off"
    /\ cancel = [x \in Cancels |-> "none"]
    /\ aim = [x \in Cancels |-> NoOne]
    /\ load = [l \in Loads |-> "none"]

Goto(c, label) == pc' = [pc EXCEPT ![c] = label]

\* Mutant: the handle is dropped and the watcher runs on.
StopWatcherLost == watcher' = NoOne /\ UNCHANGED alive

\* stopWatcher, and ensureAutoSaveLoop.
StopWatcher == watcher' = NoOne /\ alive' = alive \ {watcher}
EnsureClock == clk' = IF clk = "off" THEN "on" ELSE clk

-----------------------------------------------------------------------------
\* handleStartScan.

\* Mutant: the phase alone is tested.
StartOnPhase(c) ==
    /\ pc[c] = "none" /\ phase \notin BusyPhases
    /\ slot' = c /\ phase' = "phase1_metadata"
    /\ kind' = [kind EXCEPT ![c] = "scan"]
    /\ Goto(c, "reserved")
    /\ UNCHANGED <<ctx, engineVars, treeVars, watchVars, saveVars, reqVars>>

\* The reservation: one scanMu region tests the slot and the phase, takes the
\* slot and publishes the new phase.  Anything else answers 409.
Start(c) ==
    /\ pc[c] = "none"
    /\ slot = NoOne /\ phase \notin BusyPhases
    /\ slot' = c
    /\ phase' = "phase1_metadata"
    /\ kind' = [kind EXCEPT ![c] = "scan"]
    /\ Goto(c, "reserved")
    /\ UNCHANGED <<ctx, engineVars, treeVars, watchVars, saveVars, reqVars>>

\* Mutant: the old watcher is left to setWatcher, at the end of the scan.
PrepareScanWatched(c) ==
    /\ pc[c] = "reserved"
    /\ lookup' \in BOOLEAN
    /\ Goto(c, "reset")
    /\ UNCHANGED <<phase, slot, kind, ctx, running, killed, treeVars,
                   watchVars, saveVars, reqVars>>

\* The Quick Scan index is taken from the tree (or the last Autosave) while
\* the tree is still there, or cleared; then the old watcher goes.
PrepareScan(c) ==
    /\ pc[c] = "reserved"
    /\ lookup' \in BOOLEAN
    /\ StopWatcher
    /\ Goto(c, "reset")
    /\ UNCHANGED <<phase, slot, kind, ctx, running, killed, treeVars,
                   watched, saveVars, reqVars>>

\* Tree().Reset().
ResetTree(c) ==
    /\ pc[c] = "reset"
    /\ files' = [files EXCEPT ![tree] = "none"]
    /\ Goto(c, "arm")
    /\ UNCHANGED <<phase, slot, kind, ctx, engineVars, tree, engine,
                   watchVars, saveVars, reqVars>>

\* noteAutoSaveBaseline and ensureAutoSaveLoop; the orchestrator is launched.
Launch(c) ==
    /\ pc[c] = "arm"
    /\ EnsureClock
    /\ Goto(c, "begin")
    /\ UNCHANGED <<phase, slot, kind, ctx, engineVars, treeVars,
                   watchVars, writer, reqVars>>

-----------------------------------------------------------------------------
\* orchestrateScan, and the re-scan goroutine where they share StartScan.

\* The look at the context before Phase 1.
Begin(c) ==
    /\ pc[c] = "begin"
    /\ Goto(c, IF ctx[c] THEN "abort" ELSE "start")
    /\ lookup' = (lookup /\ ~ctx[c])
    /\ UNCHANGED <<phase, slot, kind, ctx, running, killed, treeVars,
                   watchVars, saveVars, reqVars>>

\* StartScan enters: the compare-and-swap on isRunning, and the phase is
\* published whatever it was.  The re-read of a root begins here.
EnterStartScan(c) ==
    /\ pc[c] = "start"
    /\ IF running
       THEN /\ Goto(c, IF kind[c] = "scan" THEN "refused" ELSE "settleRefused")
            /\ lookup' = FALSE
            /\ UNCHANGED <<phase, running, killed>>
       ELSE /\ Goto(c, "scan")
            /\ running' = TRUE /\ killed' = FALSE
            /\ phase' = "phase1_metadata"
            /\ UNCHANGED lookup
    /\ UNCHANGED <<slot, kind, ctx, treeVars, watcher, alive, watched,
                   saveVars, reqVars>>

\* Phase 1 under way: directories reach the tree through FastSetDir, which
\* leaves the counts of their ancestors for the end.
ScanDirs(c) ==
    /\ pc[c] = "scan" /\ files[engine] = "none"
    /\ files' = [files EXCEPT ![engine] = "listed"]
    /\ UNCHANGED <<phase, slot, cycleVars, engineVars, tree, engine, watchVars,
                   saveVars, reqVars>>

\* StartScan returns nil: ComputeAggregatedSizes has counted the tree.  The
\* caller lets go of the Quick Scan index.
ScanDone(c) ==
    /\ pc[c] = "scan" /\ ~ctx[c] /\ ~killed
    /\ files' = [files EXCEPT ![engine] = IF @ = "none" THEN @ ELSE "counted"]
    /\ running' = FALSE /\ lookup' = FALSE
    /\ Goto(c, IF kind[c] = "scan" THEN "save1" ELSE "reindex")
    /\ UNCHANGED <<phase, slot, kind, ctx, killed, tree, engine,
                   watchVars, saveVars, reqVars>>

\* StartScan returns the context's error.
ScanCut(c) ==
    /\ pc[c] = "scan" /\ (ctx[c] \/ killed)
    /\ running' = FALSE /\ lookup' = FALSE
    /\ Goto(c, IF kind[c] = "scan" THEN "abort" ELSE "settleCancelled")
    /\ UNCHANGED <<phase, slot, kind, ctx, killed, treeVars, watcher,
                   alive, watched, saveVars, reqVars>>

\* writeAutoSave at the two phase boundaries, under autosaveWriteMu: the
\* phase and the count of files decide.
AfterSave(label) == IF label = "save1" THEN "gate2" ELSE "gate3"
SaveRefused == phase \in {"cancelling", "cancelled"} \/ files[tree] # "counted"

SaveSkip(c) ==
    /\ pc[c] \in {"save1", "save2"} /\ writer = NoOne
    /\ SaveRefused
    /\ Goto(c, AfterSave(pc[c]))
    /\ UNCHANGED <<phase, slot, kind, ctx, engineVars, treeVars, watchVars,
                   saveVars, reqVars>>

SaveBegin(c) ==
    /\ pc[c] \in {"save1", "save2"} /\ writer = NoOne
    /\ ~SaveRefused
    /\ writer' = c
    /\ UNCHANGED <<phase, slot, cycleVars, engineVars, treeVars, watchVars, clk, reqVars>>

\* Mutant: autosaveWriteMu is not given back.
SaveEndLocked(c) ==
    /\ writer = c
    /\ Goto(c, AfterSave(pc[c]))
    /\ UNCHANGED <<phase, slot, kind, ctx, engineVars, treeVars, watchVars,
                   saveVars, reqVars>>

SaveEnd(c) ==
    /\ writer = c
    /\ writer' = NoOne
    /\ Goto(c, AfterSave(pc[c]))
    /\ UNCHANGED <<phase, slot, kind, ctx, engineVars, treeVars, watchVars,
                   clk, reqVars>>

\* The looks at the context between stages.
Gate(c) ==
    /\ pc[c] \in {"gate2", "gate3", "gate6"}
    /\ Goto(c, CASE pc[c] = "gate2" -> IF ctx[c] THEN "abort" ELSE "setHashing"
                 [] pc[c] = "gate3" -> IF ctx[c] THEN "abort" ELSE "setIndexing"
                 [] pc[c] = "gate6" -> IF ctx[c] THEN "release" ELSE "watch")
    /\ UNCHANGED <<phase, slot, kind, ctx, engineVars, treeVars, watchVars,
                   saveVars, reqVars>>

\* setPhase(PhaseHashing); RunHashing enters and lowers its cancelled flag.
EnterHashing(c) ==
    /\ pc[c] = "setHashing"
    /\ phase' = "phase2_hashing"
    /\ killed' = FALSE
    /\ Goto(c, "hash")
    /\ UNCHANGED <<slot, kind, ctx, running, lookup, treeVars, watchVars, saveVars,
                   reqVars>>

\* RunHashing returns nil, or the context's error once it was cancelled.
LeaveHashing(c, to) ==
    /\ pc[c] = "hash"
    /\ Goto(c, to)
    /\ UNCHANGED <<phase, slot, kind, ctx, engineVars, treeVars, watchVars,
                   saveVars, reqVars>>

\* Mutant: RunHashing obeys its own Cancel and forgets its caller's context.
HashCutByEngine(c) == killed /\ LeaveHashing(c, "abort")

HashDone(c) == ~ctx[c] /\ ~killed /\ LeaveHashing(c, "save2")
HashCut(c)  == (ctx[c] \/ killed) /\ LeaveHashing(c, "abort")

\* setPhase(PhaseIndexing).
EnterIndexing(c) ==
    /\ pc[c] = "setIndexing"
    /\ phase' = "indexing"
    /\ Goto(c, "index")
    /\ UNCHANGED <<slot, kind, ctx, engineVars, treeVars, watchVars, saveVars,
                   reqVars>>

\* RebuildIndex, RebuildFolderIndex and the looks at the context behind each.
BuildIndexes(c) ==
    /\ pc[c] = "index"
    /\ Goto(c, IF ctx[c] THEN "abort" ELSE "complete")
    /\ UNCHANGED <<phase, slot, kind, ctx, engineVars, treeVars, watchVars, saveVars,
                   reqVars>>

\* SetStatus: "completed".
Complete(c) ==
    /\ pc[c] = "complete"
    /\ phase' = "completed"
    /\ Goto(c, "gate6")
    /\ UNCHANGED <<slot, kind, ctx, engineVars, treeVars, watchVars, saveVars,
                   reqVars>>

\* startWatching: a watcher over the tree of this moment is created and
\* started, or cannot be; the phase then stays "completed".
StartWatcher(c) ==
    /\ pc[c] = "watch"
    /\ \/ /\ watched' = [watched EXCEPT ![c] = tree]
          /\ alive' = alive \cup {c}
          /\ Goto(c, "install")
       \/ /\ Goto(c, "release")
          /\ UNCHANGED <<watched, alive>>
    /\ UNCHANGED <<phase, slot, kind, ctx, engineVars, treeVars, watcher, saveVars, reqVars>>

\* setWatcher: the one it replaces is stopped.
InstallWatcher(c) ==
    /\ pc[c] = "install"
    /\ watcher' = c
    /\ alive' = alive \ ({watcher} \ {c})
    /\ Goto(c, "announce")
    /\ UNCHANGED <<phase, slot, kind, ctx, engineVars, treeVars, watched, saveVars, reqVars>>

\* SetStatus: "watching".
Announce(c) ==
    /\ pc[c] = "announce"
    /\ phase' = "watching"
    /\ Goto(c, "clock")
    /\ UNCHANGED <<slot, kind, ctx, engineVars, treeVars, watchVars, saveVars,
                   reqVars>>

\* Mutant: the clock of the scan is trusted to be still there.
RestartClockNot(c) ==
    /\ pc[c] = "clock"
    /\ Goto(c, "release")
    /\ UNCHANGED <<phase, slot, kind, ctx, engineVars, treeVars, watchVars,
                   saveVars, reqVars>>

\* noteAutoSaveBaseline and ensureAutoSaveLoop once more.
RestartClock(c) ==
    /\ pc[c] = "clock"
    /\ EnsureClock
    /\ Goto(c, "release")
    /\ UNCHANGED <<phase, slot, kind, ctx, engineVars, treeVars, watchVars,
                   writer, reqVars>>

\* finishScanAborted.
Abort(c) ==
    /\ pc[c] \in {"abort", "refused"}
    /\ phase' = IF pc[c] = "abort" THEN "cancelled" ELSE "idle"
    /\ Goto(c, "release")
    /\ UNCHANGED <<slot, kind, ctx, engineVars, treeVars, watchVars, saveVars,
                   reqVars>>

\* The deferred release of the slot, under scanMu, and of the context.
Release(c) ==
    /\ pc[c] = "release"
    /\ slot' = IF slot = c THEN NoOne ELSE slot
    /\ ctx' = [ctx EXCEPT ![c] = TRUE]
    /\ Goto(c, "over")
    /\ UNCHANGED <<phase, kind, engineVars, treeVars, watchVars, saveVars,
                   reqVars>>

-----------------------------------------------------------------------------
\* The watcher's callback rescanRoot, and the rest of its goroutine.

\* What the callback does when it takes the slot for root r: a cycle of its own.
TakeSlot(c) ==
    /\ pc[c] = "none"
    /\ slot' = c
    /\ kind' = [kind EXCEPT ![c] = "rescan"]
    /\ Goto(c, "lookup")

\* The system dropped notifications of some root.  The callback takes the slot
\* for a re-scan of that root, or returns at once when somebody has it.
Overflow ==
    /\ alive # {} /\ slot = NoOne
    /\ \E c \in Cycles : TakeSlot(c)
    /\ UNCHANGED <<phase, ctx, engineVars, treeVars, watcher, alive, watched, saveVars, reqVars>>

\* The Quick Scan index of a re-scan is the active tree.
PrepareRescan(c) ==
    /\ pc[c] = "lookup"
    /\ lookup' = TRUE
    /\ Goto(c, "start")
    /\ UNCHANGED <<phase, slot, kind, ctx, running, killed, treeVars, watchVars,
                   saveVars, reqVars>>

\* RebuildIndex over the active tree; the folder index is only marked dirty.
Reindex(c) ==
    /\ pc[c] = "reindex"
    /\ Goto(c, "settleOk")
    /\ UNCHANGED <<phase, slot, kind, ctx, engineVars, treeVars, watchVars, saveVars,
                   reqVars>>

\* Mutant: the re-scan leaves the phase that StartScan published.
SettleNot(c) ==
    /\ pc[c] \in {"settleOk", "settleCancelled", "settleRefused"}
    /\ Goto(c, "release")
    /\ UNCHANGED <<phase, slot, kind, ctx, engineVars, treeVars, watchVars, saveVars,
                   reqVars>>

\* settleAfterRescan, before the slot is given back: the watcher and the phase
\* are read, and the outcome is chosen.
Settle(c) ==
    /\ pc[c] \in {"settleOk", "settleCancelled", "settleRefused"}
    /\ Goto(c, CASE watcher # NoOne -> "showWatching"
                 [] watcher = NoOne /\ pc[c] = "settleOk" -> "showCompleted"
                 [] watcher = NoOne /\ pc[c] = "settleCancelled" -> "showCancelled"
                 [] OTHER -> IF phase = "cancelling" THEN "showCancelled" ELSE "showIdle")
    /\ UNCHANGED <<phase, slot, kind, ctx, engineVars, treeVars, watchVars, saveVars,
                   reqVars>>

\* SetStatus with that outcome.
Outcome == [showWatching |-> "watching", showCompleted |-> "completed",
            showCancelled |-> "cancelled", showIdle |-> "idle"]

Show(c) ==
    /\ pc[c] \in DOMAIN Outcome
    /\ phase' = Outcome[pc[c]]
    /\ Goto(c, "release")
    /\ UNCHANGED <<slot, kind, ctx, engineVars, treeVars, watchVars, saveVars, reqVars>>

-----------------------------------------------------------------------------
\* handleCancelScan.

\* scanCancel and scanDone are read under scanMu.
CancelRead(x) ==
    /\ cancel[x] = "none"
    /\ aim' = [aim EXCEPT ![x] = slot]
    /\ cancel' = [cancel EXCEPT ![x] = "phase"]
    /\ UNCHANGED <<phase, slot, cycleVars, engineVars, treeVars, watchVars, saveVars, load>>

\* The phase is read, and set if a cycle was found; scanMu is not held.
CancelPhase(x) ==
    /\ cancel[x] = "phase"
    /\ phase' = IF aim[x] # NoOne THEN "cancelling" ELSE phase
    /\ cancel' = [cancel EXCEPT ![x] =
                    IF aim[x] = NoOne /\ phase \in BusyPhases THEN "enginesBusy"
                    ELSE IF aim[x] = NoOne THEN "engines" ELSE "context"]
    /\ UNCHANGED <<slot, cycleVars, engineVars, treeVars, watchVars, saveVars, aim, load>>

\* cancel() of the cycle that was found.
CancelContext(x) ==
    /\ cancel[x] = "context"
    /\ ctx' = [ctx EXCEPT ![aim[x]] = TRUE]
    /\ cancel' = [cancel EXCEPT ![x] = "engines"]
    /\ UNCHANGED <<phase, slot, kind, pc, engineVars, treeVars, watchVars,
                   saveVars, aim, load>>

\* Scanner.Cancel() and Hasher.Cancel(): whatever stage is in course now.
CancelEngines(x) ==
    /\ cancel[x] \in {"engines", "enginesBusy"}
    /\ killed' = (killed \/ \E c \in Cycles : pc[c] \in {"scan", "hash"})
    /\ cancel' = [cancel EXCEPT ![x] = IF @ = "engines" THEN "over" ELSE "settle"]
    /\ UNCHANGED <<phase, slot, cycleVars, running, lookup, treeVars, watchVars, saveVars,
                   aim, load>>

\* A busy phase with no cycle behind it is settled here.
CancelSettle(x) ==
    /\ cancel[x] = "settle"
    /\ phase' = "cancelled"
    /\ cancel' = [cancel EXCEPT ![x] = "over"]
    /\ UNCHANGED <<slot, cycleVars, engineVars, treeVars, watchVars, saveVars, aim, load>>

-----------------------------------------------------------------------------
\* handleLoadCache and handleRestoreAutoSave.

LoadStep(l, from, to) == load[l] = from /\ load' = [load EXCEPT ![l] = to]

\* The only guard is the phase, and no lock is held.
LoadCheck(l) ==
    /\ phase \notin BusyPhases
    /\ LoadStep(l, "none", "reading")
    /\ UNCHANGED <<phase, slot, cycleVars, engineVars, treeVars, watchVars, saveVars, cancel, aim>>

\* loadProgress, before the file is opened and again while it is read.
LoadProgress(l) ==
    /\ LoadStep(l, "reading", "reading")
    /\ phase' = "loading_cache"
    /\ UNCHANGED <<slot, cycleVars, engineVars, treeVars, watchVars, saveVars, cancel, aim>>

\* The file is unreadable or truncated.
LoadFail(l) ==
    /\ LoadStep(l, "reading", "over")
    /\ phase' = "idle"
    /\ UNCHANGED <<slot, cycleVars, engineVars, treeVars, watchVars, saveVars, cancel, aim>>

\* adoptSnapshot begins: the watcher stops before the trees are swapped.
LoadStopWatcher(l) ==
    /\ LoadStep(l, "reading", "adopt")
    /\ StopWatcher
    /\ phase' = "loading_cache"
    /\ UNCHANGED <<slot, cycleVars, engineVars, treeVars, watched, saveVars, cancel, aim>>

\* adoptTree: the active tree, with its roots and its configuration.
LoadAdopt(l) ==
    /\ LoadStep(l, "adopt", "swap")
    /\ tree' = l
    /\ files' = [files EXCEPT ![l] = "counted"]
    /\ UNCHANGED <<phase, slot, cycleVars, engineVars, engine, watchVars, saveVars,
                   cancel, aim>>

\* Mutant: achado C4 again, Scanner.Tree stays behind.
LoadSwapNot(l) ==
    /\ LoadStep(l, "swap", "publish")
    /\ phase' = "loading_cache"
    /\ UNCHANGED <<slot, cycleVars, engineVars, treeVars, watchVars, saveVars, cancel, aim>>

\* Scanner.Tree follows, then the indexes are rebuilt.
LoadSwapEngine(l) ==
    /\ LoadStep(l, "swap", "publish")
    /\ engine' = l
    /\ phase' = "loading_cache"
    /\ UNCHANGED <<slot, cycleVars, engineVars, tree, files, watchVars, saveVars, cancel, aim>>

\* SetStatus: "completed"; noteAutoSaveBaseline.
LoadPublish(l) ==
    /\ LoadStep(l, "publish", "over")
    /\ phase' = "completed"
    /\ UNCHANGED <<slot, cycleVars, engineVars, treeVars, watchVars, saveVars, cancel, aim>>

-----------------------------------------------------------------------------
\* autoSaveLoop.

\* A tick: maybeAutoSave reads the phase; nothing may be due.
Tick ==
    /\ clk = "on"
    /\ \/ phase \in TickerPhases /\ clk' = "due"
       \/ clk' = "decide"
    /\ UNCHANGED <<phase, slot, cycleVars, engineVars, treeVars, watchVars, writer, reqVars>>

\* writeAutoSave from the clock, with the phase read again inside the lock.
ClockSkip ==
    /\ clk = "due" /\ writer = NoOne /\ SaveRefused
    /\ clk' = "decide"
    /\ UNCHANGED <<phase, slot, cycleVars, engineVars, treeVars, watchVars, writer, reqVars>>

ClockSave ==
    /\ clk = "due" /\ writer = NoOne /\ ~SaveRefused
    /\ writer' = "clock"
    /\ UNCHANGED <<phase, slot, cycleVars, engineVars, treeVars, watchVars, clk, reqVars>>

ClockSaved ==
    /\ writer = "clock"
    /\ writer' = NoOne
    /\ clk' = "decide"
    /\ UNCHANGED <<phase, slot, cycleVars, engineVars, treeVars, watchVars, reqVars>>

\* The clock turns itself off in a phase that needs none.
ClockDecide ==
    /\ clk = "decide"
    /\ clk' = IF phase \in TickerPhases THEN "on" ELSE "off"
    /\ UNCHANGED <<phase, slot, cycleVars, engineVars, treeVars, watchVars, writer, reqVars>>

-----------------------------------------------------------------------------
\* What the goroutine of cycle c does by itself: its own steps, and the
\* reading of the disk, which may take for ever unless it is cut.
Step(c) ==
    \/ PrepareScan(c) \/ ResetTree(c) \/ Launch(c)
    \/ Begin(c) \/ EnterStartScan(c) \/ ScanCut(c)
    \/ SaveSkip(c) \/ SaveBegin(c) \/ SaveEnd(c)
    \/ Gate(c) \/ EnterHashing(c) \/ HashCut(c)
    \/ EnterIndexing(c) \/ BuildIndexes(c) \/ Complete(c)
    \/ StartWatcher(c) \/ InstallWatcher(c) \/ Announce(c) \/ RestartClock(c)
    \/ PrepareRescan(c) \/ Reindex(c) \/ Settle(c) \/ Show(c)
    \/ Abort(c) \/ Release(c)

Work(c) == ScanDirs(c) \/ ScanDone(c) \/ HashDone(c)

CancelHandler(x) ==
    CancelPhase(x) \/ CancelContext(x) \/ CancelEngines(x) \/ CancelSettle(x)

LoadHandler(l) ==
    LoadProgress(l) \/ LoadFail(l) \/ LoadStopWatcher(l) \/ LoadAdopt(l) \/ LoadSwapEngine(l)
    \/ LoadPublish(l)

Clock == Tick \/ ClockSkip \/ ClockSave \/ ClockSaved \/ ClockDecide

Next ==
    \/ \E c \in Cycles : Start(c) \/ Step(c) \/ Work(c)
    \/ Overflow
    \/ \E x \in Cancels : CancelRead(x) \/ CancelHandler(x)
    \/ \E l \in Loads : LoadCheck(l) \/ LoadHandler(l)
    \/ Clock

Spec == Init /\ [][Next]_vars

\* Goroutines and accepted requests run on; users and the file system act if
\* they like.  A load stops reading its file sooner or later, and a sync.Mutex
\* starves nobody: who waits for autosaveWriteMu gets it.  Nothing here makes
\* Phase 1 or Phase 2 end by itself.
StepSpec ==
    /\ Spec
    /\ \A c \in Cycles : WF_vars(Step(c)) /\ SF_vars(SaveSkip(c) \/ SaveBegin(c))
    /\ \A x \in Cancels : WF_vars(CancelHandler(x))
    /\ \A l \in Loads : WF_vars(LoadFail(l) \/ LoadStopWatcher(l) \/ LoadAdopt(l)
                              \/ LoadSwapEngine(l) \/ LoadPublish(l))
    /\ WF_vars(ClockSkip \/ ClockSave \/ ClockSaved \/ ClockDecide)

\* The disk is finite: Phase 1 and Phase 2 come to their end.
DiskEnds == \A c \in Cycles : WF_vars(ScanDone(c)) /\ WF_vars(HashDone(c))

FairSpec == StepSpec /\ DiskEnds

-----------------------------------------------------------------------------
\* Properties.

\* The places of a cycle's goroutine: of a scan, of a re-scan, of both.
Labels ==
    {"none", "reserved", "reset", "arm", "begin", "save1", "gate2", "setHashing", "hash", "save2",
     "gate3", "setIndexing", "index", "complete", "gate6", "watch", "install", "announce",
     "clock", "abort", "refused"}
    \cup {"lookup", "reindex", "settleOk", "settleCancelled", "settleRefused",
          "showWatching", "showCompleted", "showCancelled", "showIdle"}
    \cup {"start", "scan", "release", "over"}

\* Every variable stays in its range.
TypeOK ==
    /\ phase \in Phases /\ slot \in Cycles \cup {NoOne}
    /\ kind \in [Cycles -> {"none", "scan", "rescan"}]
    /\ pc \in [Cycles -> Labels]
    /\ ctx \in [Cycles -> BOOLEAN]
    /\ running \in BOOLEAN /\ killed \in BOOLEAN /\ lookup \in BOOLEAN
    /\ tree \in Trees /\ engine \in Trees
    /\ files \in [Trees -> {"none", "listed", "counted"}]
    /\ watcher \in Cycles \cup {NoOne} /\ alive \subseteq Cycles
    /\ watched \in [Cycles -> Trees]
    /\ writer \in Cycles \cup {NoOne, "clock"}
    /\ clk \in {"off", "on", "due", "decide"}
    /\ cancel \in [Cancels -> {"none", "phase", "context", "engines", "enginesBusy",
                               "settle", "over"}]
    /\ aim \in [Cancels -> Cycles \cup {NoOne}]
    /\ load \in [Loads -> {"none", "reading", "adopt", "swap", "publish", "over"}]

\* A cycle is live from the moment it takes the slot until it gives it back.
Live(c) == pc[c] \notin {"none", "over"}

\* One cycle at a time owns the engines, scans and re-scans alike: the live
\* one holds the slot, and isRunning is up exactly while it is inside
\* StartScan.
OneCycle ==
    /\ \A c \in Cycles : Live(c) <=> slot = c
    /\ running <=> \E c \in Cycles : pc[c] = "scan"

\* So StartScan never answers ErrScanInProgress to the server, and the "idle"
\* that finishScanAborted keeps for it is never published.
EngineNeverBusy == \A c \in Cycles : pc[c] \notin {"refused", "settleRefused"}

\* From the reset of the tree until a scan starts its own watcher nobody
\* watches: no watcher of an earlier scan writes into the tree under it, not
\* even one that was started and is not installed yet.
ScansUnwatched ==
    \A c \in Cycles :
        kind[c] = "scan" /\ Live(c) /\ pc[c] \notin {"reserved", "install", "announce", "clock", "release"}
            => alive = {}

\* A watcher that is running is the installed one, or is about to be: nothing
\* ever loses the handle of a running watcher.
NoOrphanWatcher ==
    \A w \in alive : w = watcher \/ pc[w] = "install"

\* The Quick Scan index, which keeps the whole previous tree in memory, is let
\* go of by the end of Phase 1 however Phase 1 ends.
LookupReleased ==
    lookup => \E c \in Cycles : pc[c] \in {"reset", "arm", "begin", "start", "scan"}

\* Nobody is in the middle of anything, but for watching and the clock.
Quiet ==
    /\ slot = NoOne /\ \A c \in Cycles : ~Live(c)
    /\ \A x \in Cancels : cancel[x] \in {"none", "over"}
    /\ \A l \in Loads : load[l] \in {"none", "over"}

\* Nobody has pressed Cancel, or loaded a Snapshot: both publish phases of
\* their own over whatever goes on (see the README's disagreements).
NobodyCancelled == \A x \in Cancels : cancel[x] = "none"
NobodyLoaded    == \A l \in Loads : load[l] = "none"

\* A free slot shows a settled phase, loads included once they are answered:
\* whoever finds the slot free does not find a busy phase that nobody will
\* ever leave (rescanRoot: "quem ve a vaga livre ja ve a fase coerente").
FreeSlotSettled ==
    slot = NoOne /\ NobodyCancelled /\ (\A l \in Loads : load[l] \in {"none", "over"})
        => phase \notin BusyPhases

\* When all is quiet, a watcher is running exactly if the phase says so, and
\* then the Autosave clock is running too.
WatchingIsAsShown ==
    Quiet /\ NobodyCancelled /\ NobodyLoaded =>
        (phase = "watching" <=> alive # {}) /\ (alive # {} => clk # "off")

\* When all is quiet Phase 1 will write where the interface reads: whatever
\* scans and watchers a Snapshot load met, Scanner.Tree is the active tree.
EngineOnActiveTree == Quiet => engine = tree

\* A cancellation that reached the context of a cycle ends it, though the
\* stage in course would go on for ever and whichever stage it meets: the
\* flags of the engines are lowered by the next stage, the context is not.
CancelFreesSlot == \A c \in Cycles : (ctx[c] /\ Live(c)) ~> ~Live(c)

\* A scan that was accepted ends and the phase is not left busy, provided the
\* disk comes to its end and nobody cancels.
ScanSettles ==
    DiskEnds => \A c \in Cycles :
        (pc[c] = "reserved") ~> (~Live(c) /\ phase \notin BusyPhases) \/ ~NobodyCancelled

\* A cancellation shown as in course ends.
CancellingEnds == phase = "cancelling" ~> phase # "cancelling"

=============================================================================
