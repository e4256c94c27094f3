--------------------------- MODULE ScanServerProofs ---------------------------
(***************************************************************************)
(* What holds of the life of a scan for any number of scans, re-scans,     *)
(* cancellations and loads: the types, and that one cycle at a time owns   *)
(* the slot and the engines.                                               *)
(***************************************************************************)
EXTENDS ScanServer, TLAPS

-----------------------------------------------------------------------------
\* Type correctness.  A cycle that has begun is a scan or a re-scan, and
\* whoever is writing an Autosave is at a phase boundary.
Known ==
    /\ \A c \in Cycles : pc[c] # "none" => kind[c] \in {"scan", "rescan"}
    /\ \A c \in Cycles : writer = c => pc[c] \in {"save1", "save2"}

TypeInv == TypeOK /\ Known

\* A server that has just started: no cycle, no watcher, the first tree.
LEMMA TypeInit == Init => TypeInv
<1> SUFFICES ASSUME Init PROVE TypeInv
  OBVIOUS
<1> USE ScanServerAssumption DEF Init
<1>1. TypeOK
  BY DEF TypeOK, Labels, Trees, Phases, BusyPhases
<1>2. Known
  BY DEF Known
<1> QED
  BY <1>1, <1>2 DEF TypeInv

\* No step of a handler, of a cycle or of the clock leaves the types.
LEMMA TypeStep == TypeInv /\ [Next]_vars => TypeInv'
<1> SUFFICES ASSUME TypeInv, [Next]_vars
             PROVE  TypeInv'
  OBVIOUS
<1> USE ScanServerAssumption DEF TypeInv, TypeOK, Known, Trees, Phases, BusyPhases, Goto, Labels,
        cycleVars, engineVars, treeVars, watchVars, saveVars, reqVars
<1>1. ASSUME NEW c \in Cycles, Start(c)
      PROVE  TypeInv'
  BY <1>1 DEF Start
<1>2. ASSUME NEW c \in Cycles, PrepareScan(c)
      PROVE  TypeInv'
  BY <1>2 DEF PrepareScan, StopWatcher
<1>3. ASSUME NEW c \in Cycles, ResetTree(c)
      PROVE  TypeInv'
  BY <1>3 DEF ResetTree
<1>4. ASSUME NEW c \in Cycles, Launch(c)
      PROVE  TypeInv'
  BY <1>4 DEF Launch, EnsureClock
<1>5. ASSUME NEW c \in Cycles, Begin(c)
      PROVE  TypeInv'
  BY <1>5 DEF Begin
<1>6. ASSUME NEW c \in Cycles, EnterStartScan(c)
      PROVE  TypeInv'
  <2>1. pc' \in [Cycles -> Labels]
    BY <1>6 DEF EnterStartScan, Labels
  <2>2. running' \in BOOLEAN /\ lookup' \in BOOLEAN /\ killed' \in BOOLEAN
    BY <1>6, Zenon DEF EnterStartScan
  <2>3. phase' \in Phases
    BY <1>6 DEF EnterStartScan
  <2>4. Known'
    BY <1>6 DEF EnterStartScan
  <2> QED
    BY <1>6, <2>1, <2>2, <2>3, <2>4 DEF EnterStartScan
<1>7. ASSUME NEW c \in Cycles, ScanCut(c)
      PROVE  TypeInv'
  <2>1. Known'
    BY <1>7 DEF ScanCut
  <2>2. pc' \in [Cycles -> Labels]
    BY <1>7 DEF ScanCut, Labels
  <2>3. running' \in BOOLEAN /\ lookup' \in BOOLEAN
    BY <1>7 DEF ScanCut
  <2> QED
    BY <1>7, <2>1, <2>2, <2>3 DEF ScanCut
<1>8. ASSUME NEW c \in Cycles, SaveSkip(c)
      PROVE  TypeInv'
  BY <1>8 DEF SaveSkip, AfterSave
<1>9. ASSUME NEW c \in Cycles, SaveBegin(c)
      PROVE  TypeInv'
  BY <1>9 DEF SaveBegin
<1>10. ASSUME NEW c \in Cycles, SaveEnd(c)
       PROVE  TypeInv'
  BY <1>10 DEF SaveEnd, AfterSave
<1>11. ASSUME NEW c \in Cycles, Gate(c)
       PROVE  TypeInv'
  BY <1>11 DEF Gate
<1>12. ASSUME NEW c \in Cycles, EnterHashing(c)
       PROVE  TypeInv'
  <2>1. Known'
    BY <1>12 DEF EnterHashing
  <2> QED
    BY <1>12, <2>1, ZenonT(40) DEF EnterHashing
<1>13. ASSUME NEW c \in Cycles, HashCut(c)
       PROVE  TypeInv'
  BY <1>13 DEF HashCut, LeaveHashing
<1>14. ASSUME NEW c \in Cycles, EnterIndexing(c)
       PROVE  TypeInv'
  BY <1>14 DEF EnterIndexing
<1>15. ASSUME NEW c \in Cycles, BuildIndexes(c)
       PROVE  TypeInv'
  BY <1>15 DEF BuildIndexes
<1>16. ASSUME NEW c \in Cycles, Complete(c)
       PROVE  TypeInv'
  BY <1>16 DEF Complete
<1>17. ASSUME NEW c \in Cycles, StartWatcher(c)
       PROVE  TypeInv'
  BY <1>17 DEF StartWatcher
<1>18. ASSUME NEW c \in Cycles, InstallWatcher(c)
       PROVE  TypeInv'
  BY <1>18 DEF InstallWatcher
<1>19. ASSUME NEW c \in Cycles, Announce(c)
       PROVE  TypeInv'
  BY <1>19 DEF Announce
<1>20. ASSUME NEW c \in Cycles, RestartClock(c)
       PROVE  TypeInv'
  BY <1>20 DEF RestartClock, EnsureClock
<1>21. ASSUME NEW c \in Cycles, PrepareRescan(c)
       PROVE  TypeInv'
  BY <1>21 DEF PrepareRescan
<1>22. ASSUME NEW c \in Cycles, Reindex(c)
       PROVE  TypeInv'
  BY <1>22 DEF Reindex
<1>23. ASSUME NEW c \in Cycles, Settle(c)
       PROVE  TypeInv'
  BY <1>23 DEF Settle
<1>24. ASSUME NEW c \in Cycles, Show(c)
       PROVE  TypeInv'
  BY <1>24 DEF Show, Outcome
<1>25. ASSUME NEW c \in Cycles, Abort(c)
       PROVE  TypeInv'
  BY <1>25 DEF Abort
<1>26. ASSUME NEW c \in Cycles, Release(c)
       PROVE  TypeInv'
  BY <1>26 DEF Release
<1>27. ASSUME NEW c \in Cycles, ScanDirs(c)
       PROVE  TypeInv'
  BY <1>27 DEF ScanDirs
<1>28. ASSUME NEW c \in Cycles, ScanDone(c)
       PROVE  TypeInv'
  <2>1. files' \in [Trees -> {"none", "listed", "counted"}]
    BY <1>28 DEF ScanDone
  <2>2. Known'
    BY <1>28 DEF ScanDone
  <2>3. pc' \in [Cycles -> Labels]
    BY <1>28 DEF ScanDone, Labels
  <2>4. running' \in BOOLEAN /\ lookup' \in BOOLEAN
    BY <1>28 DEF ScanDone
  <2> QED
    BY <1>28, <2>1, <2>2, <2>3, <2>4 DEF ScanDone
<1>29. ASSUME NEW c \in Cycles, HashDone(c)
       PROVE  TypeInv'
  BY <1>29 DEF HashDone, LeaveHashing
<1>30. ASSUME Overflow
       PROVE  TypeInv'
  BY <1>30 DEF Overflow, TakeSlot
<1>31. ASSUME NEW x \in Cancels, CancelRead(x)
       PROVE  TypeInv'
  BY <1>31 DEF CancelRead
<1>32. ASSUME NEW x \in Cancels, CancelPhase(x)
       PROVE  TypeInv'
  BY <1>32 DEF CancelPhase
<1>33. ASSUME NEW x \in Cancels, CancelContext(x)
       PROVE  TypeInv'
  <2>1. ctx' \in [Cycles -> BOOLEAN]
    BY <1>33 DEF CancelContext
  <2> QED
    BY <1>33, <2>1 DEF CancelContext
<1>34. ASSUME NEW x \in Cancels, CancelEngines(x)
       PROVE  TypeInv'
  BY <1>34 DEF CancelEngines
<1>35. ASSUME NEW x \in Cancels, CancelSettle(x)
       PROVE  TypeInv'
  BY <1>35 DEF CancelSettle
<1>36. ASSUME NEW l \in Loads, LoadCheck(l)
       PROVE  TypeInv'
  BY <1>36 DEF LoadCheck, LoadStep
<1>37. ASSUME NEW l \in Loads, LoadProgress(l)
       PROVE  TypeInv'
  BY <1>37 DEF LoadProgress, LoadStep
<1>38. ASSUME NEW l \in Loads, LoadFail(l)
       PROVE  TypeInv'
  BY <1>38 DEF LoadFail, LoadStep
<1>39. ASSUME NEW l \in Loads, LoadStopWatcher(l)
       PROVE  TypeInv'
  BY <1>39 DEF LoadStopWatcher, StopWatcher, LoadStep
<1>40. ASSUME NEW l \in Loads, LoadAdopt(l)
       PROVE  TypeInv'
  BY <1>40 DEF LoadAdopt, LoadStep
<1>41. ASSUME NEW l \in Loads, LoadSwapEngine(l)
       PROVE  TypeInv'
  BY <1>41 DEF LoadSwapEngine, LoadStep
<1>42. ASSUME NEW l \in Loads, LoadPublish(l)
       PROVE  TypeInv'
  BY <1>42 DEF LoadPublish, LoadStep
<1>43. CASE Tick
  BY <1>43 DEF Tick
<1>44. CASE ClockSkip
  BY <1>44 DEF ClockSkip
<1>45. CASE ClockSave
  BY <1>45 DEF ClockSave
<1>46. CASE ClockSaved
  BY <1>46 DEF ClockSaved
<1>47. CASE ClockDecide
  BY <1>47 DEF ClockDecide
<1>48. CASE UNCHANGED vars
  BY <1>48 DEF vars
<1> QED
  BY <1>1, <1>2, <1>3, <1>4, <1>5, <1>6, <1>7, <1>8, <1>9, <1>10, <1>11, <1>12, <1>13,
     <1>14, <1>15, <1>16, <1>17, <1>18, <1>19, <1>20, <1>21, <1>22, <1>23, <1>24, <1>25,
     <1>26, <1>27, <1>28, <1>29, <1>30, <1>31, <1>32, <1>33, <1>34, <1>35, <1>36, <1>37,
     <1>38, <1>39, <1>40, <1>41, <1>42, <1>43, <1>44, <1>45, <1>46, <1>47, <1>48
     DEF Next, Step, Work, CancelHandler, LoadHandler, Clock

\* Every variable stays in its range, for any number of requests of each kind.
THEOREM TypeCorrect == Spec => []TypeOK
<1>1. Spec => []TypeInv
  BY TypeInit, TypeStep, PTL DEF Spec
<1>2. TypeInv => TypeOK
  BY DEF TypeInv
<1> QED
  BY <1>1, <1>2, PTL

-----------------------------------------------------------------------------
\* One cycle at a time.
Alone == OneCycle /\ EngineNeverBusy

\* No cycle is live when the server starts.
LEMMA AloneInit == Init => Alone
  BY ScanServerAssumption DEF Init, Alone, OneCycle, EngineNeverBusy, Live

\* Only an empty slot is taken, and only its owner gives it back.
LEMMA AloneStep == TypeInv /\ Alone /\ [Next]_vars => Alone'
<1> SUFFICES ASSUME TypeInv, Alone, [Next]_vars
             PROVE  Alone'
  OBVIOUS
<1>a. /\ pc \in [Cycles -> Labels] /\ running \in BOOLEAN /\ NoOne \notin Cycles
      /\ \A c \in Cycles : writer = c => pc[c] \in {"save1", "save2"}
  BY ScanServerAssumption DEF TypeInv, TypeOK, Known
<1> USE <1>a DEF Alone, OneCycle, EngineNeverBusy, Live, Goto,
        cycleVars, engineVars, treeVars, watchVars, saveVars, reqVars
<1>1. ASSUME NEW c \in Cycles, Start(c)
      PROVE  Alone'
  BY <1>1 DEF Start
<1>2. ASSUME NEW c \in Cycles, PrepareScan(c)
      PROVE  Alone'
  BY <1>2 DEF PrepareScan, StopWatcher
<1>3. ASSUME NEW c \in Cycles, ResetTree(c)
      PROVE  Alone'
  BY <1>3 DEF ResetTree
<1>4. ASSUME NEW c \in Cycles, Launch(c)
      PROVE  Alone'
  BY <1>4 DEF Launch, EnsureClock
<1>5. ASSUME NEW c \in Cycles, Begin(c)
      PROVE  Alone'
  BY <1>5 DEF Begin
<1>6. ASSUME NEW c \in Cycles, EnterStartScan(c)
      PROVE  Alone'
  BY <1>6 DEF EnterStartScan
<1>7. ASSUME NEW c \in Cycles, ScanCut(c)
      PROVE  Alone'
  BY <1>7 DEF ScanCut
<1>8. ASSUME NEW c \in Cycles, SaveSkip(c)
      PROVE  Alone'
  BY <1>8 DEF SaveSkip, AfterSave
<1>9. ASSUME NEW c \in Cycles, SaveBegin(c)
      PROVE  Alone'
  BY <1>9 DEF SaveBegin
<1>10. ASSUME NEW c \in Cycles, SaveEnd(c)
       PROVE  Alone'
  BY <1>10 DEF SaveEnd, AfterSave
<1>11. ASSUME NEW c \in Cycles, Gate(c)
       PROVE  Alone'
  BY <1>11 DEF Gate
<1>12. ASSUME NEW c \in Cycles, EnterHashing(c)
       PROVE  Alone'
  BY <1>12 DEF EnterHashing
<1>13. ASSUME NEW c \in Cycles, HashCut(c)
       PROVE  Alone'
  BY <1>13 DEF HashCut, LeaveHashing
<1>14. ASSUME NEW c \in Cycles, EnterIndexing(c)
       PROVE  Alone'
  BY <1>14 DEF EnterIndexing
<1>15. ASSUME NEW c \in Cycles, BuildIndexes(c)
       PROVE  Alone'
  BY <1>15 DEF BuildIndexes
<1>16. ASSUME NEW c \in Cycles, Complete(c)
       PROVE  Alone'
  BY <1>16 DEF Complete
<1>17. ASSUME NEW c \in Cycles, StartWatcher(c)
       PROVE  Alone'
  BY <1>17 DEF StartWatcher
<1>18. ASSUME NEW c \in Cycles, InstallWatcher(c)
       PROVE  Alone'
  BY <1>18 DEF InstallWatcher
<1>19. ASSUME NEW c \in Cycles, Announce(c)
       PROVE  Alone'
  BY <1>19 DEF Announce
<1>20. ASSUME NEW c \in Cycles, RestartClock(c)
       PROVE  Alone'
  BY <1>20 DEF RestartClock, EnsureClock
<1>21. ASSUME NEW c \in Cycles, PrepareRescan(c)
       PROVE  Alone'
  BY <1>21 DEF PrepareRescan
<1>22. ASSUME NEW c \in Cycles, Reindex(c)
       PROVE  Alone'
  BY <1>22 DEF Reindex
<1>23. ASSUME NEW c \in Cycles, Settle(c)
       PROVE  Alone'
  BY <1>23 DEF Settle
<1>24. ASSUME NEW c \in Cycles, Show(c)
       PROVE  Alone'
  BY <1>24 DEF Show, Outcome
<1>25. ASSUME NEW c \in Cycles, Abort(c)
       PROVE  Alone'
  BY <1>25 DEF Abort
<1>26. ASSUME NEW c \in Cycles, Release(c)
       PROVE  Alone'
  BY <1>26 DEF Release
<1>27. ASSUME NEW c \in Cycles, ScanDirs(c)
       PROVE  Alone'
  BY <1>27 DEF ScanDirs
<1>28. ASSUME NEW c \in Cycles, ScanDone(c)
       PROVE  Alone'
  BY <1>28 DEF ScanDone
<1>29. ASSUME NEW c \in Cycles, HashDone(c)
       PROVE  Alone'
  BY <1>29 DEF HashDone, LeaveHashing
<1>30. ASSUME Overflow
       PROVE  Alone'
  BY <1>30 DEF Overflow, TakeSlot
<1>31. ASSUME NEW x \in Cancels, CancelRead(x)
       PROVE  Alone'
  BY <1>31 DEF CancelRead
<1>32. ASSUME NEW x \in Cancels, CancelPhase(x)
       PROVE  Alone'
  BY <1>32 DEF CancelPhase
<1>33. ASSUME NEW x \in Cancels, CancelContext(x)
       PROVE  Alone'
  BY <1>33 DEF CancelContext
<1>34. ASSUME NEW x \in Cancels, CancelEngines(x)
       PROVE  Alone'
  BY <1>34 DEF CancelEngines
<1>35. ASSUME NEW x \in Cancels, CancelSettle(x)
       PROVE  Alone'
  BY <1>35 DEF CancelSettle
<1>36. ASSUME NEW l \in Loads, LoadCheck(l)
       PROVE  Alone'
  BY <1>36 DEF LoadCheck, LoadStep
<1>37. ASSUME NEW l \in Loads, LoadProgress(l)
       PROVE  Alone'
  BY <1>37 DEF LoadProgress, LoadStep
<1>38. ASSUME NEW l \in Loads, LoadFail(l)
       PROVE  Alone'
  BY <1>38 DEF LoadFail, LoadStep
<1>39. ASSUME NEW l \in Loads, LoadStopWatcher(l)
       PROVE  Alone'
  BY <1>39 DEF LoadStopWatcher, StopWatcher, LoadStep
<1>40. ASSUME NEW l \in Loads, LoadAdopt(l)
       PROVE  Alone'
  BY <1>40 DEF LoadAdopt, LoadStep
<1>41. ASSUME NEW l \in Loads, LoadSwapEngine(l)
       PROVE  Alone'
  BY <1>41 DEF LoadSwapEngine, LoadStep
<1>42. ASSUME NEW l \in Loads, LoadPublish(l)
       PROVE  Alone'
  BY <1>42 DEF LoadPublish, LoadStep
<1>43. CASE Tick
  BY <1>43 DEF Tick
<1>44. CASE ClockSkip
  BY <1>44 DEF ClockSkip
<1>45. CASE ClockSave
  BY <1>45 DEF ClockSave
<1>46. CASE ClockSaved
  BY <1>46 DEF ClockSaved
<1>47. CASE ClockDecide
  BY <1>47 DEF ClockDecide
<1>48. CASE UNCHANGED vars
  BY <1>48 DEF vars
<1> QED
  BY <1>1, <1>2, <1>3, <1>4, <1>5, <1>6, <1>7, <1>8, <1>9, <1>10, <1>11, <1>12, <1>13,
     <1>14, <1>15, <1>16, <1>17, <1>18, <1>19, <1>20, <1>21, <1>22, <1>23, <1>24, <1>25,
     <1>26, <1>27, <1>28, <1>29, <1>30, <1>31, <1>32, <1>33, <1>34, <1>35, <1>36, <1>37,
     <1>38, <1>39, <1>40, <1>41, <1>42, <1>43, <1>44, <1>45, <1>46, <1>47, <1>48
     DEF Next, Step, Work, CancelHandler, LoadHandler, Clock

\* One live cycle at most, in every state of the server.
LEMMA AloneInvariant == Spec => [](TypeInv /\ Alone)
<1>1. Init => TypeInv /\ Alone
  BY TypeInit, AloneInit
<1>2. TypeInv /\ Alone /\ [Next]_vars => (TypeInv /\ Alone)'
  BY TypeStep, AloneStep
<1> QED
  BY <1>1, <1>2, PTL DEF Spec

\* However scans, re-scans, cancellations and loads interleave, the live cycle
\* is the one in the slot, and isRunning is up exactly while it is in StartScan.
THEOREM OneCycleCorrect == Spec => []OneCycle
<1>1. TypeInv /\ Alone => OneCycle
  BY DEF Alone
<1> QED
  BY <1>1, AloneInvariant, PTL

\* StartScan never refuses the server: the error paths for a busy engine are
\* dead code in it.
THEOREM EngineNeverBusyCorrect == Spec => []EngineNeverBusy
<1>1. TypeInv /\ Alone => EngineNeverBusy
  BY DEF Alone
<1> QED
  BY <1>1, AloneInvariant, PTL

-----------------------------------------------------------------------------
\* Watchers and the Quick Scan index, which only the live cycle touches.
Watchers == NoOrphanWatcher /\ ScansUnwatched /\ LookupReleased

\* No watcher runs when the server starts.
LEMMA WatchersInit == Init => Watchers
  BY ScanServerAssumption DEF Init, Watchers, NoOrphanWatcher, ScansUnwatched, LookupReleased, Live

\* Whoever starts a watcher installs it, and a scan stops the old one first.
LEMMA WatchersStep == TypeInv /\ Alone /\ Watchers /\ [Next]_vars => Watchers'
<1> SUFFICES ASSUME TypeInv, Alone, Watchers, [Next]_vars
             PROVE  Watchers'
  OBVIOUS
<1>a. /\ pc \in [Cycles -> Labels] /\ kind \in [Cycles -> {"none", "scan", "rescan"}]
      /\ lookup \in BOOLEAN /\ alive \subseteq Cycles
      /\ \A c \in Cycles : writer = c => pc[c] \in {"save1", "save2"}
      /\ \A c, d \in Cycles : Live(c) /\ Live(d) => c = d
  BY DEF TypeInv, TypeOK, Known, Alone, OneCycle
<1>b. slot = NoOne => \A c \in Cycles : ~Live(c)
  BY ScanServerAssumption DEF Alone, OneCycle
<1> USE <1>a, <1>b DEF Watchers, NoOrphanWatcher, ScansUnwatched, LookupReleased, Live, Goto,
        cycleVars, engineVars, treeVars, watchVars, saveVars, reqVars
<1>1. ASSUME NEW c \in Cycles, Start(c)
      PROVE  Watchers'
  BY <1>1 DEF Start
<1>2. ASSUME NEW c \in Cycles, PrepareScan(c)
      PROVE  Watchers'
  BY <1>2 DEF PrepareScan, StopWatcher
<1>3. ASSUME NEW c \in Cycles, ResetTree(c)
      PROVE  Watchers'
  BY <1>3 DEF ResetTree
<1>4. ASSUME NEW c \in Cycles, Launch(c)
      PROVE  Watchers'
  BY <1>4 DEF Launch, EnsureClock
<1>5. ASSUME NEW c \in Cycles, Begin(c)
      PROVE  Watchers'
  BY <1>5 DEF Begin
<1>6. ASSUME NEW c \in Cycles, EnterStartScan(c)
      PROVE  Watchers'
  BY <1>6 DEF EnterStartScan
<1>7. ASSUME NEW c \in Cycles, ScanCut(c)
      PROVE  Watchers'
  BY <1>7 DEF ScanCut
<1>8. ASSUME NEW c \in Cycles, SaveSkip(c)
      PROVE  Watchers'
  BY <1>8 DEF SaveSkip, AfterSave
<1>9. ASSUME NEW c \in Cycles, SaveBegin(c)
      PROVE  Watchers'
  BY <1>9 DEF SaveBegin
<1>10. ASSUME NEW c \in Cycles, SaveEnd(c)
       PROVE  Watchers'
  BY <1>10 DEF SaveEnd, AfterSave
<1>11. ASSUME NEW c \in Cycles, Gate(c)
       PROVE  Watchers'
  BY <1>11 DEF Gate
<1>12. ASSUME NEW c \in Cycles, EnterHashing(c)
       PROVE  Watchers'
  BY <1>12 DEF EnterHashing
<1>13. ASSUME NEW c \in Cycles, HashCut(c)
       PROVE  Watchers'
  BY <1>13 DEF HashCut, LeaveHashing
<1>14. ASSUME NEW c \in Cycles, EnterIndexing(c)
       PROVE  Watchers'
  BY <1>14 DEF EnterIndexing
<1>15. ASSUME NEW c \in Cycles, BuildIndexes(c)
       PROVE  Watchers'
  BY <1>15 DEF BuildIndexes
<1>16. ASSUME NEW c \in Cycles, Complete(c)
       PROVE  Watchers'
  BY <1>16 DEF Complete
<1>17. ASSUME NEW c \in Cycles, StartWatcher(c)
       PROVE  Watchers'
  BY <1>17 DEF StartWatcher
<1>18. ASSUME NEW c \in Cycles, InstallWatcher(c)
       PROVE  Watchers'
  BY <1>18 DEF InstallWatcher
<1>19. ASSUME NEW c \in Cycles, Announce(c)
       PROVE  Watchers'
  BY <1>19 DEF Announce
<1>20. ASSUME NEW c \in Cycles, RestartClock(c)
       PROVE  Watchers'
  BY <1>20 DEF RestartClock, EnsureClock
<1>21. ASSUME NEW c \in Cycles, PrepareRescan(c)
       PROVE  Watchers'
  BY <1>21 DEF PrepareRescan
<1>22. ASSUME NEW c \in Cycles, Reindex(c)
       PROVE  Watchers'
  BY <1>22 DEF Reindex
<1>23. ASSUME NEW c \in Cycles, Settle(c)
       PROVE  Watchers'
  BY <1>23 DEF Settle
<1>24. ASSUME NEW c \in Cycles, Show(c)
       PROVE  Watchers'
  BY <1>24 DEF Show, Outcome
<1>25. ASSUME NEW c \in Cycles, Abort(c)
       PROVE  Watchers'
  BY <1>25 DEF Abort
<1>26. ASSUME NEW c \in Cycles, Release(c)
       PROVE  Watchers'
  BY <1>26 DEF Release
<1>27. ASSUME NEW c \in Cycles, ScanDirs(c)
       PROVE  Watchers'
  BY <1>27 DEF ScanDirs
<1>28. ASSUME NEW c \in Cycles, ScanDone(c)
       PROVE  Watchers'
  BY <1>28 DEF ScanDone
<1>29. ASSUME NEW c \in Cycles, HashDone(c)
       PROVE  Watchers'
  BY <1>29 DEF HashDone, LeaveHashing
<1>30. ASSUME Overflow
       PROVE  Watchers'
  BY <1>30 DEF Overflow, TakeSlot
<1>31. ASSUME NEW x \in Cancels, CancelRead(x)
       PROVE  Watchers'
  BY <1>31 DEF CancelRead
<1>32. ASSUME NEW x \in Cancels, CancelPhase(x)
       PROVE  Watchers'
  BY <1>32 DEF CancelPhase
<1>33. ASSUME NEW x \in Cancels, CancelContext(x)
       PROVE  Watchers'
  BY <1>33 DEF CancelContext
<1>34. ASSUME NEW x \in Cancels, CancelEngines(x)
       PROVE  Watchers'
  BY <1>34 DEF CancelEngines
<1>35. ASSUME NEW x \in Cancels, CancelSettle(x)
       PROVE  Watchers'
  BY <1>35 DEF CancelSettle
<1>36. ASSUME NEW l \in Loads, LoadCheck(l)
       PROVE  Watchers'
  BY <1>36 DEF LoadCheck, LoadStep
<1>37. ASSUME NEW l \in Loads, LoadProgress(l)
       PROVE  Watchers'
  BY <1>37 DEF LoadProgress, LoadStep
<1>38. ASSUME NEW l \in Loads, LoadFail(l)
       PROVE  Watchers'
  BY <1>38 DEF LoadFail, LoadStep
<1>39. ASSUME NEW l \in Loads, LoadStopWatcher(l)
       PROVE  Watchers'
  BY <1>39 DEF LoadStopWatcher, StopWatcher, LoadStep
<1>40. ASSUME NEW l \in Loads, LoadAdopt(l)
       PROVE  Watchers'
  BY <1>40 DEF LoadAdopt, LoadStep
<1>41. ASSUME NEW l \in Loads, LoadSwapEngine(l)
       PROVE  Watchers'
  BY <1>41 DEF LoadSwapEngine, LoadStep
<1>42. ASSUME NEW l \in Loads, LoadPublish(l)
       PROVE  Watchers'
  BY <1>42 DEF LoadPublish, LoadStep
<1>43. CASE Tick
  BY <1>43 DEF Tick
<1>44. CASE ClockSkip
  BY <1>44 DEF ClockSkip
<1>45. CASE ClockSave
  BY <1>45 DEF ClockSave
<1>46. CASE ClockSaved
  BY <1>46 DEF ClockSaved
<1>47. CASE ClockDecide
  BY <1>47 DEF ClockDecide
<1>48. CASE UNCHANGED vars
  BY <1>48 DEF vars
<1> QED
  BY <1>1, <1>2, <1>3, <1>4, <1>5, <1>6, <1>7, <1>8, <1>9, <1>10, <1>11, <1>12, <1>13,
     <1>14, <1>15, <1>16, <1>17, <1>18, <1>19, <1>20, <1>21, <1>22, <1>23, <1>24, <1>25,
     <1>26, <1>27, <1>28, <1>29, <1>30, <1>31, <1>32, <1>33, <1>34, <1>35, <1>36, <1>37,
     <1>38, <1>39, <1>40, <1>41, <1>42, <1>43, <1>44, <1>45, <1>46, <1>47, <1>48
     DEF Next, Step, Work, CancelHandler, LoadHandler, Clock

\* The handle of a running watcher is never lost, in any state of the server.
LEMMA WatchersInvariant == Spec => [](TypeInv /\ Alone /\ Watchers)
<1>1. Init => TypeInv /\ Alone /\ Watchers
  BY TypeInit, AloneInit, WatchersInit
<1>2. TypeInv /\ Alone /\ Watchers /\ [Next]_vars => (TypeInv /\ Alone /\ Watchers)'
  BY TypeStep, AloneStep, WatchersStep
<1> QED
  BY <1>1, <1>2, PTL DEF Spec

\* The handle of a running watcher is never lost: it is installed, or its
\* creator is about to install it.
THEOREM NoOrphanWatcherCorrect == Spec => []NoOrphanWatcher
<1>1. TypeInv /\ Alone /\ Watchers => NoOrphanWatcher
  BY DEF Watchers
<1> QED
  BY <1>1, WatchersInvariant, PTL

\* No watcher runs from the reset of the tree until the scan starts its own.
THEOREM ScansUnwatchedCorrect == Spec => []ScansUnwatched
<1>1. TypeInv /\ Alone /\ Watchers => ScansUnwatched
  BY DEF Watchers
<1> QED
  BY <1>1, WatchersInvariant, PTL

\* The Quick Scan index never outlives Phase 1.
THEOREM LookupReleasedCorrect == Spec => []LookupReleased
<1>1. TypeInv /\ Alone /\ Watchers => LookupReleased
  BY DEF Watchers
<1> QED
  BY <1>1, WatchersInvariant, PTL

-----------------------------------------------------------------------------
\* The published phase, as long as nobody cancels.  A cycle that is past its
\* last SetStatus, or has not begun, leaves no busy phase behind: only a load in
\* course may show one, and a load that is answered has replaced it.
Published == {"gate6", "watch", "install", "announce", "clock", "release"}

PhaseSettled ==
    NobodyCancelled /\ (\A l \in Loads : load[l] \in {"none", "over"})
        /\ (\A c \in Cycles : Live(c) => pc[c] \in Published)
        => phase \notin BusyPhases

\* The phase of a server that has just started is "idle".
LEMMA PhaseInit == Init => PhaseSettled
  BY DEF Init, PhaseSettled, BusyPhases

\* Whoever publishes a busy phase is a live cycle before its last SetStatus, a
\* load in course, or a cancel handler.
LEMMA PhaseStep == TypeInv /\ Alone /\ PhaseSettled /\ [Next]_vars => PhaseSettled'
<1> SUFFICES ASSUME TypeInv, Alone, PhaseSettled, [Next]_vars
             PROVE  PhaseSettled'
  OBVIOUS
<1>a. /\ pc \in [Cycles -> Labels]
      /\ cancel \in [Cancels -> {"none", "phase", "context", "engines", "enginesBusy", "settle", "over"}]
      /\ load \in [Loads -> {"none", "reading", "adopt", "swap", "publish", "over"}]
      /\ \A c \in Cycles : writer = c => pc[c] \in {"save1", "save2"}
      /\ \A c \in Cycles : pc[c] \notin {"refused", "settleRefused"}
      /\ \A c, d \in Cycles : Live(c) /\ Live(d) => c = d
  BY DEF TypeInv, TypeOK, Known, Alone, OneCycle, EngineNeverBusy
<1> USE <1>a DEF PhaseSettled, Published, Live, Goto, NobodyCancelled, BusyPhases,
        cycleVars, engineVars, treeVars, watchVars, saveVars, reqVars
<1>1. ASSUME NEW c \in Cycles, Start(c)
      PROVE  PhaseSettled'
  BY <1>1 DEF Start
<1>2. ASSUME NEW c \in Cycles, PrepareScan(c)
      PROVE  PhaseSettled'
  BY <1>2 DEF PrepareScan, StopWatcher
<1>3. ASSUME NEW c \in Cycles, ResetTree(c)
      PROVE  PhaseSettled'
  BY <1>3 DEF ResetTree
<1>4. ASSUME NEW c \in Cycles, Launch(c)
      PROVE  PhaseSettled'
  BY <1>4 DEF Launch, EnsureClock
<1>5. ASSUME NEW c \in Cycles, Begin(c)
      PROVE  PhaseSettled'
  BY <1>5 DEF Begin
<1>6. ASSUME NEW c \in Cycles, EnterStartScan(c)
      PROVE  PhaseSettled'
  BY <1>6 DEF EnterStartScan
<1>7. ASSUME NEW c \in Cycles, ScanCut(c)
      PROVE  PhaseSettled'
  BY <1>7 DEF ScanCut
<1>8. ASSUME NEW c \in Cycles, SaveSkip(c)
      PROVE  PhaseSettled'
  BY <1>8 DEF SaveSkip, AfterSave
<1>9. ASSUME NEW c \in Cycles, SaveBegin(c)
      PROVE  PhaseSettled'
  BY <1>9 DEF SaveBegin
<1>10. ASSUME NEW c \in Cycles, SaveEnd(c)
       PROVE  PhaseSettled'
  BY <1>10 DEF SaveEnd, AfterSave
<1>11. ASSUME NEW c \in Cycles, Gate(c)
       PROVE  PhaseSettled'
  BY <1>11 DEF Gate
<1>12. ASSUME NEW c \in Cycles, EnterHashing(c)
       PROVE  PhaseSettled'
  BY <1>12 DEF EnterHashing
<1>13. ASSUME NEW c \in Cycles, HashCut(c)
       PROVE  PhaseSettled'
  BY <1>13 DEF HashCut, LeaveHashing
<1>14. ASSUME NEW c \in Cycles, EnterIndexing(c)
       PROVE  PhaseSettled'
  BY <1>14 DEF EnterIndexing
<1>15. ASSUME NEW c \in Cycles, BuildIndexes(c)
       PROVE  PhaseSettled'
  BY <1>15 DEF BuildIndexes
<1>16. ASSUME NEW c \in Cycles, Complete(c)
       PROVE  PhaseSettled'
  BY <1>16 DEF Complete
<1>17. ASSUME NEW c \in Cycles, StartWatcher(c)
       PROVE  PhaseSettled'
  BY <1>17 DEF StartWatcher
<1>18. ASSUME NEW c \in Cycles, InstallWatcher(c)
       PROVE  PhaseSettled'
  BY <1>18 DEF InstallWatcher
<1>19. ASSUME NEW c \in Cycles, Announce(c)
       PROVE  PhaseSettled'
  BY <1>19 DEF Announce
<1>20. ASSUME NEW c \in Cycles, RestartClock(c)
       PROVE  PhaseSettled'
  BY <1>20 DEF RestartClock, EnsureClock
<1>21. ASSUME NEW c \in Cycles, PrepareRescan(c)
       PROVE  PhaseSettled'
  BY <1>21 DEF PrepareRescan
<1>22. ASSUME NEW c \in Cycles, Reindex(c)
       PROVE  PhaseSettled'
  BY <1>22 DEF Reindex
<1>23. ASSUME NEW c \in Cycles, Settle(c)
       PROVE  PhaseSettled'
  BY <1>23 DEF Settle
<1>24. ASSUME NEW c \in Cycles, Show(c)
       PROVE  PhaseSettled'
  BY <1>24 DEF Show, Outcome
<1>25. ASSUME NEW c \in Cycles, Abort(c)
       PROVE  PhaseSettled'
  BY <1>25 DEF Abort
<1>26. ASSUME NEW c \in Cycles, Release(c)
       PROVE  PhaseSettled'
  BY <1>26 DEF Release
<1>27. ASSUME NEW c \in Cycles, ScanDirs(c)
       PROVE  PhaseSettled'
  BY <1>27 DEF ScanDirs
<1>28. ASSUME NEW c \in Cycles, ScanDone(c)
       PROVE  PhaseSettled'
  BY <1>28 DEF ScanDone
<1>29. ASSUME NEW c \in Cycles, HashDone(c)
       PROVE  PhaseSettled'
  BY <1>29 DEF HashDone, LeaveHashing
<1>30. ASSUME Overflow
       PROVE  PhaseSettled'
  BY <1>30 DEF Overflow, TakeSlot
<1>31. ASSUME NEW x \in Cancels, CancelRead(x)
       PROVE  PhaseSettled'
  BY <1>31 DEF CancelRead
<1>32. ASSUME NEW x \in Cancels, CancelPhase(x)
       PROVE  PhaseSettled'
  BY <1>32 DEF CancelPhase
<1>33. ASSUME NEW x \in Cancels, CancelContext(x)
       PROVE  PhaseSettled'
  BY <1>33 DEF CancelContext
<1>34. ASSUME NEW x \in Cancels, CancelEngines(x)
       PROVE  PhaseSettled'
  BY <1>34 DEF CancelEngines
<1>35. ASSUME NEW x \in Cancels, CancelSettle(x)
       PROVE  PhaseSettled'
  BY <1>35 DEF CancelSettle
<1>36. ASSUME NEW l \in Loads, LoadCheck(l)
       PROVE  PhaseSettled'
  BY <1>36 DEF LoadCheck, LoadStep
<1>37. ASSUME NEW l \in Loads, LoadProgress(l)
       PROVE  PhaseSettled'
  BY <1>37 DEF LoadProgress, LoadStep
<1>38. ASSUME NEW l \in Loads, LoadFail(l)
       PROVE  PhaseSettled'
  BY <1>38 DEF LoadFail, LoadStep
<1>39. ASSUME NEW l \in Loads, LoadStopWatcher(l)
       PROVE  PhaseSettled'
  BY <1>39 DEF LoadStopWatcher, StopWatcher, LoadStep
<1>40. ASSUME NEW l \in Loads, LoadAdopt(l)
       PROVE  PhaseSettled'
  BY <1>40 DEF LoadAdopt, LoadStep
<1>41. ASSUME NEW l \in Loads, LoadSwapEngine(l)
       PROVE  PhaseSettled'
  BY <1>41 DEF LoadSwapEngine, LoadStep
<1>42. ASSUME NEW l \in Loads, LoadPublish(l)
       PROVE  PhaseSettled'
  BY <1>42 DEF LoadPublish, LoadStep
<1>43. CASE Tick
  BY <1>43 DEF Tick
<1>44. CASE ClockSkip
  BY <1>44 DEF ClockSkip
<1>45. CASE ClockSave
  BY <1>45 DEF ClockSave
<1>46. CASE ClockSaved
  BY <1>46 DEF ClockSaved
<1>47. CASE ClockDecide
  BY <1>47 DEF ClockDecide
<1>48. CASE UNCHANGED vars
  BY <1>48 DEF vars
<1> QED
  BY <1>1, <1>2, <1>3, <1>4, <1>5, <1>6, <1>7, <1>8, <1>9, <1>10, <1>11, <1>12, <1>13,
     <1>14, <1>15, <1>16, <1>17, <1>18, <1>19, <1>20, <1>21, <1>22, <1>23, <1>24, <1>25,
     <1>26, <1>27, <1>28, <1>29, <1>30, <1>31, <1>32, <1>33, <1>34, <1>35, <1>36, <1>37,
     <1>38, <1>39, <1>40, <1>41, <1>42, <1>43, <1>44, <1>45, <1>46, <1>47, <1>48
     DEF Next, Step, Work, CancelHandler, LoadHandler, Clock

\* Every state shows a settled phase in that sense.
LEMMA PhaseInvariant == Spec => [](TypeInv /\ Alone /\ PhaseSettled)
<1>1. Init => TypeInv /\ Alone /\ PhaseSettled
  BY TypeInit, AloneInit, PhaseInit
<1>2. TypeInv /\ Alone /\ PhaseSettled /\ [Next]_vars => (TypeInv /\ Alone /\ PhaseSettled)'
  BY TypeStep, AloneStep, PhaseStep
<1> QED
  BY <1>1, <1>2, PTL DEF Spec

\* Whoever finds the slot free, with no load in course and nobody cancelling,
\* finds a phase that is not busy: the promise rescanRoot relies on.
THEOREM FreeSlotSettledCorrect == Spec => []FreeSlotSettled
<1>1. Alone /\ PhaseSettled => FreeSlotSettled
  <2> SUFFICES ASSUME Alone, PhaseSettled, slot = NoOne
               PROVE  FreeSlotSettled
    BY DEF FreeSlotSettled
  <2>1. \A c \in Cycles : ~Live(c)
    BY ScanServerAssumption DEF Alone, OneCycle
  <2> QED
    BY <2>1 DEF PhaseSettled, FreeSlotSettled
<1> QED
  BY <1>1, PhaseInvariant, PTL

-----------------------------------------------------------------------------
\* A scan and a re-scan keep to their own labels.
KindFits ==
    \A c \in Cycles :
        /\ pc[c] \in {"reserved", "reset", "arm", "begin", "save1", "gate2", "setHashing", "hash",
                      "save2", "gate3", "setIndexing", "index", "complete", "gate6", "watch",
                      "install", "announce", "clock", "abort", "refused"} => kind[c] = "scan"
        /\ pc[c] \in {"lookup", "reindex", "settleOk", "settleCancelled", "settleRefused",
                      "showWatching", "showCompleted", "showCancelled", "showIdle"} => kind[c] = "rescan"

\* The handle that is installed is of a running watcher, and a watcher that is
\* created runs until it is installed.
Installed ==
    /\ watcher # NoOne => watcher \in alive
    /\ \A c \in Cycles : pc[c] = "install" => c \in alive
    /\ \A c \in Cycles : pc[c] \in {"announce", "clock"} => watcher = c

\* With no cancellation no context is done and no path of a cancellation taken.
Uncut ==
    /\ ~killed /\ \A c \in Cycles : ctx[c] => pc[c] = "over"
    /\ \A c \in Cycles : pc[c] \notin {"abort", "settleCancelled", "showCancelled", "showIdle"}

\* What a re-scan will show is what it found, and a scan shows its watcher.
ShowsWatcher ==
    /\ \A c \in Cycles : /\ pc[c] = "showWatching" => watcher # NoOne
                         /\ pc[c] = "showCompleted" => watcher = NoOne
                         /\ pc[c] \in {"gate6", "watch"} => phase = "completed"
                         /\ pc[c] = "clock" => phase = "watching"
    /\ (\A c \in Cycles : \/ pc[c] \in {"none", "over", "lookup", "release"}
                          \/ pc[c] = "start" /\ kind[c] = "rescan")
          => (phase = "watching" <=> watcher # NoOne)

\* While a watcher is installed and announced the clock has no reason to stop.
ClockKept ==
    watcher # NoOne /\ (\A c \in Cycles : pc[c] \notin {"announce", "clock"})
        => clk # "off" /\ phase \in TickerPhases

Smooth == NobodyCancelled /\ NobodyLoaded => Installed /\ Uncut /\ ShowsWatcher /\ ClockKept

\* Nothing is watched, shown or cut when the server starts.
LEMMA SmoothInit == Init => KindFits /\ Smooth
  BY ScanServerAssumption DEF Init, KindFits, Smooth, Installed, Uncut, ShowsWatcher, ClockKept

\* Each label is entered from a label of the same kind.
LEMMA KindStep == TypeInv /\ KindFits /\ [Next]_vars => KindFits'
<1> SUFFICES ASSUME TypeInv, KindFits, [Next]_vars
             PROVE  KindFits'
  OBVIOUS
<1>a. /\ pc \in [Cycles -> Labels] /\ kind \in [Cycles -> {"none", "scan", "rescan"}]
      /\ \A c \in Cycles : pc[c] # "none" => kind[c] \in {"scan", "rescan"}
      /\ \A c \in Cycles : writer = c => pc[c] \in {"save1", "save2"}
  BY DEF TypeInv, TypeOK, Known
<1> USE <1>a DEF KindFits, Goto, cycleVars, engineVars, treeVars, watchVars, saveVars, reqVars
<1>1. ASSUME NEW c \in Cycles, Start(c)
      PROVE  KindFits'
  BY <1>1 DEF Start
<1>2. ASSUME NEW c \in Cycles, PrepareScan(c)
      PROVE  KindFits'
  BY <1>2 DEF PrepareScan, StopWatcher
<1>3. ASSUME NEW c \in Cycles, ResetTree(c)
      PROVE  KindFits'
  BY <1>3 DEF ResetTree
<1>4. ASSUME NEW c \in Cycles, Launch(c)
      PROVE  KindFits'
  BY <1>4 DEF Launch, EnsureClock
<1>5. ASSUME NEW c \in Cycles, Begin(c)
      PROVE  KindFits'
  BY <1>5 DEF Begin
<1>6. ASSUME NEW c \in Cycles, EnterStartScan(c)
      PROVE  KindFits'
  BY <1>6 DEF EnterStartScan
<1>7. ASSUME NEW c \in Cycles, ScanCut(c)
      PROVE  KindFits'
  BY <1>7 DEF ScanCut
<1>8. ASSUME NEW c \in Cycles, SaveSkip(c)
      PROVE  KindFits'
  BY <1>8 DEF SaveSkip, AfterSave
<1>9. ASSUME NEW c \in Cycles, SaveBegin(c)
      PROVE  KindFits'
  BY <1>9 DEF SaveBegin
<1>10. ASSUME NEW c \in Cycles, SaveEnd(c)
       PROVE  KindFits'
  BY <1>10 DEF SaveEnd, AfterSave
<1>11. ASSUME NEW c \in Cycles, Gate(c)
       PROVE  KindFits'
  BY <1>11 DEF Gate
<1>12. ASSUME NEW c \in Cycles, EnterHashing(c)
       PROVE  KindFits'
  BY <1>12 DEF EnterHashing
<1>13. ASSUME NEW c \in Cycles, HashCut(c)
       PROVE  KindFits'
  BY <1>13 DEF HashCut, LeaveHashing
<1>14. ASSUME NEW c \in Cycles, EnterIndexing(c)
       PROVE  KindFits'
  BY <1>14 DEF EnterIndexing
<1>15. ASSUME NEW c \in Cycles, BuildIndexes(c)
       PROVE  KindFits'
  BY <1>15 DEF BuildIndexes
<1>16. ASSUME NEW c \in Cycles, Complete(c)
       PROVE  KindFits'
  BY <1>16 DEF Complete
<1>17. ASSUME NEW c \in Cycles, StartWatcher(c)
       PROVE  KindFits'
  BY <1>17 DEF StartWatcher
<1>18. ASSUME NEW c \in Cycles, InstallWatcher(c)
       PROVE  KindFits'
  BY <1>18 DEF InstallWatcher
<1>19. ASSUME NEW c \in Cycles, Announce(c)
       PROVE  KindFits'
  BY <1>19 DEF Announce
<1>20. ASSUME NEW c \in Cycles, RestartClock(c)
       PROVE  KindFits'
  BY <1>20 DEF RestartClock, EnsureClock
<1>21. ASSUME NEW c \in Cycles, PrepareRescan(c)
       PROVE  KindFits'
  BY <1>21 DEF PrepareRescan
<1>22. ASSUME NEW c \in Cycles, Reindex(c)
       PROVE  KindFits'
  BY <1>22 DEF Reindex
<1>23. ASSUME NEW c \in Cycles, Settle(c)
       PROVE  KindFits'
  BY <1>23 DEF Settle
<1>24. ASSUME NEW c \in Cycles, Show(c)
       PROVE  KindFits'
  BY <1>24 DEF Show, Outcome
<1>25. ASSUME NEW c \in Cycles, Abort(c)
       PROVE  KindFits'
  BY <1>25 DEF Abort
<1>26. ASSUME NEW c \in Cycles, Release(c)
       PROVE  KindFits'
  BY <1>26 DEF Release
<1>27. ASSUME NEW c \in Cycles, ScanDirs(c)
       PROVE  KindFits'
  BY <1>27 DEF ScanDirs
<1>28. ASSUME NEW c \in Cycles, ScanDone(c)
       PROVE  KindFits'
  BY <1>28 DEF ScanDone
<1>29. ASSUME NEW c \in Cycles, HashDone(c)
       PROVE  KindFits'
  BY <1>29 DEF HashDone, LeaveHashing
<1>30. ASSUME Overflow
       PROVE  KindFits'
  BY <1>30 DEF Overflow, TakeSlot
<1>31. ASSUME NEW x \in Cancels, CancelRead(x)
       PROVE  KindFits'
  BY <1>31 DEF CancelRead
<1>32. ASSUME NEW x \in Cancels, CancelPhase(x)
       PROVE  KindFits'
  BY <1>32 DEF CancelPhase
<1>33. ASSUME NEW x \in Cancels, CancelContext(x)
       PROVE  KindFits'
  BY <1>33 DEF CancelContext
<1>34. ASSUME NEW x \in Cancels, CancelEngines(x)
       PROVE  KindFits'
  BY <1>34 DEF CancelEngines
<1>35. ASSUME NEW x \in Cancels, CancelSettle(x)
       PROVE  KindFits'
  BY <1>35 DEF CancelSettle
<1>36. ASSUME NEW l \in Loads, LoadCheck(l)
       PROVE  KindFits'
  BY <1>36 DEF LoadCheck, LoadStep
<1>37. ASSUME NEW l \in Loads, LoadProgress(l)
       PROVE  KindFits'
  BY <1>37 DEF LoadProgress, LoadStep
<1>38. ASSUME NEW l \in Loads, LoadFail(l)
       PROVE  KindFits'
  BY <1>38 DEF LoadFail, LoadStep
<1>39. ASSUME NEW l \in Loads, LoadStopWatcher(l)
       PROVE  KindFits'
  BY <1>39 DEF LoadStopWatcher, StopWatcher, LoadStep
<1>40. ASSUME NEW l \in Loads, LoadAdopt(l)
       PROVE  KindFits'
  BY <1>40 DEF LoadAdopt, LoadStep
<1>41. ASSUME NEW l \in Loads, LoadSwapEngine(l)
       PROVE  KindFits'
  BY <1>41 DEF LoadSwapEngine, LoadStep
<1>42. ASSUME NEW l \in Loads, LoadPublish(l)
       PROVE  KindFits'
  BY <1>42 DEF LoadPublish, LoadStep
<1>43. CASE Tick
  BY <1>43 DEF Tick
<1>44. CASE ClockSkip
  BY <1>44 DEF ClockSkip
<1>45. CASE ClockSave
  BY <1>45 DEF ClockSave
<1>46. CASE ClockSaved
  BY <1>46 DEF ClockSaved
<1>47. CASE ClockDecide
  BY <1>47 DEF ClockDecide
<1>48. CASE UNCHANGED vars
  BY <1>48 DEF vars
<1> QED
  BY <1>1, <1>2, <1>3, <1>4, <1>5, <1>6, <1>7, <1>8, <1>9, <1>10, <1>11, <1>12, <1>13,
     <1>14, <1>15, <1>16, <1>17, <1>18, <1>19, <1>20, <1>21, <1>22, <1>23, <1>24, <1>25,
     <1>26, <1>27, <1>28, <1>29, <1>30, <1>31, <1>32, <1>33, <1>34, <1>35, <1>36, <1>37,
     <1>38, <1>39, <1>40, <1>41, <1>42, <1>43, <1>44, <1>45, <1>46, <1>47, <1>48
     DEF Next, Step, Work, CancelHandler, LoadHandler, Clock

\* Undisturbed, the watcher, the phase and the clock follow the live cycle.
LEMMA SmoothStep ==
    TypeInv /\ Alone /\ Watchers /\ KindFits /\ Smooth /\ [Next]_vars => Smooth'
<1> SUFFICES ASSUME TypeInv, Alone, Watchers, KindFits, Smooth, [Next]_vars
             PROVE  Smooth'
  OBVIOUS
<1>a. /\ pc \in [Cycles -> Labels] /\ kind \in [Cycles -> {"none", "scan", "rescan"}]
      /\ ctx \in [Cycles -> BOOLEAN] /\ killed \in BOOLEAN /\ alive \subseteq Cycles
      /\ cancel \in [Cancels -> {"none", "phase", "context", "engines", "enginesBusy", "settle", "over"}]
      /\ load \in [Loads -> {"none", "reading", "adopt", "swap", "publish", "over"}]
      /\ \A c \in Cycles : writer = c => pc[c] \in {"save1", "save2"}
      /\ \A c \in Cycles : pc[c] \notin {"refused", "settleRefused"}
      /\ \A c, d \in Cycles : Live(c) /\ Live(d) => c = d
      /\ NoOne \notin Cycles
  BY ScanServerAssumption DEF TypeInv, TypeOK, Known, Alone, OneCycle, EngineNeverBusy
<1>b. slot = NoOne => \A c \in Cycles : ~Live(c)
  BY ScanServerAssumption DEF Alone, OneCycle
<1>c. ScansUnwatched /\ NoOrphanWatcher
  BY DEF Watchers
<1> USE <1>a, <1>b, <1>c DEF Smooth, Installed, Uncut, ShowsWatcher, ClockKept, KindFits, ScansUnwatched,
        NoOrphanWatcher, TickerPhases, Live, Goto, NobodyCancelled, NobodyLoaded,
        cycleVars, engineVars, treeVars, watchVars, saveVars, reqVars
<1>1. ASSUME NEW c \in Cycles, Start(c)
      PROVE  Smooth'
  BY <1>1 DEF Start
<1>2. ASSUME NEW c \in Cycles, PrepareScan(c)
      PROVE  Smooth'
  BY <1>2 DEF PrepareScan, StopWatcher
<1>3. ASSUME NEW c \in Cycles, ResetTree(c)
      PROVE  Smooth'
  BY <1>3 DEF ResetTree
<1>4. ASSUME NEW c \in Cycles, Launch(c)
      PROVE  Smooth'
  BY <1>4 DEF Launch, EnsureClock
<1>5. ASSUME NEW c \in Cycles, Begin(c)
      PROVE  Smooth'
  BY <1>5 DEF Begin
<1>6. ASSUME NEW c \in Cycles, EnterStartScan(c)
      PROVE  Smooth'
  BY <1>6 DEF EnterStartScan
<1>7. ASSUME NEW c \in Cycles, ScanCut(c)
      PROVE  Smooth'
  BY <1>7 DEF ScanCut
<1>8. ASSUME NEW c \in Cycles, SaveSkip(c)
      PROVE  Smooth'
  BY <1>8 DEF SaveSkip, AfterSave
<1>9. ASSUME NEW c \in Cycles, SaveBegin(c)
      PROVE  Smooth'
  BY <1>9 DEF SaveBegin
<1>10. ASSUME NEW c \in Cycles, SaveEnd(c)
       PROVE  Smooth'
  BY <1>10 DEF SaveEnd, AfterSave
<1>11. ASSUME NEW c \in Cycles, Gate(c)
       PROVE  Smooth'
  BY <1>11 DEF Gate
<1>12. ASSUME NEW c \in Cycles, EnterHashing(c)
       PROVE  Smooth'
  BY <1>12 DEF EnterHashing
<1>13. ASSUME NEW c \in Cycles, HashCut(c)
       PROVE  Smooth'
  BY <1>13 DEF HashCut, LeaveHashing
<1>14. ASSUME NEW c \in Cycles, EnterIndexing(c)
       PROVE  Smooth'
  BY <1>14 DEF EnterIndexing
<1>15. ASSUME NEW c \in Cycles, BuildIndexes(c)
       PROVE  Smooth'
  BY <1>15 DEF BuildIndexes
<1>16. ASSUME NEW c \in Cycles, Complete(c)
       PROVE  Smooth'
  BY <1>16 DEF Complete
<1>17. ASSUME NEW c \in Cycles, StartWatcher(c)
       PROVE  Smooth'
  BY <1>17 DEF StartWatcher
<1>18. ASSUME NEW c \in Cycles, InstallWatcher(c)
       PROVE  Smooth'
  BY <1>18 DEF InstallWatcher
<1>19. ASSUME NEW c \in Cycles, Announce(c)
       PROVE  Smooth'
  BY <1>19 DEF Announce
<1>20. ASSUME NEW c \in Cycles, RestartClock(c)
       PROVE  Smooth'
  BY <1>20 DEF RestartClock, EnsureClock
<1>21. ASSUME NEW c \in Cycles, PrepareRescan(c)
       PROVE  Smooth'
  BY <1>21 DEF PrepareRescan
<1>22. ASSUME NEW c \in Cycles, Reindex(c)
       PROVE  Smooth'
  BY <1>22 DEF Reindex
<1>23. ASSUME NEW c \in Cycles, Settle(c)
       PROVE  Smooth'
  BY <1>23 DEF Settle
<1>24. ASSUME NEW c \in Cycles, Show(c)
       PROVE  Smooth'
  BY <1>24 DEF Show, Outcome
<1>25. ASSUME NEW c \in Cycles, Abort(c)
       PROVE  Smooth'
  BY <1>25 DEF Abort
<1>26. ASSUME NEW c \in Cycles, Release(c)
       PROVE  Smooth'
  BY <1>26 DEF Release
<1>27. ASSUME NEW c \in Cycles, ScanDirs(c)
       PROVE  Smooth'
  BY <1>27 DEF ScanDirs
<1>28. ASSUME NEW c \in Cycles, ScanDone(c)
       PROVE  Smooth'
  BY <1>28 DEF ScanDone
<1>29. ASSUME NEW c \in Cycles, HashDone(c)
       PROVE  Smooth'
  BY <1>29 DEF HashDone, LeaveHashing
<1>30. ASSUME Overflow
       PROVE  Smooth'
  BY <1>30 DEF Overflow, TakeSlot
<1>31. ASSUME NEW x \in Cancels, CancelRead(x)
       PROVE  Smooth'
  BY <1>31 DEF CancelRead
<1>32. ASSUME NEW x \in Cancels, CancelPhase(x)
       PROVE  Smooth'
  BY <1>32 DEF CancelPhase
<1>33. ASSUME NEW x \in Cancels, CancelContext(x)
       PROVE  Smooth'
  BY <1>33 DEF CancelContext
<1>34. ASSUME NEW x \in Cancels, CancelEngines(x)
       PROVE  Smooth'
  BY <1>34 DEF CancelEngines
<1>35. ASSUME NEW x \in Cancels, CancelSettle(x)
       PROVE  Smooth'
  BY <1>35 DEF CancelSettle
<1>36. ASSUME NEW l \in Loads, LoadCheck(l)
       PROVE  Smooth'
  BY <1>36 DEF LoadCheck, LoadStep
<1>37. ASSUME NEW l \in Loads, LoadProgress(l)
       PROVE  Smooth'
  BY <1>37 DEF LoadProgress, LoadStep
<1>38. ASSUME NEW l \in Loads, LoadFail(l)
       PROVE  Smooth'
  BY <1>38 DEF LoadFail, LoadStep
<1>39. ASSUME NEW l \in Loads, LoadStopWatcher(l)
       PROVE  Smooth'
  BY <1>39 DEF LoadStopWatcher, StopWatcher, LoadStep
<1>40. ASSUME NEW l \in Loads, LoadAdopt(l)
       PROVE  Smooth'
  BY <1>40 DEF LoadAdopt, LoadStep
<1>41. ASSUME NEW l \in Loads, LoadSwapEngine(l)
       PROVE  Smooth'
  BY <1>41 DEF LoadSwapEngine, LoadStep
<1>42. ASSUME NEW l \in Loads, LoadPublish(l)
       PROVE  Smooth'
  BY <1>42 DEF LoadPublish, LoadStep
<1>43. CASE Tick
  BY <1>43 DEF Tick
<1>44. CASE ClockSkip
  BY <1>44 DEF ClockSkip
<1>45. CASE ClockSave
  BY <1>45 DEF ClockSave
<1>46. CASE ClockSaved
  BY <1>46 DEF ClockSaved
<1>47. CASE ClockDecide
  BY <1>47 DEF ClockDecide
<1>48. CASE UNCHANGED vars
  BY <1>48 DEF vars
<1> QED
  BY <1>1, <1>2, <1>3, <1>4, <1>5, <1>6, <1>7, <1>8, <1>9, <1>10, <1>11, <1>12, <1>13,
     <1>14, <1>15, <1>16, <1>17, <1>18, <1>19, <1>20, <1>21, <1>22, <1>23, <1>24, <1>25,
     <1>26, <1>27, <1>28, <1>29, <1>30, <1>31, <1>32, <1>33, <1>34, <1>35, <1>36, <1>37,
     <1>38, <1>39, <1>40, <1>41, <1>42, <1>43, <1>44, <1>45, <1>46, <1>47, <1>48
     DEF Next, Step, Work, CancelHandler, LoadHandler, Clock

\* The watcher, the phase and the clock agree in every undisturbed state.
LEMMA SmoothInvariant == Spec => [](TypeInv /\ Alone /\ Watchers /\ KindFits /\ Smooth)
<1> DEFINE I == TypeInv /\ Alone /\ Watchers /\ KindFits /\ Smooth
<1>1. Init => I
  BY TypeInit, AloneInit, WatchersInit, SmoothInit
<1>2. I /\ [Next]_vars => I'
  BY TypeStep, AloneStep, WatchersStep, KindStep, SmoothStep
<1> HIDE DEF I
<1>3. Spec => []I
  BY <1>1, <1>2, PTL DEF Spec
<1> QED
  BY <1>3 DEF I

\* However many scans and re-scans there were, once all is quiet a watcher runs
\* exactly if the interface says so, and its changes are being saved.
THEOREM WatchingIsAsShownCorrect == Spec => []WatchingIsAsShown
<1>1. TypeInv /\ Alone /\ Watchers /\ KindFits /\ Smooth => WatchingIsAsShown
  <2> SUFFICES ASSUME TypeInv, Watchers, Smooth, Quiet, NobodyCancelled, NobodyLoaded
               PROVE  (phase = "watching" <=> alive # {}) /\ (alive # {} => clk # "off")
    BY DEF WatchingIsAsShown
  <2>1. \A c \in Cycles : pc[c] \in {"none", "over"}
    BY DEF Quiet, Live
  <2>2. alive # {} <=> watcher # NoOne
    BY <2>1, ScanServerAssumption DEF Smooth, Installed, Watchers, NoOrphanWatcher, TypeInv, TypeOK
  <2>3. phase = "watching" <=> watcher # NoOne
    BY <2>1 DEF Smooth, ShowsWatcher
  <2>4. watcher # NoOne => clk # "off"
    BY <2>1 DEF Smooth, ClockKept
  <2> QED
    BY <2>2, <2>3, <2>4
<1> QED
  BY <1>1, SmoothInvariant, PTL

-----------------------------------------------------------------------------
\* No two loads are between their two assignments, of AppServer.tree and of
\* Scanner.Tree.
OneSwap == \A l, m \in Loads : load[l] = "swap" /\ load[m] = "swap" => l = m

\* The engine is behind the active tree only while a load is between the two.
Swapping ==
    /\ \A l \in Loads : load[l] = "swap" => tree = l
    /\ engine # tree => \E l \in Loads : load[l] = "swap"

\* Engine and server begin with one tree.
LEMMA SwapInit == Init => Swapping
  BY DEF Init, Swapping

\* Only a load assigns the two trees, one after the other.
LEMMA SwapStep == TypeInv /\ Swapping /\ OneSwap' /\ [Next]_vars => Swapping'
<1> SUFFICES ASSUME TypeInv, Swapping, OneSwap', [Next]_vars
             PROVE  Swapping'
  OBVIOUS
<1>a. load \in [Loads -> {"none", "reading", "adopt", "swap", "publish", "over"}]
  BY DEF TypeInv, TypeOK
<1>1. ASSUME UNCHANGED <<tree, engine, load>>
      PROVE  Swapping'
  BY <1>1 DEF Swapping
<1>2. ASSUME NEW c \in Cycles, Start(c) \/ Step(c) \/ Work(c)
      PROVE  UNCHANGED <<tree, engine, load>>
  BY <1>2 DEF Start, Step, Work, PrepareScan, ResetTree, Launch, Begin, EnterStartScan, ScanCut,
     SaveSkip, SaveBegin, SaveEnd, Gate, EnterHashing, HashCut, LeaveHashing, EnterIndexing,
     BuildIndexes, Complete, StartWatcher, InstallWatcher, Announce, RestartClock, PrepareRescan,
     Reindex, Settle, Show, Abort, Release, ScanDirs, ScanDone, HashDone, treeVars, reqVars
<1>3. ASSUME Overflow \/ Clock
      PROVE  UNCHANGED <<tree, engine, load>>
  BY <1>3 DEF Overflow, Clock, Tick, ClockSkip, ClockSave, ClockSaved, ClockDecide, treeVars, reqVars
<1>4. ASSUME NEW x \in Cancels, CancelRead(x) \/ CancelHandler(x)
      PROVE  UNCHANGED <<tree, engine, load>>
  BY <1>4 DEF CancelRead, CancelHandler, CancelPhase, CancelContext, CancelEngines, CancelSettle,
     treeVars
<1>5. ASSUME NEW l \in Loads,
             \/ LoadCheck(l) \/ LoadProgress(l) \/ LoadFail(l)
             \/ LoadStopWatcher(l) \/ LoadPublish(l)
      PROVE  Swapping'
  BY <1>a, <1>5 DEF LoadCheck, LoadProgress, LoadFail, LoadStopWatcher, LoadPublish, LoadStep,
     Swapping, treeVars
<1>6. ASSUME NEW l \in Loads, LoadAdopt(l)
      PROVE  Swapping'
  BY <1>a, <1>6 DEF LoadAdopt, LoadStep, Swapping, OneSwap
<1>7. ASSUME NEW l \in Loads, LoadSwapEngine(l)
      PROVE  Swapping'
  BY <1>a, <1>7 DEF LoadSwapEngine, LoadStep, Swapping, OneSwap
<1>8. CASE UNCHANGED vars
  BY <1>1, <1>8 DEF vars, treeVars, reqVars
<1> QED
  BY <1>1, <1>2, <1>3, <1>4, <1>5, <1>6, <1>7, <1>8 DEF Next, LoadHandler

\* Phase 1 writes where the interface reads, whatever scans, watchers and loads
\* came before, as long as no two loads overlap between their assignments.
THEOREM EngineOnActiveTreeCorrect == Spec /\ []OneSwap => []EngineOnActiveTree
<1>1. Init => TypeInv /\ Swapping
  BY TypeInit, SwapInit
<1>2. TypeInv /\ Swapping /\ OneSwap' /\ [Next]_vars => (TypeInv /\ Swapping)'
  BY TypeStep, SwapStep
<1>3. TypeInv /\ Swapping => EngineOnActiveTree
  BY DEF Swapping, EngineOnActiveTree, Quiet
<1> QED
  BY <1>1, <1>2, <1>3, PTL DEF Spec

\* So it does for any number of scans and cancellations with one load.
THEOREM EngineWithOneLoad ==
    ASSUME \A l, m \in Loads : l = m
    PROVE  Spec => []EngineOnActiveTree
<1>1. OneSwap
  BY DEF OneSwap
<1> QED
  BY <1>1, EngineOnActiveTreeCorrect, PTL
=============================================================================
