------------------------------- MODULE Lifecycle -------------------------------
(***************************************************************************)
(* The processes of ScanFile Pro and their windows (main.go,               *)
(* pkg/server/lifecycle.go, pkg/privileges): the single instance found     *)
(* through instance.json and a port, the elevated child that takes over    *)
(* port and session (handoff), the console relay of --admin, the SSE       *)
(* connections that count as presence, the pagehide beacon, the grace      *)
(* timer, the shutdown deferred behind a scan, and Stop.                   *)
(*                                                                         *)
(* A process is launched once, a connection is used once: a window that    *)
(* reloads, or reconnects to the next process, is a new connection.        *)
(* Tokens are not modelled: the process found through instance.json        *)
(* accepts the token written there.  Every process wants a window          *)
(* (--no-window switches all of presence off).                             *)
(*                                                                         *)
(* LifeInit, LifeNext and the like have a prefix because Lifecycle and     *)
(* Snapshots are extended together where theorems are stated about them.   *)
(***************************************************************************)
EXTENDS Naturals, FiniteSets

CONSTANTS
    MaxProcs, MaxConns, \* how many of each there may be, numbered as they come,
    Budget,             \* and how many in all
    Scanners            \* the processes where a scan may be started

\* What is assumed of the bounds and of the scanners.
ASSUME LifecycleAssumption ==
    /\ MaxProcs \in Nat /\ MaxConns \in Nat /\ Budget \in Nat
    /\ Scanners \subseteq 1..MaxProcs

VARIABLES
    file,    \* instance.json
    pc,      \* where main is in each process
    role,    \* how the process was launched
    boss,    \* the process that launched it
    port,    \* the port it listens on, waits for or asks
    heir,    \* the elevated child completeHandoff waits for
    count,   \* AppServer.sseCount
    due,     \* presenceTimer is armed
    late,    \* AppServer.shutdownWhenDone
    expiry,  \* the goroutine of onPresenceExpired
    finish,  \* the goroutine of onScanFinished
    scan,    \* a scan is in course
    conn,    \* conn[c]: where each SSE connection is
    at,      \* at[c]: the process it was made to
    beacon,  \* the beacons sent and not arrived
    unarmed, \* ghost: a focus cancelled the timer and nothing armed it since
    beaconed, \* ghost: a beacon was handled
    strayed   \* ghost: some instance took a free port

procVars  == <<pc, role, boss, port, heir>>
countVars == <<count, due, late, unarmed>>
goVars    == <<expiry, finish, scan>>
connVars  == <<conn, at, beacon, beaconed>>
lifeVars == <<file, strayed, procVars, countVars, goVars, connVars>>

Procs == 1..MaxProcs
Conns == 1..MaxConns
Nobody == 0
Fixed  == 0   \* the port of the Configuration; a free port has its process's number
Ports == Procs \cup {Fixed}
NoInstance == [pid |-> Nobody, port |-> Fixed]

Serving   == {"write", "up", "remove", "unlink", "drain"}
Listening(p) == pc[p] \in Serving
Alive(p)  == pc[p] \notin {"none", "dead"}
Answers(x) == \E p \in Procs : Listening(p) /\ port[p] = x
OpenAt(p) == \E c \in Conns : conn[c] = "open" /\ at[c] = p

Launched == {p \in Procs : pc[p] # "none"}
Made == {c \in Conns : conn[c] # "none"}
Spare(n) == Cardinality(Launched) + Cardinality(Made) + n <= Budget
NextProc(p) == pc[p] = "none" /\ \A q \in 1..(p - 1) : pc[q] # "none"
NextConn(c) == conn[c] = "none" /\ \A d \in 1..(c - 1) : conn[d] # "none"

Goto(p, label) == pc' = [pc EXCEPT ![p] = label]

LifeInit ==
    /\ file = NoInstance
    /\ pc = [p \in Procs |-> "none"]
    /\ role = [p \in Procs |-> "none"]
    /\ boss = [p \in Procs |-> Nobody]
    /\ port = [p \in Procs |-> Fixed]
    /\ heir = [p \in Procs |-> Nobody]
    /\ count = [p \in Procs |-> 0]
    /\ due = [p \in Procs |-> FALSE]
    /\ late = [p \in Procs |-> FALSE]
    /\ expiry = [p \in Procs |-> "none"]
    /\ finish = [p \in Procs |-> "none"]
    /\ scan = [p \in Procs |-> FALSE]
    /\ conn = [c \in Conns |-> "none"]
    /\ at = [c \in Conns |-> Nobody]
    /\ beacon = {}
    /\ unarmed = [p \in Procs |-> FALSE]
    /\ beaconed = [p \in Procs |-> FALSE]
    /\ strayed = FALSE

\* armPresenceTimerLocked and cancelPresenceTimerLocked.
Arm(p) == due' = [due EXCEPT ![p] = TRUE] /\ unarmed' = [unarmed EXCEPT ![p] = FALSE]
Disarm(p) == due' = [due EXCEPT ![p] = FALSE]

\* The end of a process: its goroutines and connections go with it.
End(p) ==
    /\ Goto(p, "dead")
    /\ count' = [count EXCEPT ![p] = 0]
    /\ Disarm(p)
    /\ late' = [late EXCEPT ![p] = FALSE]
    /\ expiry' = [expiry EXCEPT ![p] = "none"]
    /\ finish' = [finish EXCEPT ![p] = "none"]
    /\ scan' = [scan EXCEPT ![p] = FALSE]
    /\ conn' = [c \in Conns |-> IF at[c] = p THEN "over" ELSE conn[c]]
    /\ at' = [c \in Conns |-> IF at[c] = p THEN Nobody ELSE at[c]]
    /\ beacon' = {c \in beacon : at[c] # p}
    /\ port' = [port EXCEPT ![p] = Fixed]
    /\ heir' = [heir EXCEPT ![p] = Nobody]
    /\ unarmed' = [unarmed EXCEPT ![p] = FALSE]
    /\ beaconed' = [beaconed EXCEPT ![p] = FALSE]
    /\ UNCHANGED <<strayed, role, boss>>

Die(p) == End(p) /\ UNCHANGED file

-----------------------------------------------------------------------------
\* Launches.

Launch(p) ==
    /\ NextProc(p) /\ Spare(1)
    /\ Goto(p, "probe")
    /\ role' = [role EXCEPT ![p] = "window"]
    /\ UNCHANGED <<strayed, file, boss, port, heir, countVars, goVars, connVars>>

\* --admin: the process relays the console of an elevated child.
LaunchAdmin(p, q) ==
    /\ NextProc(p) /\ q = p + 1 /\ Spare(2)
    /\ pc' = [pc EXCEPT ![p] = "accept", ![q] = "dial"]
    /\ role' = [role EXCEPT ![p] = "relay", ![q] = "child"]
    /\ boss' = [boss EXCEPT ![q] = p]
    /\ UNCHANGED <<strayed, file, port, heir, countVars, goVars, connVars>>

\* The child dials the relay; it goes on even if nobody answers.
Dial(q) ==
    /\ pc[q] = "dial"
    /\ LET p == boss[q] IN
       pc' = [pc EXCEPT ![q] = "probe", ![p] = IF @ = "accept" THEN "stream" ELSE @]
    /\ UNCHANGED <<strayed, file, role, boss, port, heir, countVars, goVars, connVars>>

\* Nobody connected in 120 s; the child ended; the terminal was closed.
RelayEnds(p) ==
    /\ pc[p] \in {"accept", "stream"}
    /\ Die(p)

\* Mutant: the parent is looked at once, at the start.
ParentGoneAtStart(q) ==
    /\ role[q] = "child" /\ pc[q] \in {"dial", "probe"}
    /\ pc[boss[q]] = "dead"
    /\ Die(q)

\* MonitorParentProcess (and the reader of the console connection): exit at once.
ParentGone(q) ==
    /\ role[q] = "child" /\ Alive(q)
    /\ pc[boss[q]] = "dead"
    /\ Die(q)

-----------------------------------------------------------------------------
\* The single instance: focusRunningInstance and Start.

\* instance.json is read and its port is asked: an instance of ours is asked for
\* its window, anything else is an obsolete file.
Probe(p) ==
    /\ pc[p] = "probe"
    /\ IF file.pid \notin {Nobody, p} /\ Answers(file.port)
          THEN Goto(p, "focus") /\ port' = [port EXCEPT ![p] = file.port]
          ELSE Goto(p, "bind") /\ UNCHANGED port
    /\ UNCHANGED <<strayed, file, role, boss, heir, countVars, goVars, connVars>>

\* markClientSeen.
Seen(r) ==
    /\ late' = [late EXCEPT ![r] = FALSE]
    /\ Disarm(r)
    /\ unarmed' = [unarmed EXCEPT ![r] = TRUE]
    /\ UNCHANGED count

\* POST /api/instance/focus; whatever the answer, this process ends.
Focus(p) ==
    /\ pc[p] = "focus"
    /\ Goto(p, "dead")
    /\ port' = [port EXCEPT ![p] = Fixed]
    /\ IF Answers(port[p])
          THEN \E r \in Procs : Listening(r) /\ port[r] = port[p] /\ Seen(r)
          ELSE UNCHANGED countVars
    /\ UNCHANGED <<strayed, file, role, boss, heir, goVars, connVars>>

\* The listener is open: the start counts as an absence, with a longer grace.
Serve(p, x) ==
    /\ Goto(p, "write")
    /\ port' = [port EXCEPT ![p] = x]
    /\ strayed' = (strayed \/ x # Fixed)
    /\ Arm(p)
    /\ UNCHANGED <<file, role, boss, heir, count, late, goVars, connVars>>

Bind(p) == pc[p] = "bind" /\ ~Answers(Fixed) /\ Serve(p, Fixed)

BindTaken(p) ==
    /\ pc[p] = "bind" /\ Answers(Fixed)
    /\ Goto(p, "ask")
    /\ UNCHANGED <<strayed, file, role, boss, port, heir, countVars, goVars, connVars>>

\* Who has the port?  One of ours is left alone, or asked for its window if
\* instance.json leads to it; for anyone else a free port is taken.
AskOurs(p) ==
    /\ pc[p] = "ask" /\ Answers(Fixed)
    /\ IF file.pid \notin {Nobody, p} /\ Answers(file.port)
          THEN Goto(p, "focus") /\ port' = [port EXCEPT ![p] = file.port]
          ELSE Goto(p, "dead") /\ UNCHANGED port
    /\ UNCHANGED <<strayed, file, role, boss, heir, countVars, goVars, connVars>>

AskOther(p) == pc[p] = "ask" /\ ~Answers(Fixed) /\ Serve(p, p)

WriteFile(p) == file' = [pid |-> p, port |-> port[p]]

Write(p) ==
    /\ pc[p] = "write"
    /\ Goto(p, "up")
    /\ WriteFile(p)
    /\ UNCHANGED <<strayed, role, boss, port, heir, countVars, goVars, connVars>>

-----------------------------------------------------------------------------
\* The handoff to an elevated child.

\* POST /api/system/elevate, from a window; UAC accepted.
Elevate(p, q) ==
    /\ pc[p] = "up" /\ OpenAt(p)
    /\ role[p] = "window" /\ heir[p] = Nobody
    /\ NextProc(q) /\ Spare(1)
    /\ Goto(q, "adopt")
    /\ role' = [role EXCEPT ![q] = "heir"]
    /\ boss' = [boss EXCEPT ![q] = p]
    /\ heir' = [heir EXCEPT ![p] = q]
    /\ UNCHANGED <<strayed, file, port, countVars, goVars, connVars>>

\* The child reads the port (and the token) of the instance before it.
AdoptNothing(q) == pc[q] = "adopt" /\ file.pid = Nobody /\ Die(q)

Adopt(q) ==
    /\ pc[q] = "adopt" /\ file.pid # Nobody
    /\ port' = [port EXCEPT ![q] = file.port]
    /\ Goto(q, "announce")
    /\ UNCHANGED <<strayed, file, role, boss, heir, countVars, goVars, connVars>>

\* AnnounceHandoff, before the port is free.
AnnounceHandoff(q) ==
    /\ pc[q] = "announce"
    /\ WriteFile(q)
    /\ Goto(q, "wait")
    /\ UNCHANGED <<strayed, role, boss, port, heir, countVars, goVars, connVars>>

TakePort(q) == pc[q] = "wait" /\ ~Answers(port[q]) /\ Serve(q, port[q])

\* 120 s without the port.  A parent that is still waiting for this child polls
\* four times a second, and one that is stopping takes a few seconds.
TakeTimeout(q) ==
    /\ pc[q] = "wait" /\ Answers(port[q])
    /\ heir[boss[q]] # q
    /\ Die(q)

\* Stop begins: the first of those who ask for it (sync.Once).
BeginStop(p) == IF pc[p] = "up" THEN Goto(p, "remove") /\ Disarm(p) ELSE UNCHANGED <<pc, due>>

\* completeHandoff: the child announced this very port.
SeeHeir(p) ==
    /\ heir[p] # Nobody /\ pc[p] = "up"
    /\ file.pid = heir[p] /\ file.port = port[p]
    /\ BeginStop(p)
    /\ UNCHANGED <<strayed, file, role, boss, port, heir, count, late, unarmed, goVars, connVars>>

\* 120 s without the child: this instance goes on.
GiveUpHeir(p) ==
    /\ heir[p] # Nobody /\ pc[p] = "up" /\ file.pid # heir[p]
    /\ heir' = [heir EXCEPT ![p] = Nobody]
    /\ UNCHANGED <<strayed, file, pc, role, boss, port, countVars, goVars, connVars>>

-----------------------------------------------------------------------------
\* Stop.

\* Ctrl+C.
Interrupt(p) ==
    /\ pc[p] = "up"
    /\ BeginStop(p)
    /\ UNCHANGED <<strayed, file, role, boss, port, heir, count, late, unarmed, goVars, connVars>>

\* removeInstanceFile reads the file and then removes it, whosever it is by then.
ReadOwnFile(p) ==
    /\ pc[p] = "remove"
    /\ Goto(p, IF file.pid = p THEN "unlink" ELSE "drain")
    /\ UNCHANGED <<strayed, file, role, boss, port, heir, countVars, goVars, connVars>>

RemoveFile(p) ==
    /\ pc[p] = "unlink"
    /\ file' = NoInstance
    /\ Goto(p, "drain")
    /\ UNCHANGED <<strayed, role, boss, port, heir, countVars, goVars, connVars>>

\* Mutant: the listener is kept until the windows have gone.
CloseListenerLast(p) ==
    /\ pc[p] = "drain" /\ ~OpenAt(p)
    /\ Goto(p, "closing")
    /\ UNCHANGED <<strayed, file, role, boss, port, heir, countVars, goVars, connVars>>

\* StopBackground cancels the scan; Shutdown closes the listener first.
CloseListener(p) ==
    /\ pc[p] = "drain"
    /\ Goto(p, "closing")
    /\ UNCHANGED <<strayed, file, role, boss, port, heir, countVars, goVars, connVars>>

\* Mutant: the file is removed last, after the port was let go.
ExitRemoves(p) == pc[p] = "closing" /\ End(p) /\ file' = NoInstance

\* At most 5 s for the open requests; then Done closes and main returns.
Exit(p) == pc[p] = "closing" /\ Die(p)

-----------------------------------------------------------------------------
\* Presence.

\* clientConnected.
Connect(c, p) ==
    /\ NextConn(c) /\ Spare(1)
    /\ Listening(p)
    /\ conn' = [conn EXCEPT ![c] = "open"]
    /\ at' = [at EXCEPT ![c] = p]
    /\ count' = [count EXCEPT ![p] = @ + 1]
    /\ late' = [late EXCEPT ![p] = FALSE]
    /\ Disarm(p)
    /\ unarmed' = [unarmed EXCEPT ![p] = FALSE]
    /\ UNCHANGED <<strayed, file, procVars, goVars, beacon, beaconed>>

\* The page goes away, by a close or a reload; pagehide sends the beacon.
Close(c) ==
    /\ conn[c] = "open"
    /\ conn' = [conn EXCEPT ![c] = "gone"]
    /\ beacon' = beacon \cup {c}
    /\ UNCHANGED <<strayed, file, procVars, countVars, goVars, at, beaconed>>

\* markClientGone, or a beacon that never arrives.
Beacon(c) ==
    /\ c \in beacon
    /\ beacon' = beacon \ {c}
    /\ \/ /\ Listening(at[c])
          /\ count' = [count EXCEPT ![at[c]] = 0]
          /\ Arm(at[c])
          /\ beaconed' = [beaconed EXCEPT ![at[c]] = TRUE]
          /\ UNCHANGED late
       \/ UNCHANGED <<countVars, beaconed>>
    /\ UNCHANGED <<strayed, file, procVars, goVars, conn, at>>

\* Mutant: only the last disconnection is counted off.
DisconnectLast(c) ==
    /\ conn[c] = "gone"
    /\ conn' = [conn EXCEPT ![c] = "over"]
    /\ LET p == at[c] IN
       IF count[p] > 1
          THEN UNCHANGED countVars
          ELSE count' = [count EXCEPT ![p] = 0] /\ Arm(p) /\ UNCHANGED late
    /\ UNCHANGED <<strayed, file, procVars, goVars, at, beacon, beaconed>>

\* clientDisconnected, when the server notices; the count stops at zero.
Disconnect(c) ==
    /\ conn[c] = "gone"
    /\ conn' = [conn EXCEPT ![c] = "over"]
    /\ LET p == at[c] IN
       IF count[p] > 1
          THEN count' = [count EXCEPT ![p] = @ - 1] /\ UNCHANGED <<due, late, unarmed>>
          ELSE count' = [count EXCEPT ![p] = 0] /\ Arm(p) /\ UNCHANGED late
    /\ UNCHANGED <<strayed, file, procVars, goVars, at, beacon, beaconed>>

ExpiryAt(p, label) == expiry' = [expiry EXCEPT ![p] = label]
FinishAt(p, label) == finish' = [finish EXCEPT ![p] = label]

\* The timer fires: 10 s is far more than the goroutine it starts needs, and than
\* Start needs to write instance.json.
Expire(p) ==
    /\ due[p] /\ expiry[p] = "none" /\ Alive(p) /\ pc[p] # "write"
    /\ Disarm(p)
    /\ ExpiryAt(p, "check")
    /\ UNCHANGED <<strayed, file, procVars, count, late, unarmed, finish, scan, connVars>>

\* onPresenceExpired looks at the clients under the lock,
ExpiryCheck(p) ==
    /\ expiry[p] = "check"
    /\ ExpiryAt(p, IF count[p] > 0 THEN "none" ELSE "look")
    /\ UNCHANGED <<strayed, file, procVars, countVars, finish, scan, connVars>>

\* Mutant: a shutdown once deferred is left to the end of the scan.
ExpiryLookLate(p) ==
    /\ expiry[p] = "look"
    /\ ExpiryAt(p, IF scan[p] \/ late[p] THEN "defer" ELSE "flush")
    /\ UNCHANGED <<strayed, file, procVars, countVars, finish, scan, connVars>>

\* at the scan outside it,
ExpiryLook(p) ==
    /\ expiry[p] = "look"
    /\ ExpiryAt(p, IF scan[p] THEN "defer" ELSE "flush")
    /\ UNCHANGED <<strayed, file, procVars, countVars, finish, scan, connVars>>

\* and defers the shutdown, arming the timer again,
ExpiryDefer(p) ==
    /\ expiry[p] = "defer"
    /\ late' = [late EXCEPT ![p] = TRUE]
    /\ Arm(p)
    /\ ExpiryAt(p, "none")
    /\ UNCHANGED <<strayed, file, procVars, count, finish, scan, connVars>>

\* or shuts down, after the 400 ms given to the "shutdown" event.
ExpiryStop(p) ==
    /\ expiry[p] = "flush"
    /\ ExpiryAt(p, "none")
    /\ BeginStop(p)
    /\ UNCHANGED <<strayed, file, role, boss, port, heir, count, late, unarmed, finish,
                   scan, connVars>>

ScanStart(p) ==
    /\ p \in Scanners
    /\ pc[p] = "up" /\ OpenAt(p) /\ ~scan[p]
    /\ scan' = [scan EXCEPT ![p] = TRUE]
    /\ UNCHANGED <<strayed, file, procVars, countVars, expiry, finish, connVars>>

\* The end of orchestrateScan, onScanFinished included.
ScanEnd(p) ==
    /\ scan[p] /\ finish[p] = "none"
    /\ scan' = [scan EXCEPT ![p] = FALSE]
    /\ FinishAt(p, "check")
    /\ UNCHANGED <<strayed, file, procVars, countVars, expiry, connVars>>

FinishCheck(p) ==
    /\ finish[p] = "check"
    /\ FinishAt(p, IF late[p] /\ count[p] = 0 THEN "look" ELSE "none")
    /\ UNCHANGED <<strayed, file, procVars, countVars, expiry, scan, connVars>>

FinishLook(p) ==
    /\ finish[p] = "look"
    /\ FinishAt(p, IF scan[p] THEN "none" ELSE "flush")
    /\ UNCHANGED <<strayed, file, procVars, countVars, expiry, scan, connVars>>

FinishStop(p) ==
    /\ finish[p] = "flush"
    /\ FinishAt(p, "none")
    /\ BeginStop(p)
    /\ UNCHANGED <<strayed, file, role, boss, port, heir, count, late, unarmed, expiry,
                   scan, connVars>>

-----------------------------------------------------------------------------
\* What the user and the rest of the machine do.
User ==
    \/ \E p \in Procs : Launch(p) \/ Interrupt(p) \/ ScanStart(p) \/ GiveUpHeir(p) \/ RelayEnds(p)
    \/ \E p, q \in Procs : LaunchAdmin(p, q) \/ Elevate(p, q)
    \/ \E c \in Conns : Close(c) \/ \E p \in Procs : Connect(c, p)

\* main.
Main(p) ==
    \/ Dial(p) \/ Probe(p) \/ Focus(p)
    \/ Bind(p) \/ BindTaken(p) \/ AskOurs(p) \/ AskOther(p) \/ Write(p)
    \/ AdoptNothing(p) \/ Adopt(p) \/ AnnounceHandoff(p) \/ TakePort(p) \/ TakeTimeout(p)
    \/ ReadOwnFile(p) \/ RemoveFile(p) \/ CloseListener(p) \/ Exit(p)

Expiry(p) ==
    \/ Expire(p) \/ ExpiryCheck(p) \/ ExpiryLook(p) \/ ExpiryDefer(p) \/ ExpiryStop(p)

Finish(p) == FinishCheck(p) \/ FinishLook(p) \/ FinishStop(p)

Moves(p) == Main(p) \/ ParentGone(p) \/ SeeHeir(p) \/ Finish(p)

LifeNext ==
    \/ User
    \/ \E p \in Procs : Moves(p) \/ Expiry(p) \/ ScanEnd(p)
    \/ \E c \in Conns : Beacon(c) \/ Disconnect(c)

LifeSpec == LifeInit /\ [][LifeNext]_lifeVars

\* A process moves on (main and its goroutines), its timer fires, its scans end and
\* the operating system reports closed connections and dead parents.  Nobody has to
\* launch, open, close or elevate anything, and no beacon has to arrive.
LifeFairness ==
    /\ \A p \in Procs : WF_lifeVars(Moves(p)) /\ WF_lifeVars(Expiry(p)) /\ WF_lifeVars(ScanEnd(p))
    /\ WF_lifeVars(\E c \in Conns : Beacon(c) \/ Disconnect(c))

LifeFairSpec == LifeSpec /\ LifeFairness

-----------------------------------------------------------------------------
Labels == {"none", "accept", "stream", "dial", "probe", "focus", "bind", "ask", "adopt",
           "announce", "wait", "closing", "dead"} \cup Serving

\* Types of all the variables: main's labels, ports and the two goroutines.
LifeTypeOK ==
    /\ file \in [pid : Procs \cup {Nobody}, port : Ports]
    /\ pc \in [Procs -> Labels]
    /\ role \in [Procs -> {"none", "window", "relay", "child", "heir"}]
    /\ boss \in [Procs -> Procs \cup {Nobody}]
    /\ port \in [Procs -> Ports]
    /\ heir \in [Procs -> Procs \cup {Nobody}]
    /\ count \in [Procs -> Nat]
    /\ due \in [Procs -> BOOLEAN]
    /\ late \in [Procs -> BOOLEAN]
    /\ expiry \in [Procs -> {"none", "check", "look", "defer", "flush"}]
    /\ finish \in [Procs -> {"none", "check", "look", "flush"}]
    /\ scan \in [Procs -> BOOLEAN]
    /\ conn \in [Conns -> {"none", "open", "gone", "over"}]
    /\ at \in [Conns -> Procs \cup {Nobody}]
    /\ beacon \subseteq Conns
    /\ unarmed \in [Procs -> BOOLEAN]
    /\ beaconed \in [Procs -> BOOLEAN]
    /\ strayed \in BOOLEAN

Counted(p) == {c \in Conns : at[c] = p /\ conn[c] \in {"open", "gone"}}

\* sseCount never counts a window that is not there, which would keep the process
\* for ever; and until a beacon is handled it counts every one (lifecycle.go
\* 294-335).
PresenceCounted ==
    /\ LifeTypeOK
    /\ \A p \in Procs :
        Alive(p) => /\ count[p] <= Cardinality(Counted(p))
                    /\ ~beaconed[p] => count[p] = Cardinality(Counted(p))

\* Whoever serves can be found by the next launch, though other instances come, go
\* and remove their file: instance.json is there and leads to the port, as long as
\* no instance had to take another port (lifecycle.go 502-513, 625, 673).
FoundWhenServing ==
    \A p \in Procs :
        pc[p] = "up" /\ ~strayed => file.pid # Nobody /\ file.port = port[p]

Unattended(p) == ~OpenAt(p) /\ ~unarmed[p]

\* A process left without a window ends, though a scan defers it (lifecycle.go
\* 378-413): no orphan is left, unless a focus took its timer away.
AbsentEnds == \A p \in Procs : <>[]Unattended(p) => <>[](pc[p] # "up")

\* A parent that gave the port to its child is replaced: some other process comes to
\* serve (lifecycle.go 632-650).
HandoverCompletes ==
    \A p \in Procs :
        (pc[p] = "remove" /\ heir[p] # Nobody /\ file.pid = heir[p] /\ pc[heir[p]] = "wait")
            ~> (\E q \in Procs \ {p} : pc[q] = "up")

\* An elevated child never outlives the console that asked for it
\* (privileges_windows.go 434-449).
NoZombie ==
    \A q \in Procs : (role[q] = "child" /\ pc[boss[q]] = "dead") ~> (pc[q] = "dead")

================================================================================
