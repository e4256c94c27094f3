---------------------------- MODULE FileActions ----------------------------
(***************************************************************************)
(* What takes files off their place: the recycling and the permanent       *)
(* deletion the person asks for (pkg/server/handlers_files.go,             *)
(* pkg/recycle), and the Propostas the Assistente registers and the person *)
(* approves (pkg/mcp/tools.go).  Several requests run at once; approvals   *)
(* wait for each other, the manual requests do not.  A batch may be        *)
(* refused or fail in part, a Proposta expires, another program fills a    *)
(* path, and a scan fills the tree again meanwhile.                        *)
(*                                                                         *)
(* A file is known by the place it had at first.  A folder is one thing.   *)
(* Sizes, freed bytes, messages and the notes TAG writes are left out.     *)
(***************************************************************************)
EXTENDS Naturals, Sequences, FiniteSets

CONSTANTS
    Approvals,     \* the calls of POST /api/ai/actions/execute, numbered as they arrive
    Manual,        \* those of POST /api/files/recycle and /api/files/delete
    Paths,         \* the places of the files at first
    Target,        \* Target[p]: what a MOVE makes of p, destination and base name
    Folders,       \* the paths that are folders
    Protected,     \* Pasta Protegida (IsProtectedPath)
    Binless,       \* what the Lixeira of its volume does not take (preflight)
    Scopes,        \* the Raizes Varridas a scan may bring, as the places within
    Suggestions,   \* what the model may ask of propose_actions
    Requests,      \* what the person may ask of the two endpoints
    Contested,     \* the places another program may fill, none a destination
    Stranger,      \* a file of that program
    MaxProposals, MaxMishaps,
    Absent, Nobody

Places == Paths \cup { Target[p] : p \in Paths }
Kinds  == {"RECYCLE", "MOVE", "TAG", "MARK_REVIEW"}
Ids    == 1 .. MaxProposals
Jobs   == Approvals \cup Manual
Verdicts == {"done", "refused", "failed"}

ASSUME FileActionsAssumption ==
    /\ Target \in [Paths -> Places]
    /\ Scopes \subseteq SUBSET Places
    /\ Stranger \notin Paths /\ Absent \notin Paths \cup {Stranger}
    /\ Approvals \subseteq Nat /\ Nobody \notin Jobs
    /\ Approvals \cap Manual = {}
    /\ MaxProposals \in Nat
    /\ \A p \in Paths : Target[p] \notin Contested
    /\ \A s \in Suggestions : s.files \in Seq(Paths)
    /\ \A r \in Requests : r.how \in {"RECYCLE", "DELETE"} /\ r.files \in Seq(Paths)

VARIABLES
    disk,        \* what is at each place
    bin,         \* what is in the Lixeira
    erased,      \* what was permanently deleted
    scope,       \* activeRoots and allowedRoots
    tree,        \* the files of the tree
    index,       \* the files of the duplicate index
    scan,        \* the scan under way: what it has read and what it has collected
    proposals,   \* MCPToolsContext.proposals
    issued,      \* proposalSeq
    expired,     \* the Propostas older than ProposalTTL
    execMu,      \* who holds it
    pc,          \* where each request is
    job,         \* what it has read and done
    acted,       \* acted[id]: how many approvals of id took a file off its place
    ghosts,      \* what a scan put back after it was gone
    mishaps      \* counts what the clock, the system or another program spoils, a bound of the model

world == <<disk, bin, erased>>
views == <<tree, index>>
table == <<proposals, issued, expired>>
vars  == <<disk, bin, erased, scope, tree, index, scan, proposals, issued, expired,
           execMu, pc, job, acted, ghosts, mishaps>>

NoScan == [at |-> "off", files |-> {}]
NoJob  == [how |-> "none", files |-> <<>>, id |-> 0,
           plan |-> <<>>, batch |-> <<>>, forgot |-> {}, took |-> {}]

Init ==
    /\ disk = [p \in Places |-> IF p \in Paths THEN p ELSE Absent]
    /\ bin = {} /\ erased = {}
    /\ scope \in Scopes
    /\ tree = Paths \cap scope /\ index = Paths \cap scope
    /\ scan = NoScan
    /\ proposals = [i \in Ids |-> Absent] /\ issued = 0 /\ expired = {}
    /\ execMu = Nobody
    /\ pc = [j \in Jobs |-> "idle"] /\ job = [j \in Jobs |-> NoJob]
    /\ acted = [i \in Ids |-> 0]
    /\ ghosts = {} /\ mishaps = 0

Goto(j, where) == pc' = [pc EXCEPT ![j] = where]
Exists(p)      == p \in Places /\ disk[p] # Absent

-----------------------------------------------------------------------------
\* The table of the Propostas.
Stored(i) == proposals[i] # Absent
Purged    == [i \in Ids |-> IF i \in expired THEN Absent ELSE proposals[i]]

\* What is on disk of the files asked for; each keeps its place in the list.
Found(files) == [i \in { k \in DOMAIN files : Exists(files[k]) } |-> files[i]]

\* ProposeActions: every path within the roots, those on disk kept, and a MOVE
\* to a place within the roots.
Propose(s) ==
    LET found == Found(s.files) IN
    /\ issued < MaxProposals
    /\ s.kind \in Kinds
    /\ (\A i \in DOMAIN s.files : s.files[i] \in scope)
    /\ DOMAIN found # {}
    /\ s.kind = "MOVE" => \A i \in DOMAIN s.files : Target[s.files[i]] \in scope
    /\ issued' = issued + 1
    /\ proposals' = [Purged EXCEPT ![issued + 1] =
           [kind |-> s.kind, files |-> found, executed |-> FALSE, good |-> 0, refused |-> 0, failed |-> 0]]
    /\ UNCHANGED <<world, scope, views, scan, expired, execMu, pc, job, acted, ghosts, mishaps>>

\* ProposalTTL goes by.
Expire(i) ==
    /\ Stored(i) /\ i \notin expired /\ mishaps < MaxMishaps
    /\ expired' = expired \cup {i}
    /\ mishaps' = mishaps + 1
    /\ UNCHANGED <<world, scope, views, scan, proposals, issued, execMu, pc, job, acted, ghosts>>

-----------------------------------------------------------------------------
\* planFileAction: the roots, and the typed name for a folder.
PlanOf(files, confirmed) ==
    [i \in DOMAIN files |-> files[i] \in scope /\ (files[i] \in Folders => confirmed)]

\* The answer in the order of the request: the paths the plan let through take
\* the results of the batch one after the other.
Before(plan, i) == Cardinality({ k \in DOMAIN plan : k <= i /\ plan[k] })

\* The results taken at the place of the request.
AnswerInPlace(plan, batch) == [i \in DOMAIN plan |->
    IF ~plan[i] THEN "refused"
    ELSE IF i \in DOMAIN batch THEN batch[i] ELSE "failed"]

Answer(plan, batch) == [i \in DOMAIN plan |->
    IF ~plan[i] THEN "refused"
    ELSE IF Before(plan, i) \in DOMAIN batch THEN batch[Before(plan, i)] ELSE "failed"]

\* The path the batch is at.
Due(j)       == { i \in DOMAIN job[j].plan :
                    job[j].plan[i] /\ Before(job[j].plan, i) = Len(job[j].batch) + 1 }
Current(j)   == job[j].files[CHOOSE i \in Due(j) : TRUE]
BatchOver(j) == Due(j) = {}
HasResult(j, v) == [job[j] EXCEPT !.batch = Append(@, v)]
Result(j, v) == job' = [job EXCEPT ![j] = HasResult(j, v)]

\* The person recycles or deletes: handleRecycleFiles, handleDeleteFiles.
Ask(j, r) ==
    /\ pc[j] = "idle"
    /\ job' = [job EXCEPT ![j] = [NoJob EXCEPT !.how = r.how, !.files = r.files,
                                               !.plan = PlanOf(r.files, r.confirmed)]]
    /\ Goto(j, "acting")
    /\ UNCHANGED <<world, scope, views, scan, table, execMu, acted, ghosts, mishaps>>

\* The person approves: handleAIExecuteAction, which waits for execMu.
Approve(j, i) ==
    /\ pc[j] = "idle" /\ i <= issued
    /\ \A k \in Approvals : k < j => pc[k] # "idle"
    /\ job' = [job EXCEPT ![j] = [NoJob EXCEPT !.id = i]]
    /\ Goto(j, "waiting")
    /\ UNCHANGED <<world, scope, views, scan, table, execMu, acted, ghosts, mishaps>>

\* No look at Executed.
EnterAgain(j) ==
    /\ pc[j] = "waiting" /\ execMu = Nobody
    /\ proposals' = Purged
    /\ LET p == Purged[job[j].id] IN
       IF p = Absent
       THEN Goto(j, "answered") /\ UNCHANGED <<execMu, job>>
       ELSE /\ execMu' = j
            /\ job' = [job EXCEPT ![j].how = p.kind, ![j].files = p.files, ![j].plan =
                   IF p.kind = "RECYCLE" THEN PlanOf(p.files, TRUE) ELSE [k \in DOMAIN p.files |-> TRUE]]
            /\ Goto(j, "acting")
    /\ UNCHANGED <<world, scope, views, scan, issued, expired, acted, ghosts, mishaps>>

\* ExecuteProposal up to the switch: the Proposta may have expired, or have been
\* executed while the approval waited.
Enter(j) ==
    /\ pc[j] = "waiting" /\ execMu = Nobody
    /\ proposals' = Purged
    /\ LET p == Purged[job[j].id] IN
       IF p = Absent \/ p.executed
       THEN Goto(j, "answered") /\ UNCHANGED <<execMu, job>>
       ELSE /\ execMu' = j
            /\ job' = [job EXCEPT ![j].how = p.kind, ![j].files = p.files, ![j].plan =
                   IF p.kind = "RECYCLE" THEN PlanOf(p.files, TRUE) ELSE [k \in DOMAIN p.files |-> TRUE]]
            /\ Goto(j, "acting")
    /\ UNCHANGED <<world, scope, views, scan, issued, expired, acted, ghosts, mishaps>>

\* A MOVE whose folder cannot be made: nothing is tried, nothing is counted.
MkdirFails(j) ==
    /\ pc[j] = "acting" /\ job[j].how = "MOVE" /\ job[j].batch = <<>>
    /\ mishaps < MaxMishaps
    /\ mishaps' = mishaps + 1
    /\ job' = [job EXCEPT ![j].plan = <<>>]
    /\ UNCHANGED <<world, scope, views, scan, table, execMu, pc, acted, ghosts>>

-----------------------------------------------------------------------------
\* One path of the batch: what is looked at first.
PreflightRefuses(p) == p \in Protected \/ p \in Binless \/ ~Exists(p)
\* The destination not looked at.
LookedLightly(how, p) ==
    CASE how = "RECYCLE" -> IF PreflightRefuses(p) THEN "refused" ELSE "go"
      [] how = "DELETE"  -> IF p \in Protected THEN "refused" ELSE IF Exists(p) THEN "go" ELSE "failed"
      [] how = "MOVE"    -> "go"

Looked(how, p) ==
    CASE how = "RECYCLE" -> IF PreflightRefuses(p) THEN "refused" ELSE "go"
      [] how = "DELETE"  -> IF p \in Protected THEN "refused" ELSE IF Exists(p) THEN "go" ELSE "failed"
      [] how = "MOVE"    -> IF Exists(Target[p]) THEN "refused" ELSE "go"

Check(j) ==
    /\ pc[j] = "acting" /\ ~BatchOver(j)
    /\ job[j].how \in {"RECYCLE", "DELETE", "MOVE"}
    /\ LET v == Looked(job[j].how, Current(j)) IN
       \/ v = "go" /\ Goto(j, "checked") /\ UNCHANGED job
       \/ v # "go" /\ Result(j, v) /\ UNCHANGED pc
    /\ UNCHANGED <<world, scope, views, scan, table, execMu, acted, ghosts, mishaps>>

Took(j, p) ==
    /\ job' = [job EXCEPT ![j] = [HasResult(j, "done") EXCEPT !.took = @ \cup {p}]]
    /\ acted' = IF j \in Approvals /\ job[j].took = {}
                THEN [acted EXCEPT ![job[j].id] = @ + 1] ELSE acted

\* SendToRecycleBin, DeletePermanent, os.Rename, which replaces what is there.
Act(j) ==
    /\ pc[j] = "checked"
    /\ LET p == Current(j) IN
       /\ Exists(p)
       /\ Took(j, p)
       /\ disk' = IF job[j].how = "MOVE" THEN [disk EXCEPT ![Target[p]] = disk[p], ![p] = Absent]
                  ELSE [disk EXCEPT ![p] = Absent]
       /\ bin' = IF job[j].how = "RECYCLE" THEN bin \cup {disk[p]} ELSE bin
       /\ erased' = IF job[j].how = "DELETE" THEN erased \cup {disk[p]} ELSE erased
    /\ Goto(j, "acting")
    /\ UNCHANGED <<scope, views, scan, table, execMu, ghosts, mishaps>>

\* The path is gone by now, or the system refuses.
ActFails(j) ==
    /\ pc[j] = "checked"
    /\ \/ ~Exists(Current(j)) /\ UNCHANGED mishaps
       \/ Exists(Current(j)) /\ mishaps < MaxMishaps /\ mishaps' = mishaps + 1
    /\ Result(j, "failed")
    /\ Goto(j, "acting")
    /\ UNCHANGED <<world, scope, views, scan, table, execMu, acted, ghosts>>

\* TAG writes a sidecar (WriteFileMetadata); MARK_REVIEW does nothing on disk.
Annotate(j) ==
    /\ pc[j] = "acting" /\ ~BatchOver(j)
    /\ job[j].how \in {"TAG", "MARK_REVIEW"}
    /\ Result(j, IF job[j].how = "MARK_REVIEW" \/ (Current(j) \in scope /\ Exists(Current(j)))
                 THEN "done" ELSE "failed")
    /\ UNCHANGED <<world, scope, views, scan, table, execMu, pc, acted, ghosts, mishaps>>

-----------------------------------------------------------------------------
\* executeFileAction goes through the results, and forgetItem drops what was
\* done, from the tree and then from the index.
Disposes(j)  == job[j].how \in {"RECYCLE", "DELETE"}
Outcome(j)   == Answer(job[j].plan, job[j].batch)
ToForget(j)  == { i \in DOMAIN Outcome(j) : Disposes(j) /\ Outcome(j)[i] = "done" } \ job[j].forgot
IsNext(j, i) == i \in ToForget(j) /\ \A k \in ToForget(j) : i <= k

ForgetInTree(j) ==
    /\ pc[j] = "acting" /\ BatchOver(j)
    /\ \E i \in ToForget(j) : IsNext(j, i) /\ tree' = tree \ {job[j].files[i]}
    /\ Goto(j, "forgetting")
    /\ UNCHANGED <<world, scope, index, scan, table, execMu, job, acted, ghosts, mishaps>>

\* The index left as it is.
ForgetInTreeAlone(j) ==
    /\ pc[j] = "forgetting"
    /\ \E i \in ToForget(j) :
       /\ IsNext(j, i)
       /\ UNCHANGED index
       /\ job' = [job EXCEPT ![j].forgot = @ \cup {i}]
    /\ Goto(j, "acting")
    /\ UNCHANGED <<world, scope, tree, scan, table, execMu, acted, ghosts, mishaps>>

ForgetInIndex(j) ==
    /\ pc[j] = "forgetting"
    /\ \E i \in ToForget(j) :
       /\ IsNext(j, i)
       /\ index' = index \ {job[j].files[i]}
       /\ job' = [job EXCEPT ![j].forgot = @ \cup {i}]
    /\ Goto(j, "acting")
    /\ UNCHANGED <<world, scope, tree, scan, table, execMu, acted, ghosts, mishaps>>

Over(j) == pc[j] = "acting" /\ BatchOver(j) /\ ToForget(j) = {}

\* The manual request is answered.
Reply(j) ==
    /\ j \in Manual /\ Over(j)
    /\ Goto(j, "answered")
    /\ UNCHANGED <<world, scope, views, scan, table, execMu, job, acted, ghosts, mishaps>>

\* applyTo, on the Proposta if it is still in the table, and execMu let go.
Number(out, v) == Cardinality({ i \in DOMAIN out : out[i] = v })

Record(j) ==
    /\ j \in Approvals /\ Over(j)
    /\ proposals' = IF Stored(job[j].id)
           THEN [proposals EXCEPT ![job[j].id] =
                    [@ EXCEPT !.good = Number(Outcome(j), "done"), !.refused = Number(Outcome(j), "refused"),
                              !.failed = Number(Outcome(j), "failed"),
                              !.executed = Number(Outcome(j), "done") > 0]]
           ELSE proposals
    /\ execMu' = Nobody
    /\ Goto(j, "answered")
    /\ UNCHANGED <<world, scope, views, scan, issued, expired, job, acted, ghosts, mishaps>>

-----------------------------------------------------------------------------
\* A scan: the roots and an empty tree; the folder listed and its files put in
\* the tree; at the end the index rebuilt from the files collected.
ScanBegins(roots) ==
    /\ scan.at = "off"
    /\ scan' = [at |-> "listed", files |-> { p \in roots : Exists(p) }]
    /\ scope' = roots
    /\ tree' = {}
    /\ UNCHANGED <<world, index, table, execMu, pc, job, acted, ghosts, mishaps>>

Gone(S) == { p \in S : ~Exists(p) }

ScanFillsTree ==
    /\ scan.at = "listed"
    /\ tree' = tree \cup scan.files
    /\ ghosts' = ghosts \cup Gone(scan.files)
    /\ scan' = [at |-> "filled", files |-> {}]
    /\ UNCHANGED <<world, scope, index, table, execMu, pc, job, acted, mishaps>>

ScanCollects ==
    /\ scan.at = "filled"
    /\ scan' = [at |-> "collected", files |-> tree]
    /\ UNCHANGED <<world, scope, views, table, execMu, pc, job, acted, ghosts, mishaps>>

ScanRebuilds ==
    /\ scan.at = "collected"
    /\ index' = scan.files
    /\ ghosts' = ghosts \cup Gone(scan.files)
    /\ scan' = [at |-> "over", files |-> {}]
    /\ UNCHANGED <<world, scope, tree, table, execMu, pc, job, acted, mishaps>>

\* Another program puts a file of its own in an empty place.
Appears(p) ==
    /\ p \in Contested /\ ~Exists(p) /\ mishaps < MaxMishaps
    /\ disk' = [disk EXCEPT ![p] = Stranger]
    /\ mishaps' = mishaps + 1
    /\ UNCHANGED <<bin, erased, scope, views, scan, table, execMu, pc, job, acted, ghosts>>

Person(j) ==
    \/ j \in Manual /\ \E r \in Requests : Ask(j, r)
    \/ j \in Approvals /\ \E i \in Ids : Approve(j, i)

Serve(j) ==
    \/ j \in Approvals /\ Enter(j)
    \/ MkdirFails(j) \/ Check(j) \/ Act(j) \/ ActFails(j) \/ Annotate(j)
    \/ ForgetInTree(j) \/ ForgetInIndex(j) \/ Reply(j) \/ Record(j)

Scan ==
    \/ \E roots \in Scopes : ScanBegins(roots)
    \/ ScanFillsTree \/ ScanCollects \/ ScanRebuilds

Next ==
    \/ \E s \in Suggestions : Propose(s)
    \/ \E i \in Ids : Expire(i)
    \/ \E j \in Jobs : Person(j) \/ Serve(j)
    \/ Scan
    \/ \E p \in Places : Appears(p)

Spec == Init /\ [][Next]_vars

-----------------------------------------------------------------------------
\* The variables stay in their sets: no Proposta of a kind the switch of
\* ExecuteProposal does not know, and execMu held only by an approval at work.
TypeOK ==
    /\ disk \in [Places -> Paths \cup {Stranger, Absent}]
    /\ bin \subseteq Paths \cup {Stranger} /\ erased \subseteq Paths \cup {Stranger}
    /\ scope \in Scopes /\ tree \subseteq Places /\ index \subseteq Places
    /\ scan.at \in {"off", "listed", "filled", "collected", "over"} /\ scan.files \subseteq Places
    /\ issued \in 0 .. MaxProposals /\ expired \subseteq Ids
    /\ \A i \in Ids : Stored(i) =>
          /\ i <= issued /\ proposals[i].kind \in Kinds
          /\ proposals[i].executed = (proposals[i].good > 0)
          /\ proposals[i].good + proposals[i].refused + proposals[i].failed <= Cardinality(DOMAIN proposals[i].files)
    /\ execMu \in Approvals \cup {Nobody}
    /\ \A j \in Jobs :
          /\ pc[j] \in {"idle", "waiting", "acting", "checked", "forgetting", "answered"}
          /\ job[j].how \in Kinds \cup {"DELETE", "none"}
          /\ job[j].batch \in Seq(Verdicts) /\ job[j].forgot \subseteq DOMAIN job[j].files
    /\ acted \in [Ids -> Nat] /\ ghosts \subseteq Places

\* No file of the person is ever lost or doubled: it is at one place, or in the
\* Lixeira, or was permanently deleted on request.  Moves of several Propostas
\* to one destination, beside recycling and deletion of the same files, never
\* write over each other (tools.go:1023-1040).
NothingLost ==
    \A t \in Paths :
        LET at == { p \in Places : disk[p] = t } IN
        /\ \A p, q \in at : p = q
        /\ at # {} <=> t \notin bin \cup erased
        /\ t \notin bin \cap erased

\* Whatever was refused or failed around it, an item is answered as done exactly
\* if this request took that path off its place (executeFileAction puts the
\* results of a shorter batch back in the order of the request).
AnswersAreTrue ==
    \A j \in Jobs :
        pc[j] = "answered" /\ job[j].how \in {"RECYCLE", "DELETE", "MOVE"} =>
            \A i \in DOMAIN Outcome(j) :
                (job[j].files[i] \in job[j].took) <=>
                    (\E k \in DOMAIN Outcome(j) : job[j].files[k] = job[j].files[i] /\ Outcome(j)[k] = "done")

\* A Proposta acts at most once, however often and however closely it is
\* approved: after an approval took something, no other one does
\* (tools.go:960-985).
ActedOnce == \A i \in Ids : acted[i] <= 1

\* A Proposta that was executed stays so: a second approval that found nothing
\* left to do never turns it back into a pending one.
ExecutedStays ==
    [][\A i \in Ids : (Stored(i) /\ proposals[i].executed) =>
          (proposals'[i] = Absent \/ proposals'[i].executed)]_vars

\* A request that took something out of a Proposta in the table leaves it
\* executed, with the numbers of what was done.
OutcomeIsRecorded ==
    \A i \in Ids : (Stored(i) /\ acted[i] = 1 /\ \A j \in Approvals : job[j].id = i => pc[j] \in {"waiting", "answered"})
        => proposals[i].executed

\* What a recycling or a deletion answered as done is offered no more, in the
\* tree or in the index, unless it is there again, another request took it
\* too, or a scan that listed it before put it back (handlers_files.go:257-285).
GoneIsForgotten ==
    /\ TypeOK
    /\ \A j \in Jobs : (pc[j] = "answered" /\ job[j].how \in {"RECYCLE", "DELETE"}) =>
        \A p \in job[j].took :
            \/ p \notin tree \cup index \/ Exists(p) \/ p \in ghosts
            \/ \E k \in Jobs \ {j} : p \in job[k].took

\* execMu is held exactly while one approval is at work, on every way out of
\* ExecuteProposal: none waits for a request that is over, no two work at once.
Inside(j) == pc[j] \in {"acting", "checked", "forgetting"}
LockIsWorkedUnder == \A j \in Approvals : Inside(j) <=> execMu = j
=============================================================================
