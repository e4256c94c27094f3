------------------------------ MODULE Snapshots ------------------------------
(* The Autosave files of one server: autosave_latest.sfz, which a save      *)
(* promotes from a temporary of its own, and autosave_previous.sfz, the one  *)
(* before it (pkg/server/server.go, pkg/scanner/cache.go).  One save runs at *)
(* a time, under autosaveWriteMu, while the tree it writes goes on changing; *)
(* the readers, the restore handler and an MCP process, look for the newest  *)
(* file, open it, and read it value by value.  On Windows an open file is    *)
(* neither removed nor renamed nor replaced, so a save that meets a reader   *)
(* falls back to rewriting the file in place.  The process may be killed     *)
(* between any two steps.                                                    *)
(*                                                                           *)
(* A file of the tree is abstracted to the number of the last change in its  *)
(* directory, and the text of a snapshot to the top level values it has.     *)
EXTENDS Naturals, FiniteSets

CONSTANTS
    Dirs,          \* directories of the tree
    Readers,       \* who loads Autosaves: "restore", "mcp" or both
    MaxChanges,    \* bound on changes of the disk
    MaxFaults      \* bound on kills of the process and writes that fail

ASSUME SnapshotsAssumption ==
    /\ Dirs # {} /\ IsFiniteSet(Dirs)
    /\ Readers \subseteq {"restore", "mcp"}
    /\ MaxChanges \in Nat /\ MaxFaults \in Nat

VARIABLES
    real,      \* the scanned disk: per directory, its last change
    tree,      \* the same as the tree has it; 0: no files
    changes,   \* changes of the disk so far
    moved,     \* changeSignal # lastAutoSaveChange
    phase,     \* the phase of the status, as far as saves and loads ask
    disk,      \* the file under each of the two names
    temp,      \* the temporary of the save in progress
    writer,    \* the next step of the save in progress
    todo,      \* directories the save has still to write
    reader,    \* what each reader is doing, with which file
    faults,    \* kills and failed writes so far
    saved,     \* history: the snapshot of the last save that succeeded
    inPlace    \* history: a file has been rewritten in place

writing == <<temp, writer, todo>>
varying == <<real, tree, changes, moved, phase>>
past == <<saved, inPlace>>
vars == <<varying, disk, writing, reader, faults, past>>

Names == {"latest", "previous"}
Changes == 0..MaxChanges
Trees == [Dirs -> Changes]
NoFiles == [d \in Dirs |-> 0]

\* The top level values of a snapshot, in the order they are written; the
\* header stands for the ones before the files, the last for the ones after.
Header == 1
Files == 2
Whole == 3

\* A file on disk: the tree it describes, the number of top level values it
\* holds complete, and whether it ends inside another one.
Content == [vs : Trees, got : 0..Whole, mid : BOOLEAN]
NoFile == [vs |-> NoFiles, got |-> 0, mid |-> TRUE]
Snapshot(vs) == [vs |-> vs, got |-> Whole, mid |-> FALSE]
Exists(n) == disk[n] # NoFile
Sized(n) == Exists(n) /\ (disk[n].got > 0 \/ disk[n].mid)

\* A reader: the values it has seen of its file, and, once the file has been
\* rewritten under it, the text it was reading.  "partial" is an end of its
\* own: the load succeeded without the whole of a snapshot.
Idle == [at |-> "idle", file |-> "latest", seen |-> 0, lost |-> NoFile]
Ended == {"idle", "partial"}
ReaderStates ==
    [at : Ended \cup {"second", "open", "read"}, file : Names,
     seen : 0..Whole, lost : Content]

\* A reader keeps the file open from os.Open to the end of the load.
Held(n) == \E r \in Readers : reader[r].at = "read" /\ reader[r].file = n

\* What is being read, and whether it was rewritten after its first value.
Rewritten(r) == reader[r].lost # NoFile
Text(r) == IF Rewritten(r) THEN reader[r].lost ELSE disk[reader[r].file]

----------------------------------------------------------------------------
Init ==
    /\ real = NoFiles
    /\ tree = NoFiles
    /\ changes = 0
    /\ moved = FALSE
    /\ phase = "idle"
    /\ disk = [n \in Names |-> NoFile]
    /\ temp = NoFile
    /\ writer = "idle"
    /\ todo = {}
    /\ reader = [r \in Readers |-> Idle]
    /\ faults = 0
    /\ saved = NoFile
    /\ inPlace = FALSE

----------------------------------------------------------------------------
\* The tree and the phase.  "scan" stands for the phases after Phase 1, which
\* has brought the tree up to the disk; what Phase 1 itself saves is a matter
\* of ScanServer.

StartScan ==
    /\ phase \in {"idle", "watching"}
    /\ phase' = "scan"
    /\ tree' = real
    /\ moved' = TRUE
    /\ UNCHANGED <<real, changes, disk, writing, reader, faults, past>>

\* A change on disk reaches the tree, and the counter, while something looks.
Change ==
    /\ changes < MaxChanges
    /\ changes' = changes + 1
    /\ \E d \in Dirs :
        /\ real' = [real EXCEPT ![d] = changes + 1]
        /\ IF phase \in {"scan", "watching"}
           THEN tree' = [tree EXCEPT ![d] = changes + 1] /\ moved' = TRUE
           ELSE UNCHANGED <<tree, moved>>
    /\ UNCHANGED <<phase, disk, writing, reader, faults, past>>

\* The scan ends in the Monitoramento, or is cancelled.
EndScan ==
    /\ phase = "scan"
    /\ phase' \in {"watching", "idle"}
    /\ UNCHANGED <<real, tree, changes, moved, disk, writing, reader, faults,
                   past>>

----------------------------------------------------------------------------
\* The save: writeAutoSave and saveAutoSaveSnapshot.

\* maybeAutoSave and the boundaries of the phases: while a scan runs, always;
\* while watching, only if the counter moved since the last save.
Due == phase = "scan" \/ (phase = "watching" /\ moved)

\* A tree without files is not saved.
BeginSave ==
    /\ writer = "idle"
    /\ Due
    /\ \E d \in Dirs : tree[d] > 0
    /\ writer' = "files"
    /\ todo' = Dirs
    /\ temp' = [vs |-> NoFiles, got |-> Header, mid |-> FALSE]
    /\ UNCHANGED <<varying, disk, reader, faults, past>>

\* Mutant: no temporary, the save is written under its final name.
WriteInPlace(d) ==
    /\ writer = "files"
    /\ d \in todo
    /\ todo' = todo \ {d}
    /\ temp' = [temp EXCEPT !.vs[d] = tree[d],
                            !.got = IF todo = {d} THEN Whole ELSE Header]
    /\ disk' = [disk EXCEPT !["latest"] = temp']
    /\ writer' = IF todo = {d} THEN "stat" ELSE "files"
    /\ UNCHANGED <<varying, reader, faults, past>>

\* writeSnapshotStream: walkDirs copies the files of one directory under that
\* directory's lock; between two directories the tree may change.
WriteDir(d) ==
    /\ writer = "files"
    /\ d \in todo
    /\ todo' = todo \ {d}
    /\ temp' = [temp EXCEPT !.vs[d] = tree[d],
                            !.got = IF todo = {d} THEN Whole ELSE Header]
    /\ writer' = IF todo = {d} THEN "stat" ELSE "files"
    /\ UNCHANGED <<varying, disk, reader, faults, past>>

\* A write that fails (a full disk): the save removes its temporary and leaves
\* the baseline alone.
GiveUp ==
    /\ faults < MaxFaults
    /\ faults' = faults + 1
    /\ writer' = "idle"
    /\ temp' = NoFile
    /\ todo' = {}

\* Mutant: a save that failed takes the new baseline all the same.
SaveFailsQuietly ==
    /\ writer = "files"
    /\ GiveUp
    /\ moved' = FALSE
    /\ UNCHANGED <<real, tree, changes, phase, disk, reader, past>>

SaveFails ==
    /\ writer = "files"
    /\ GiveUp
    /\ UNCHANGED <<varying, disk, reader, past>>

SaveStep(from, to, files) ==
    /\ writer = from
    /\ writer' = to
    /\ disk' = files
    /\ UNCHANGED <<varying, temp, todo, faults, saved>>

StatLatest ==
    /\ SaveStep("stat", IF Exists("latest") THEN "remove" ELSE "promote", disk)
    /\ UNCHANGED <<reader, inPlace>>

\* os.Remove(backupPath), whose error is ignored.
RemovePrevious ==
    /\ SaveStep("remove", "rotate",
                IF Held("previous") THEN disk
                ELSE [disk EXCEPT !["previous"] = NoFile])
    /\ UNCHANGED <<reader, inPlace>>

\* Mutant: latest is removed instead of rotated.
DropLatest ==
    /\ SaveStep("rotate", "promote",
                IF Held("latest") THEN disk
                ELSE [disk EXCEPT !["latest"] = NoFile])
    /\ UNCHANGED <<reader, inPlace>>

\* os.Rename(latestPath, backupPath), whose error is ignored.
RotateLatest ==
    /\ SaveStep("rotate", "promote",
                IF Held("latest") \/ Held("previous") THEN disk
                ELSE [latest |-> NoFile, previous |-> disk["latest"]])
    /\ UNCHANGED <<reader, inPlace>>

\* os.Rename(tempPath, latestPath), refused while somebody reads latest.
Promote ==
    /\ ~Held("latest")
    /\ SaveStep("promote", "note", [disk EXCEPT !["latest"] = temp])
    /\ UNCHANGED <<reader, inPlace>>

PromoteRefused ==
    /\ Held("latest")
    /\ SaveStep("promote", "copy", disk)
    /\ UNCHANGED <<reader, inPlace>>

\* os.ReadFile of the temporary and os.WriteFile over latest, which first
\* empties it and then fills it.
CopyOpen ==
    /\ SaveStep("copy", "fill",
                [disk EXCEPT !["latest"] =
                    [vs |-> temp.vs, got |-> 0, mid |-> FALSE]])
    /\ reader' = [r \in Readers |->
         IF reader[r].at = "read" /\ reader[r].file = "latest"
                                  /\ reader[r].seen > 0
         THEN [reader[r] EXCEPT !.lost = Text(r)] ELSE reader[r]]
    /\ inPlace' = TRUE

CopyFill ==
    /\ SaveStep("fill", "note", [disk EXCEPT !["latest"] = temp])
    /\ UNCHANGED <<reader, inPlace>>

\* What is on disk of the copy when it is cut.
CutCopy(files) ==
    \E got \in 0..(Whole - 1), mid \in BOOLEAN :
        files = [disk EXCEPT !["latest"] =
                    [vs |-> temp.vs, got |-> got, mid |-> mid]]

CopyFails ==
    /\ GiveUp
    /\ \/ writer = "copy" /\ disk' = disk
       \/ writer = "fill" /\ CutCopy(disk')
    /\ UNCHANGED <<varying, reader, past>>

\* writeAutoSave reads the counter here, after the write: a change that came
\* during the write counts as saved.
Note ==
    /\ writer = "note"
    /\ writer' = "idle"
    /\ moved' = FALSE
    /\ saved' = temp
    /\ temp' = NoFile
    /\ UNCHANGED <<real, tree, changes, phase, disk, todo, reader, faults,
                   inPlace>>

----------------------------------------------------------------------------
\* The readers: GetLatestAutoSave, os.Open, ImportCacheStream.

ReadStep(r, from, to) ==
    /\ reader[r].at = from
    /\ reader' = [reader EXCEPT ![r] = to]
    /\ UNCHANGED <<real, changes, disk, faults, past>>

\* The handler refuses while a scan or another load is in progress; an MCP
\* process only reads.  The load is published once a file has been found.
Admitted(r) == r = "restore" => phase \in {"idle", "watching"}
Loading(r) == phase' = IF r = "restore" THEN "loading" ELSE phase

LookLatest(r) ==
    /\ Admitted(r)
    /\ \E from \in Ended :
        IF Sized("latest")
        THEN ReadStep(r, from, [Idle EXCEPT !.at = "open"]) /\ Loading(r)
        ELSE ReadStep(r, from, [Idle EXCEPT !.at = "second"]) /\ UNCHANGED phase
    /\ UNCHANGED <<tree, moved, writing>>

LookPrevious(r) ==
    /\ IF Sized("previous")
       THEN /\ ReadStep(r, "second",
                        [Idle EXCEPT !.at = "open", !.file = "previous"])
            /\ Loading(r)
       ELSE ReadStep(r, "second", Idle) /\ UNCHANGED phase
    /\ UNCHANGED <<tree, moved, writing>>

\* The look at the two names and os.Open are separate calls.
Open(r) ==
    /\ Exists(reader[r].file)
    /\ ReadStep(r, "open", [reader[r] EXCEPT !.at = "read"])
    /\ UNCHANGED <<tree, moved, phase, writing>>

\* A load that fails leaves the tree; the handler publishes "idle".
Refuse(r, from) ==
    /\ ReadStep(r, from, Idle)
    /\ phase' = IF r = "restore" THEN "idle" ELSE phase
    /\ UNCHANGED <<tree, moved, writing>>

OpenFails(r) == ~Exists(reader[r].file) /\ Refuse(r, "open")

AtEnd(r) == reader[r].seen = Text(r).got

ReadValue(r) ==
    /\ ~AtEnd(r)
    /\ ReadStep(r, "read", [reader[r] EXCEPT !.seen = @ + 1])
    /\ UNCHANGED <<tree, moved, phase, writing>>

\* The text is empty, ends inside a value, or changed under the reader.
ReadFails(r) ==
    /\ Rewritten(r) \/ (AtEnd(r) /\ (Text(r).mid \/ Text(r).got = 0))
    /\ Refuse(r, "read")

\* dec.More() is FALSE at the closing brace and, just as well, where the text
\* ends between two values: nothing asks for the brace.  The tree is exchanged
\* after the Monitoramento has stopped; a save in progress goes on with the
\* tree it took, which nobody changes any more.
ReadEnds(r) ==
    LET seen == reader[r].seen
        loaded == IF seen >= Files THEN Text(r).vs ELSE NoFiles IN
    /\ seen > 0
    /\ Rewritten(r) \/ (AtEnd(r) /\ ~Text(r).mid)
    /\ ReadStep(r, "read",
                [Idle EXCEPT !.at = IF seen = Whole THEN "idle" ELSE "partial"])
    /\ IF r = "restore"
       THEN /\ tree' = loaded
            /\ moved' = FALSE
            /\ phase' = "idle"
            /\ IF writer = "files"
               THEN /\ temp' = [Snapshot(temp.vs) EXCEPT !.vs =
                          [d \in Dirs |-> IF d \in todo THEN tree[d] ELSE @[d]]]
                    /\ writer' = "stat"
                    /\ todo' = {}
               ELSE UNCHANGED writing
       ELSE UNCHANGED <<tree, moved, phase, writing>>

----------------------------------------------------------------------------
\* The process is killed: its memory and its own reader are gone, a copy in
\* progress stays cut and the temporary is orphaned under a name nobody is
\* offered.  The next process starts idle, with an empty tree.
Kill ==
    /\ faults < MaxFaults
    /\ faults' = faults + 1
    /\ tree' = NoFiles
    /\ moved' = FALSE
    /\ phase' = "idle"
    /\ IF writer = "fill" THEN CutCopy(disk') ELSE disk' = disk
    /\ writer' = "idle"
    /\ temp' = NoFile
    /\ todo' = {}
    /\ reader' = [r \in Readers |-> IF r = "restore" THEN Idle ELSE reader[r]]
    /\ UNCHANGED <<real, changes, past>>

Save ==
    \/ \E d \in Dirs : WriteDir(d)
    \/ SaveFails
    \/ StatLatest \/ RemovePrevious \/ RotateLatest
    \/ Promote \/ PromoteRefused
    \/ CopyOpen \/ CopyFill \/ CopyFails
    \/ Note
Load(r) ==
    \/ LookPrevious(r) \/ Open(r) \/ OpenFails(r)
    \/ ReadValue(r) \/ ReadFails(r) \/ ReadEnds(r)

Next ==
    \/ StartScan \/ Change \/ EndScan \/ BeginSave \/ Save \/ Kill
    \/ \E r \in Readers : LookLatest(r) \/ Load(r)

Spec == Init /\ [][Next]_vars

\* A goroutine that can run runs, and the clock of the Autosave ticks.
FairSpec ==
    /\ Spec
    /\ WF_vars(BeginSave)
    /\ WF_vars(Save)
    /\ \A r \in Readers : WF_vars(Load(r))

----------------------------------------------------------------------------
\* Every variable keeps its shape, and a save that is over, however it ended,
\* leaves neither a temporary nor directories to write.
TypeOK ==
    /\ real \in Trees /\ tree \in Trees
    /\ changes \in Changes /\ moved \in BOOLEAN
    /\ phase \in {"idle", "scan", "watching", "loading"}
    /\ disk \in [Names -> Content]
    /\ temp \in Content
    /\ writer \in {"idle", "files", "stat", "remove", "rotate", "promote",
                   "copy", "fill", "note"}
    /\ todo \subseteq Dirs
    /\ reader \in [Readers -> ReaderStates]
    /\ faults \in 0..MaxFaults
    /\ saved \in Content /\ inPlace \in BOOLEAN
    /\ todo # {} => writer = "files"
    /\ writer = "idle" => temp = NoFile

\* What GetLatestAutoSave finds once a save has succeeded, whatever step of the
\* rotation a later save was killed at or failed at, is whole and no older
\* than that save in any directory.  Only a copy in place gives this up.
Found == IF Sized("latest") THEN disk["latest"] ELSE disk["previous"]
FoundIsNewest ==
    /\ TypeOK
    /\ saved # NoFile /\ ~inPlace =>
          /\ Found.got = Whole
          /\ \A d \in Dirs : Found.vs[d] >= saved.vs[d]

\* A load that a save overtakes, at whatever step, adopts the whole of a
\* snapshot or nothing; only a copy in place can show it less.
LoadsWhole ==
    \A r \in Readers : reader[r].at = "partial" => inPlace

\* A change the Monitoramento records while no save is running is in a later
\* Autosave, also after saves that failed, unless the Monitoramento ends.  (A
\* change recorded during a save waits for the next change: Note.)
ChangeIsSaved ==
    \A v \in 1..MaxChanges :
        (phase = "watching" /\ writer = "idle" /\ moved /\ changes = v) ~>
            (phase # "watching" \/ \E d \in Dirs : saved.vs[d] >= v)

=============================================================================
