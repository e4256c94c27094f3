---------------------------- MODULE ProcessProofs ------------------------------
(* What a process leaves on disk, and who finds it.                          *)
(*                                                                           *)
(* Snapshots, for any number of directories, changes, kills and failed       *)
(* writes, with the restore handler, an MCP process, both or neither         *)
(* reading: as long as no file has been rewritten in place, the newest       *)
(* Autosave found on disk is whole and no older than the last save that      *)
(* succeeded, and a load adopts the whole of a snapshot or nothing.          *)
(* That a save is no older than the one before it needs an order of all the  *)
(* trees there are, in memory, on disk and in the hands of a reader: none    *)
(* is newer than the disk that was scanned, and the tree is up to that disk  *)
(* whenever a save may begin.  That a save is found at each step of the      *)
(* rotation needs to know which of the two names carries it there.           *)
(*                                                                           *)
(* Lifecycle, for any number of processes and of windows: sseCount           *)
(* never counts a window that is not there, and counts every one of them     *)
(* until a beacon is handled; and whoever serves can be found through        *)
(* instance.json as long as no instance had to take a free port.  The first  *)
(* needs to know that a connection that is open, or gone and not yet         *)
(* noticed, and a beacon on its way, belong to a process; the second that    *)
(* there is then one port only, hence one listener, so that nobody else is   *)
(* removing the file of the one that serves.                                 *)
EXTENDS Lifecycle, Snapshots, FiniteSetTheorems, TLAPS

\* a is nowhere older than b.
Newer(a, b) == \A d \in Dirs : a[d] >= b[d]

\* Nothing is newer than the disk that was scanned.
Ordered ==
    /\ \A d \in Dirs : real[d] <= changes
    /\ Newer(real, tree) /\ Newer(real, temp.vs) /\ Newer(real, saved.vs)
    /\ \A n \in Names : Newer(real, disk[n].vs)
    /\ \A r \in Readers : Newer(real, reader[r].lost.vs)

\* While something looks at the disk the tree is up to it; and a save, whatever
\* becomes of the phase meanwhile, writes nothing older than the save before.
Current ==
    /\ phase \in {"scan", "watching"} => tree = real
    /\ \A d \in todo : tree[d] >= saved.vs[d]
    /\ writer # "idle" => \A d \in Dirs \ todo : temp.vs[d] >= saved.vs[d]

\* Where the save is, in its temporary and in the rotation of the two names.
Rotating ==
    /\ writer # "idle" => ~temp.mid
    /\ writer \notin {"idle", "files"} => temp.got = Whole
    /\ writer \in {"remove", "rotate"} => Exists("latest")
    /\ writer = "fill" => inPlace /\ disk["latest"].got = 0
    /\ writer = "note" => disk["latest"] = temp

\* A reader has seen no more than there is; before it opens a file, nothing.
Reading ==
    \A r \in Readers :
        /\ reader[r].at = "read" => reader[r].seen <= Text(r).got
        /\ reader[r].at # "read" => reader[r].seen = 0 /\ reader[r].lost = NoFile

\* Until a file is rewritten in place there are only whole files, and nobody has
\* one rewritten under it.
Intact ==
    ~inPlace =>
        /\ \A n \in Names : Exists(n) => disk[n].got = Whole /\ ~disk[n].mid
        /\ \A r \in Readers : reader[r].lost = NoFile /\ reader[r].at # "partial"

\* What is found on disk is the last save or a newer one.
Kept ==
    saved # NoFile /\ ~inPlace => Found.got = Whole /\ Newer(Found.vs, saved.vs)

IInv == TypeOK /\ Ordered /\ Current /\ Rotating /\ Reading /\ Intact /\ Kept

----------------------------------------------------------------------------
\* Files, trees and readers, as the steps make them.

LEMMA Trees0 == NoFiles \in Trees /\ \A d \in Dirs : NoFiles[d] = 0
  BY SnapshotsAssumption DEF NoFiles, Trees, Changes

LEMMA TreeEntry == ASSUME NEW t \in Trees, NEW d \in Dirs PROVE t[d] \in Nat
  BY SnapshotsAssumption DEF Trees, Changes

LEMMA TreeKept ==
  ASSUME NEW t \in Trees, NEW d \in Dirs, NEW v \in Changes
  PROVE  [t EXCEPT ![d] = v] \in Trees
  BY DEF Trees

LEMMA ContentHas ==
  ASSUME NEW x \in Content
  PROVE  x.vs \in Trees /\ x.got \in 0..Whole /\ x.mid \in BOOLEAN
  BY DEF Content

LEMMA ContentMade ==
  ASSUME NEW vs \in Trees, NEW got \in 0..Whole, NEW mid \in BOOLEAN
  PROVE  [vs |-> vs, got |-> got, mid |-> mid] \in Content
  BY DEF Content

LEMMA NoFileHas ==
  /\ NoFile \in Content
  /\ NoFile.vs = NoFiles /\ NoFile.got = 0 /\ NoFile.mid = TRUE
<1>1. NoFile \in Content
  <2>1. 0 \in 0..Whole /\ TRUE \in BOOLEAN
    BY DEF Whole
  <2> QED
    BY <2>1, Trees0, ContentMade, Zenon DEF NoFile
<1> QED
  BY <1>1 DEF NoFile

\* A snapshot with one more directory.
Extended(x, d, v, got) == [x EXCEPT !.vs[d] = v, !.got = got]

LEMMA ContentExtended ==
  ASSUME NEW x \in Content, NEW d \in Dirs, NEW v \in Changes, NEW got \in 0..Whole
  PROVE  LET y == Extended(x, d, v, got) IN
         /\ y \in Content /\ y.got = got /\ y.mid = x.mid
         /\ \A e \in Dirs : y.vs[e] = IF e = d THEN v ELSE x.vs[e]
<1> DEFINE y == Extended(x, d, v, got)
<1> DEFINE t == [x.vs EXCEPT ![d] = v]
<1>1. t \in Trees
  BY ContentHas, TreeKept
<1>2. y = [x EXCEPT !.vs = t, !.got = got]
  BY DEF Content, Extended
<1> HIDE DEF t, y
<1>3. y \in Content /\ y.vs = t /\ y.got = got /\ y.mid = x.mid
  BY <1>1, <1>2 DEF Content
<1>4. \A e \in Dirs : t[e] = IF e = d THEN v ELSE x.vs[e]
  BY ContentHas DEF t, Trees
<1> QED
  BY <1>3, <1>4 DEF y

LEMMA ReaderHas ==
  ASSUME NEW x \in ReaderStates
  PROVE  /\ x.at \in Ended \cup {"second", "open", "read"} /\ x.file \in Names
         /\ x.seen \in 0..Whole /\ x.lost \in Content
  BY DEF ReaderStates

LEMMA ReaderMade ==
  ASSUME NEW a \in Ended \cup {"second", "open", "read"}, NEW f \in Names,
         NEW seen \in 0..Whole, NEW lost \in Content
  PROVE  [at |-> a, file |-> f, seen |-> seen, lost |-> lost] \in ReaderStates
  BY DEF ReaderStates

LEMMA IdleHas ==
  /\ Idle \in ReaderStates
  /\ Idle.at = "idle" /\ Idle.seen = 0 /\ Idle.lost = NoFile
<1>1. Idle \in ReaderStates
  <2>1. "idle" \in Ended /\ "latest" \in Names /\ 0 \in 0..Whole
    BY DEF Ended, Names, Whole
  <2> QED
    BY <2>1, NoFileHas, ReaderMade DEF Idle
<1> QED
  BY <1>1 DEF Idle

\* A reader that looks for a file: it has seen nothing yet.
LEMMA LookingHas ==
  ASSUME NEW a \in Ended \cup {"second", "open", "read"}
  PROVE  /\ [Idle EXCEPT !.at = a] \in ReaderStates
         /\ [Idle EXCEPT !.at = a].at = a
         /\ [Idle EXCEPT !.at = a].seen = 0
         /\ [Idle EXCEPT !.at = a].lost = NoFile
         /\ \A f \in Names :
              /\ [Idle EXCEPT !.at = a, !.file = f] \in ReaderStates
              /\ [Idle EXCEPT !.at = a, !.file = f].at = a
              /\ [Idle EXCEPT !.at = a, !.file = f].seen = 0
              /\ [Idle EXCEPT !.at = a, !.file = f].lost = NoFile
<1>1. /\ [Idle EXCEPT !.at = a] \in ReaderStates
      /\ [Idle EXCEPT !.at = a].at = a
      /\ [Idle EXCEPT !.at = a].seen = Idle.seen
      /\ [Idle EXCEPT !.at = a].lost = Idle.lost
  BY IdleHas DEF ReaderStates
<1>2. ASSUME NEW f \in Names
      PROVE  /\ [Idle EXCEPT !.at = a, !.file = f] \in ReaderStates
             /\ [Idle EXCEPT !.at = a, !.file = f].at = a
             /\ [Idle EXCEPT !.at = a, !.file = f].seen = Idle.seen
             /\ [Idle EXCEPT !.at = a, !.file = f].lost = Idle.lost
  BY IdleHas DEF ReaderStates
<1> QED
  BY <1>1, <1>2, IdleHas

\* A reader that opens its file, or reads one more value of it.
LEMMA ReaderSet ==
  ASSUME NEW x \in ReaderStates
  PROVE  /\ LET y == [x EXCEPT !.at = "read"] IN
            /\ y \in ReaderStates
            /\ y.at = "read" /\ y.file = x.file /\ y.seen = x.seen /\ y.lost = x.lost
         /\ x.seen < Whole =>
            LET y == [x EXCEPT !.seen = x.seen + 1] IN
            /\ y \in ReaderStates
            /\ y.at = x.at /\ y.file = x.file /\ y.seen = x.seen + 1 /\ y.lost = x.lost
<1>1. PICK a \in Ended \cup {"second", "open", "read"}, f \in Names, s \in 0..Whole,
           l \in Content : x = [at |-> a, file |-> f, seen |-> s, lost |-> l]
  BY DEF ReaderStates
<1>2. LET y == [x EXCEPT !.at = "read"] IN
      /\ y \in ReaderStates
      /\ y.at = "read" /\ y.file = x.file /\ y.seen = x.seen /\ y.lost = x.lost
  <2>1. [x EXCEPT !.at = "read"] = [at |-> "read", file |-> f, seen |-> s, lost |-> l]
    BY <1>1
  <2>2. [at |-> "read", file |-> f, seen |-> s, lost |-> l] \in ReaderStates
    BY ReaderMade
  <2> QED
    BY <1>1, <2>1, <2>2
<1>3. ASSUME x.seen < Whole
      PROVE  LET y == [x EXCEPT !.seen = x.seen + 1] IN
             /\ y \in ReaderStates
             /\ y.at = x.at /\ y.file = x.file /\ y.seen = x.seen + 1 /\ y.lost = x.lost
  <2>1. [x EXCEPT !.seen = x.seen + 1] = [at |-> a, file |-> f, seen |-> s + 1, lost |-> l]
    BY <1>1
  <2>2. s + 1 \in 0..Whole
    BY <1>1, <1>3 DEF Whole
  <2>3. [at |-> a, file |-> f, seen |-> s + 1, lost |-> l] \in ReaderStates
    BY <2>2, ReaderMade
  <2> QED
    BY <1>1, <2>1, <2>3
<1> QED
  BY <1>2, <1>3

----------------------------------------------------------------------------
\* The order of trees.

LEMMA NewerSelf == ASSUME NEW a \in Trees PROVE Newer(a, a)
  BY TreeEntry DEF Newer

LEMMA NewerTrans ==
  ASSUME NEW a \in Trees, NEW b \in Trees, NEW c \in Trees, Newer(a, b), Newer(b, c)
  PROVE  Newer(a, c)
<1> SUFFICES ASSUME NEW d \in Dirs PROVE a[d] >= c[d]
  BY DEF Newer
<1>1. a[d] \in Nat /\ b[d] \in Nat /\ c[d] \in Nat
  BY TreeEntry
<1> QED
  BY <1>1 DEF Newer

LEMMA NewerThanNone ==
  ASSUME NEW a \in Trees
  PROVE  Newer(a, NoFiles) /\ Newer(a, NoFile.vs)
  BY TreeEntry, Trees0, NoFileHas DEF Newer

----------------------------------------------------------------------------
\* The steps of a reader.

LEMMA ReadStepEffect ==
  ASSUME TypeOK, NEW r \in Readers, NEW from, NEW to \in ReaderStates, ReadStep(r, from, to)
  PROVE  /\ UNCHANGED <<real, changes, disk, faults, saved, inPlace>>
         /\ reader' \in [Readers -> ReaderStates]
         /\ reader'[r] = to
         /\ \A q \in Readers \ {r} : reader'[q] = reader[q]
         /\ reader[r].at = from
  BY DEF TypeOK, ReadStep, past

\* What a reader may become: it goes on, or is done, with what it has seen of the
\* file it is reading.
Onward(r) ==
    /\ UNCHANGED <<real, changes, disk, faults, saved, inPlace>>
    /\ reader' \in [Readers -> ReaderStates]
    /\ \A q \in Readers \ {r} : reader'[q] = reader[q]
    /\ reader'[r].lost = NoFile \/ reader'[r].lost = reader[r].lost
    /\ reader'[r].at = "read" => reader'[r].seen <= Text(r)'.got
    /\ reader'[r].at # "read" => reader'[r].seen = 0 /\ reader'[r].lost = NoFile
    /\ ~inPlace => reader'[r].lost = NoFile /\ reader'[r].at # "partial"

\* A step to a state where nothing has been seen yet.
LEMMA AfreshOnward ==
  ASSUME TypeOK, NEW r \in Readers, NEW from, NEW to \in ReaderStates, ReadStep(r, from, to),
         to.at # "read", to.seen = 0, to.lost = NoFile, ~inPlace => to.at # "partial"
  PROVE  Onward(r)
  BY ReadStepEffect DEF Onward

LEMMA LookOnward ==
  ASSUME TypeOK, NEW r \in Readers, LookLatest(r) \/ LookPrevious(r)
  PROVE  Onward(r) /\ UNCHANGED <<tree, writing>> /\ phase' \in {phase, "loading"}
                   /\ moved' = moved
<1>1. {"second", "open"} \subseteq Ended \cup {"second", "open", "read"}
      /\ "previous" \in Names
  BY DEF Names
<1>2. CASE LookLatest(r)
  <2>1. \E from \in Ended :
          \/ ReadStep(r, from, [Idle EXCEPT !.at = "open"])
          \/ ReadStep(r, from, [Idle EXCEPT !.at = "second"])
    BY <1>2 DEF LookLatest
  <2>2. Onward(r)
    BY <1>1, <2>1, LookingHas, AfreshOnward
  <2> QED
    BY <1>2, <2>2 DEF LookLatest, Loading
<1>3. CASE LookPrevious(r)
  <2>1. \/ ReadStep(r, "second", [Idle EXCEPT !.at = "open", !.file = "previous"])
        \/ ReadStep(r, "second", Idle)
    BY <1>3 DEF LookPrevious
  <2>2. Onward(r)
    BY <1>1, <2>1, LookingHas, IdleHas, AfreshOnward, ZenonT(40)
  <2> QED
    BY <1>3, <2>2 DEF LookPrevious, Loading
<1> QED
  BY <1>2, <1>3

LEMMA RefuseOnward ==
  ASSUME TypeOK, NEW r \in Readers, OpenFails(r) \/ ReadFails(r)
  PROVE  Onward(r) /\ UNCHANGED <<tree, writing>> /\ phase' \in {phase, "idle"}
                   /\ moved' = moved
<1>1. PICK from : Refuse(r, from)
  BY DEF OpenFails, ReadFails
<1>2. Onward(r)
  BY <1>1, IdleHas, AfreshOnward DEF Refuse
<1> QED
  BY <1>1, <1>2 DEF Refuse

LEMMA OpenOnward ==
  ASSUME TypeOK, Reading, NEW r \in Readers, Open(r)
  PROVE  Onward(r) /\ UNCHANGED <<tree, writing, phase, moved>>
<1> DEFINE to == [reader[r] EXCEPT !.at = "read"]
<1>0. reader[r] \in ReaderStates /\ disk \in [Names -> Content]
  BY DEF TypeOK
<1>1. /\ to \in ReaderStates
      /\ to.at = "read" /\ to.file = reader[r].file /\ to.seen = reader[r].seen
      /\ to.lost = reader[r].lost
  BY <1>0, ReaderSet
<1>2. ReadStep(r, "open", to) /\ UNCHANGED <<tree, writing, phase, moved>>
  BY DEF Open
<1> HIDE DEF to
<1>3. reader[r].at = "open" /\ reader'[r] = to /\ disk' = disk
  BY <1>1, <1>2, ReadStepEffect
<1>4. to.seen = 0 /\ to.lost = NoFile
  BY <1>1, <1>3 DEF Reading
<1>5. Text(r)' = disk[to.file]
  BY <1>3, <1>4 DEF Text, Rewritten
<1>6. disk[to.file].got \in 0..Whole
  BY <1>0, <1>1, ReaderHas, ContentHas
<1>7. 0 <= Text(r)'.got
  BY <1>5, <1>6 DEF Whole
<1> QED
  BY <1>1, <1>2, <1>3, <1>4, <1>7, ReadStepEffect DEF Onward

LEMMA ReadValueOnward ==
  ASSUME TypeOK, Reading, Intact, NEW r \in Readers, ReadValue(r)
  PROVE  Onward(r) /\ UNCHANGED <<tree, writing, phase, moved>>
<1> DEFINE to == [reader[r] EXCEPT !.seen = reader[r].seen + 1]
<1>0. reader[r] \in ReaderStates /\ disk \in [Names -> Content]
  BY DEF TypeOK
<1>1. reader[r].at = "read" /\ reader[r].seen # Text(r).got
  BY DEF ReadValue, ReadStep, AtEnd
<1>2. Text(r) \in Content
  BY <1>0, ReaderHas DEF Text
<1>3. Text(r).got \in 0..Whole /\ reader[r].seen \in 0..Whole
  BY <1>0, <1>2, ReaderHas, ContentHas
<1>4. reader[r].seen < Whole /\ reader[r].seen + 1 <= Text(r).got
  BY <1>1, <1>3 DEF Reading, Whole
<1>5. /\ to \in ReaderStates
      /\ to.at = "read" /\ to.file = reader[r].file /\ to.seen = reader[r].seen + 1
      /\ to.lost = reader[r].lost
  BY <1>0, <1>1, <1>4, ReaderSet
<1>6. ReadStep(r, "read", to) /\ UNCHANGED <<tree, writing, phase, moved>>
  BY DEF ReadValue
<1> HIDE DEF to
<1>7. reader'[r] = to /\ disk' = disk
  BY <1>5, <1>6, ReadStepEffect
<1>8. Text(r)' = Text(r)
  BY <1>5, <1>7 DEF Text, Rewritten
<1>9. ~inPlace => to.lost = NoFile
  BY <1>5 DEF Intact
<1> QED
  BY <1>4, <1>5, <1>6, <1>7, <1>8, <1>9, ReadStepEffect DEF Onward

\* A load that ends has seen the whole of a file, unless one was rewritten.
LEMMA ReadEndsOnward ==
  ASSUME TypeOK, Reading, Intact, NEW r \in Readers, ReadEnds(r)
  PROVE  Onward(r)
<1> DEFINE a == IF reader[r].seen = Whole THEN "idle" ELSE "partial"
<1>0. reader[r] \in ReaderStates /\ disk \in [Names -> Content]
  BY DEF TypeOK
<1>1. /\ reader[r].seen > 0
      /\ Rewritten(r) \/ (AtEnd(r) /\ ~Text(r).mid)
      /\ ReadStep(r, "read", [Idle EXCEPT !.at = a])
  BY DEF ReadEnds
<1>2. a \in Ended
  BY DEF Ended
<1>3. ASSUME ~inPlace PROVE a = "idle"
  <2>1. ~Rewritten(r) /\ Text(r) = disk[reader[r].file]
    BY <1>3 DEF Intact, Rewritten, Text
  <2>2. reader[r].seen = disk[reader[r].file].got
    BY <1>1, <2>1 DEF AtEnd
  <2>3. reader[r].file \in Names
    BY <1>0, ReaderHas
  <2>4. disk[reader[r].file] # NoFile
    BY <1>1, <2>2, NoFileHas
  <2>5. disk[reader[r].file].got = Whole
    BY <1>3, <2>3, <2>4 DEF Intact, Exists
  <2> QED
    BY <2>2, <2>5
<1> HIDE DEF a
<1>4. /\ [Idle EXCEPT !.at = a] \in ReaderStates
      /\ [Idle EXCEPT !.at = a].at = a /\ [Idle EXCEPT !.at = a].seen = 0
      /\ [Idle EXCEPT !.at = a].lost = NoFile
  BY <1>2, LookingHas
<1>5. a # "read"
  BY <1>2 DEF Ended
<1> QED
  BY <1>1, <1>3, <1>4, <1>5, AfreshOnward

\* Whatever a reader does, the readers are as they should be.
LEMMA OnwardKeepsReaders ==
  ASSUME IInv, NEW r \in Readers, Onward(r)
  PROVE  Reading' /\ Intact' /\ Kept' /\ (\A q \in Readers : Newer(real, reader[q].lost.vs)')
<1>0. TypeOK /\ Ordered /\ Reading /\ Intact /\ Kept
  BY DEF IInv
<1>1. /\ UNCHANGED <<real, disk, saved, inPlace>>
      /\ \A q \in Readers \ {r} : reader'[q] = reader[q]
      /\ reader'[r].lost = NoFile \/ reader'[r].lost = reader[r].lost
  BY DEF Onward
<1>2. Reading'
  <2>1. \A q \in Readers \ {r} : Text(q)' = Text(q)
    BY <1>1 DEF Text, Rewritten
  <2> QED
    BY <1>0, <1>1, <2>1 DEF Reading, Onward
<1>3. Intact'
  BY <1>0, <1>1 DEF Intact, Exists, Onward
<1>4. Kept'
  BY <1>0, <1>1 DEF Kept, Found, Sized, Exists, Newer
<1>5. ASSUME NEW q \in Readers PROVE Newer(real, reader[q].lost.vs)'
  <2>1. Newer(real, NoFile.vs) /\ Newer(real, reader[q].lost.vs)
    BY <1>0, NewerThanNone DEF TypeOK, Ordered
  <2> QED
    BY <1>1, <2>1 DEF Newer
<1> QED
  BY <1>2, <1>3, <1>4, <1>5

LEMMA OnwardKeeps ==
  ASSUME IInv, NEW r \in Readers, Onward(r), UNCHANGED <<tree, moved, writing>>,
         phase' \in {phase, "loading", "idle"}
  PROVE  IInv'
<1>0. TypeOK /\ Ordered /\ Current /\ Rotating
  BY DEF IInv
<1>1. UNCHANGED <<real, tree, changes, moved, disk, temp, writer, todo, faults, saved, inPlace>>
      /\ reader' \in [Readers -> ReaderStates]
  BY DEF Onward, writing
<1>2. TypeOK'
  BY <1>0, <1>1 DEF TypeOK
<1>3. Reading' /\ Intact' /\ Kept' /\ (\A q \in Readers : Newer(real, reader[q].lost.vs)')
  BY OnwardKeepsReaders
<1>4. Ordered'
  BY <1>0, <1>1, <1>3 DEF Ordered, Newer
<1>5. Current'
  BY <1>0, <1>1 DEF Current
<1>6. Rotating'
  BY <1>0, <1>1 DEF Rotating, Exists
<1> QED
  BY <1>2, <1>3, <1>4, <1>5, <1>6 DEF IInv

\* The tree a load brings is no newer than the disk; the save it meets is finished
\* with the tree it took.
LEMMA ReadEndsKeeps ==
  ASSUME IInv, NEW r \in Readers, ReadEnds(r)
  PROVE  IInv'
<1> DEFINE loaded == IF reader[r].seen >= Files THEN Text(r).vs ELSE NoFiles
           rest == [d \in Dirs |-> IF d \in todo THEN tree[d] ELSE temp.vs[d]]
<1>0. TypeOK /\ Ordered /\ Current /\ Rotating /\ Reading /\ Intact
  BY DEF IInv
<1>1. Onward(r)
  BY <1>0, ReadEndsOnward
<1>2. CASE r # "restore"
  <2>1. UNCHANGED <<tree, moved, phase, writing>>
    BY <1>2 DEF ReadEnds
  <2> QED
    BY <1>1, <2>1, OnwardKeeps
<1>3. CASE r = "restore"
  <2>1. tree' = loaded /\ moved' = FALSE /\ phase' = "idle"
    BY <1>3 DEF ReadEnds
  <2>2. \/ writer = "files" /\ writer' = "stat" /\ todo' = {}
           /\ temp' = [Snapshot(temp.vs) EXCEPT !.vs = rest]
        \/ writer # "files" /\ UNCHANGED writing
    <3>1. [Snapshot(temp.vs) EXCEPT !.vs = [d \in Dirs |-> IF d \in todo THEN tree[d] ELSE @[d]]]
            = [Snapshot(temp.vs) EXCEPT !.vs = rest]
      BY DEF Snapshot
    <3> QED
      BY <1>3, <3>1 DEF ReadEnds
  <2>3. /\ real \in Trees /\ tree \in Trees /\ temp \in Content /\ saved \in Content
        /\ disk \in [Names -> Content] /\ reader[r] \in ReaderStates
    BY <1>0 DEF TypeOK
  <2>4. Text(r) \in Content /\ Newer(real, Text(r).vs)
    BY <1>0, <2>3, ReaderHas DEF Text, Ordered
  <2>5. loaded \in Trees /\ Newer(real, loaded)
    BY <2>3, <2>4, ContentHas, Trees0, NewerThanNone
  <2>6. rest \in Trees
    BY <2>3, ContentHas DEF Trees
  <2>7. \A d \in Dirs : rest[d] = IF d \in todo THEN tree[d] ELSE temp.vs[d]
    OBVIOUS
  <2> HIDE DEF loaded, rest
  <2>8. Newer(real, rest)
    BY <1>0, <2>7 DEF Ordered, Newer
  <2>9. /\ temp' \in Content /\ Newer(real, temp'.vs)
         /\ todo' \subseteq Dirs /\ (todo' # {} => writer' = "files")
         /\ (writer' = "idle" => temp' = NoFile)
         /\ (writer # "files" => UNCHANGED <<temp, writer, todo>>)
         /\ (writer = "files" => /\ temp'.vs = rest /\ temp'.got = Whole /\ ~temp'.mid
                                 /\ writer' = "stat" /\ todo' = {})
    <3>1. CASE writer = "files"
      <4>1. temp' = [vs |-> rest, got |-> Whole, mid |-> FALSE]
        BY <2>2, <3>1 DEF Snapshot
      <4>2. Whole \in 0..Whole /\ FALSE \in BOOLEAN
        BY DEF Whole
      <4>3. temp' \in Content /\ temp'.vs = rest /\ temp'.got = Whole /\ temp'.mid = FALSE
        BY <2>6, <4>1, <4>2, ContentMade
      <4> QED
        BY <2>2, <2>8, <3>1, <4>3
    <3>2. CASE writer # "files"
      <4>1. UNCHANGED <<temp, writer, todo>>
        BY <2>2, <3>2 DEF writing
      <4> QED
        BY <1>0, <3>2, <4>1 DEF TypeOK, Ordered
    <3> QED
      BY <3>1, <3>2
  <2>10. UNCHANGED <<real, changes, disk, faults, saved, inPlace>>
         /\ reader' \in [Readers -> ReaderStates]
    BY <1>1 DEF Onward
  <2>11. writer' \in {writer, "stat"}
    BY <2>9
  <2>12. TypeOK'
    BY <1>0, <2>1, <2>5, <2>9, <2>10, <2>11 DEF TypeOK
  <2>13. Reading' /\ Intact' /\ Kept'
         /\ (\A q \in Readers : Newer(real, reader[q].lost.vs)')
    BY <1>1, OnwardKeepsReaders
  <2>14. Ordered'
    BY <1>0, <2>1, <2>5, <2>9, <2>10, <2>13 DEF Ordered, Newer
  <2>15. Current'
    <3>1. CASE writer = "files"
      <4>1. \A d \in Dirs : rest[d] >= saved.vs[d]
        BY <1>0, <2>7, <3>1 DEF Current
      <4> QED
        BY <2>1, <2>9, <2>10, <3>1, <4>1 DEF Current
    <3>2. CASE writer # "files"
      <4>1. todo = {}
        BY <1>0, <3>2 DEF TypeOK
      <4> QED
        BY <1>0, <2>1, <2>9, <2>10, <3>2, <4>1 DEF Current
    <3> QED
      BY <3>1, <3>2
  <2>16. Rotating'
    BY <1>0, <2>9, <2>10 DEF Rotating, Exists
  <2> QED
    BY <2>12, <2>13, <2>14, <2>15, <2>16 DEF IInv
<1> QED
  BY <1>2, <1>3

LEMMA LoadKeeps ==
  ASSUME IInv, NEW r \in Readers, LookLatest(r) \/ Load(r)
  PROVE  IInv'
<1>0. TypeOK /\ Reading /\ Intact
  BY DEF IInv
<1>1. CASE LookLatest(r) \/ LookPrevious(r)
  BY <1>0, <1>1, LookOnward, OnwardKeeps
<1>2. CASE OpenFails(r) \/ ReadFails(r)
  BY <1>0, <1>2, RefuseOnward, OnwardKeeps
<1>3. CASE Open(r)
  BY <1>0, <1>3, OpenOnward, OnwardKeeps
<1>4. CASE ReadValue(r)
  BY <1>0, <1>4, ReadValueOnward, OnwardKeeps
<1>5. CASE ReadEnds(r)
  BY <1>5, ReadEndsKeeps
<1> QED
  BY <1>1, <1>2, <1>3, <1>4, <1>5 DEF Load

----------------------------------------------------------------------------
\* The tree, the phase, and the beginning of a save.

\* The files and the readers stay as they are.
LEMMA DiskAlone ==
  ASSUME IInv, UNCHANGED <<disk, reader, saved, inPlace>>
  PROVE  Reading' /\ Intact' /\ Kept'
  BY DEF IInv, Reading, Text, Rewritten, Intact, Exists, Kept, Found, Sized, Newer

LEMMA StartScanKeeps == ASSUME IInv, StartScan PROVE IInv'
<1>0. TypeOK /\ Ordered /\ Current /\ Rotating
  BY DEF IInv
<1>1. /\ UNCHANGED <<real, changes, disk, temp, writer, todo, reader, faults, saved, inPlace>>
      /\ phase' = "scan" /\ tree' = real /\ moved' = TRUE
  BY DEF StartScan, writing, past
<1>2. TypeOK'
  BY <1>0, <1>1 DEF TypeOK
<1>3. Ordered'
  <2>1. Newer(real, real)
    BY <1>0, NewerSelf DEF TypeOK
  <2> QED
    BY <1>0, <1>1, <2>1 DEF Ordered, Newer
<1>4. Current'
  <2>1. \A d \in todo : real[d] >= saved.vs[d]
    BY <1>0 DEF TypeOK, Ordered, Newer
  <2> QED
    BY <1>0, <1>1, <2>1 DEF Current
<1>5. Rotating'
  BY <1>0, <1>1 DEF Rotating, Exists
<1> QED
  BY <1>1, <1>2, <1>3, <1>4, <1>5, DiskAlone DEF IInv

LEMMA ChangeKeeps == ASSUME IInv, Change PROVE IInv'
<1>0. TypeOK /\ Ordered /\ Current /\ Rotating
  BY DEF IInv
<1>1. /\ UNCHANGED <<phase, disk, temp, writer, todo, reader, faults, saved, inPlace>>
      /\ changes < MaxChanges /\ changes' = changes + 1
  BY DEF Change, writing, past
<1>2. PICK e \in Dirs :
        /\ real' = [real EXCEPT ![e] = changes + 1]
        /\ \/ tree' = tree /\ moved' = moved /\ phase \notin {"scan", "watching"}
           \/ tree' = [tree EXCEPT ![e] = changes + 1] /\ moved' = TRUE
              /\ phase \in {"scan", "watching"}
  BY DEF Change
<1>3. changes \in Nat /\ changes + 1 \in Changes /\ real \in Trees /\ tree \in Trees
  BY <1>0, <1>1, SnapshotsAssumption DEF TypeOK, Changes
<1>4. real' \in Trees /\ tree' \in Trees
  BY <1>2, <1>3, TreeKept
<1>5. TypeOK'
  BY <1>0, <1>1, <1>2, <1>3, <1>4 DEF TypeOK
<1>6. /\ \A d \in Dirs : real'[d] = IF d = e THEN changes + 1 ELSE real[d]
      /\ \A d \in Dirs : tree'[d] = tree[d] \/ (d = e /\ tree'[d] = changes + 1)
  BY <1>2, <1>3 DEF Trees
<1>7. Newer(real', real)
  <2> SUFFICES ASSUME NEW d \in Dirs PROVE real'[d] >= real[d]
    BY DEF Newer
  <2>1. real[d] \in Nat /\ real[d] <= changes
    BY <1>0, <1>3, TreeEntry DEF Ordered
  <2> QED
    BY <1>3, <1>6, <2>1
<1>8. ASSUME NEW t \in Trees, Newer(real, t)
      PROVE  Newer(real', t)
  BY <1>3, <1>4, <1>7, <1>8, NewerTrans
<1>9. Ordered'
  <2>1. \A d \in Dirs : real'[d] <= changes'
    <3> SUFFICES ASSUME NEW d \in Dirs PROVE real'[d] <= changes'
      OBVIOUS
    <3>1. real[d] \in Nat /\ real[d] <= changes
      BY <1>0, <1>3, TreeEntry DEF Ordered
    <3> QED
      BY <1>1, <1>3, <1>6, <3>1
  <2>2. Newer(real', tree')
    <3> SUFFICES ASSUME NEW d \in Dirs PROVE real'[d] >= tree'[d]
      BY DEF Newer
    <3>1. real'[d] >= tree[d]
      BY <1>0, <1>3, <1>8 DEF Ordered, Newer
    <3> QED
      BY <1>3, <1>6, <3>1
  <2>3. Newer(real', temp.vs) /\ Newer(real', saved.vs)
    BY <1>0, <1>8, ContentHas DEF TypeOK, Ordered
  <2>4. \A n \in Names : Newer(real', disk[n].vs)
    BY <1>0, <1>8, ContentHas DEF TypeOK, Ordered
  <2>5. \A r \in Readers : Newer(real', reader[r].lost.vs)
    <3> SUFFICES ASSUME NEW r \in Readers PROVE Newer(real', reader[r].lost.vs)
      OBVIOUS
    <3>1. reader[r].lost.vs \in Trees
      BY <1>0, ReaderHas, ContentHas DEF TypeOK
    <3> QED
      BY <1>0, <1>8, <3>1 DEF Ordered
  <2> QED
    BY <1>1, <2>1, <2>2, <2>3, <2>4, <2>5 DEF Ordered, Newer
<1>10. Current'
  <2>1. phase \in {"scan", "watching"} => tree' = real'
    BY <1>0, <1>2 DEF Current
  <2>2. ASSUME NEW d \in todo PROVE tree'[d] >= saved.vs[d]
    <3>1. d \in Dirs /\ saved \in Content
      BY <1>0 DEF TypeOK
    <3>2. saved.vs[d] \in Nat /\ saved.vs[d] <= real[d] /\ real[d] <= changes /\ real[d] \in Nat
      BY <1>0, <1>3, <3>1, ContentHas, TreeEntry DEF Ordered, Newer
    <3>3. tree[d] >= saved.vs[d]
      BY <1>0, <2>2 DEF Current
    <3> QED
      BY <1>3, <1>6, <3>1, <3>2, <3>3
  <2> QED
    BY <1>0, <1>1, <2>1, <2>2 DEF Current
<1>11. Rotating'
  BY <1>0, <1>1 DEF Rotating, Exists
<1> QED
  BY <1>1, <1>5, <1>9, <1>10, <1>11, DiskAlone DEF IInv

LEMMA EndScanKeeps == ASSUME IInv, EndScan PROVE IInv'
<1>0. TypeOK /\ Ordered /\ Current /\ Rotating
  BY DEF IInv
<1>1. /\ UNCHANGED <<real, tree, changes, moved, disk, temp, writer, todo, reader, faults,
                     saved, inPlace>>
      /\ phase = "scan" /\ phase' \in {"watching", "idle"}
  BY DEF EndScan, writing, past
<1>2. TypeOK'
  BY <1>0, <1>1 DEF TypeOK
<1>3. Ordered' /\ Current' /\ Rotating'
  BY <1>0, <1>1 DEF Ordered, Newer, Current, Rotating, Exists
<1> QED
  BY <1>1, <1>2, <1>3, DiskAlone DEF IInv

\* A save begins when the tree is up to the disk.
LEMMA BeginSaveKeeps == ASSUME IInv, BeginSave PROVE IInv'
<1>0. TypeOK /\ Ordered /\ Current /\ Rotating
  BY DEF IInv
<1>1. /\ UNCHANGED <<real, tree, changes, moved, phase, disk, reader, faults, saved, inPlace>>
      /\ writer = "idle" /\ writer' = "files" /\ todo' = Dirs
      /\ temp' = [vs |-> NoFiles, got |-> Header, mid |-> FALSE]
  BY DEF BeginSave, varying, past
<1>2. phase \in {"scan", "watching"}
  BY DEF BeginSave, Due
<1>3. temp' \in Content /\ temp'.vs = NoFiles /\ temp'.mid = FALSE
  <2>1. Header \in 0..Whole /\ FALSE \in BOOLEAN
    BY DEF Header, Whole
  <2> QED
    BY <1>1, <2>1, Trees0, ContentMade
<1>4. TypeOK'
  BY <1>0, <1>1, <1>3 DEF TypeOK
<1>5. Ordered'
  <2>1. Newer(real, NoFiles)
    BY <1>0, NewerThanNone DEF TypeOK
  <2> QED
    BY <1>0, <1>1, <1>3, <2>1 DEF Ordered, Newer
<1>6. Current'
  <2>1. \A d \in Dirs : tree[d] >= saved.vs[d]
    BY <1>0, <1>2 DEF Current, Ordered, Newer
  <2> QED
    BY <1>0, <1>1, <2>1 DEF Current
<1>7. Rotating'
  BY <1>1, <1>3 DEF Rotating
<1> QED
  BY <1>1, <1>4, <1>5, <1>6, <1>7, DiskAlone DEF IInv

\* What a directory is written with is no older than what was saved of it.
LEMMA WriteDirKeeps == ASSUME IInv, NEW d \in Dirs, WriteDir(d) PROVE IInv'
<1> DEFINE got == IF todo = {d} THEN Whole ELSE Header
<1>0. TypeOK /\ Ordered /\ Current /\ Rotating
  BY DEF IInv
<1>1. /\ UNCHANGED <<real, tree, changes, moved, phase, disk, reader, faults, saved, inPlace>>
      /\ writer = "files" /\ d \in todo /\ todo' = todo \ {d}
      /\ temp' = [temp EXCEPT !.vs[d] = tree[d], !.got = got]
      /\ writer' = IF todo = {d} THEN "stat" ELSE "files"
  BY DEF WriteDir, varying, past
<1>2. got \in 0..Whole /\ tree[d] \in Changes /\ temp \in Content /\ tree \in Trees
  BY <1>0 DEF Whole, Header, TypeOK, Trees
<1>3. todo = {d} => got = Whole
  OBVIOUS
<1> HIDE DEF got
<1>4. temp' = Extended(temp, d, tree[d], got)
  BY <1>1 DEF Extended
<1>5. /\ temp' \in Content /\ temp'.got = got /\ temp'.mid = temp.mid
      /\ \A e \in Dirs : temp'.vs[e] = IF e = d THEN tree[d] ELSE temp.vs[e]
  BY <1>2, <1>4, ContentExtended
<1>6. TypeOK'
  <2>1. writer' \in {"stat", "files"} /\ todo' \subseteq Dirs
        /\ (todo' # {} => writer' = "files")
    BY <1>0, <1>1 DEF TypeOK
  <2> QED
    BY <1>0, <1>1, <1>5, <2>1 DEF TypeOK
<1>7. Ordered'
  <2>1. Newer(real, temp'.vs)
    BY <1>0, <1>5 DEF Ordered, Newer
  <2> QED
    BY <1>0, <1>1, <2>1 DEF Ordered, Newer
<1>8. Current'
  <2>1. \A e \in Dirs \ todo' : temp'.vs[e] >= saved.vs[e]
    BY <1>0, <1>1, <1>5 DEF Current
  <2> QED
    BY <1>0, <1>1, <2>1 DEF Current
<1>9. Rotating'
  BY <1>0, <1>1, <1>3, <1>5 DEF Rotating
<1> QED
  BY <1>1, <1>6, <1>7, <1>8, <1>9, DiskAlone DEF IInv

----------------------------------------------------------------------------
\* The end of a save that fails, and the process killed.

\* A save that is over leaves the baseline and the tree alone.
LEMMA WriterRests ==
  ASSUME IInv, writer' = "idle", temp' = NoFile, todo' = {},
         UNCHANGED <<real, changes, saved>>,
         tree' \in Trees, Newer(real, tree'),
         phase' \in {"scan", "watching"} => tree' = real,
         \A n \in Names : Newer(real, disk'[n].vs),
         \A r \in Readers : Newer(real, reader'[r].lost.vs)
  PROVE  Ordered' /\ Current' /\ Rotating'
<1>0. TypeOK /\ Ordered
  BY DEF IInv
<1>1. Newer(real, NoFile.vs)
  BY <1>0, NewerThanNone DEF TypeOK
<1> QED
  BY <1>0, <1>1 DEF Ordered, Newer, Current, Rotating

LEMMA SaveFailsKeeps == ASSUME IInv, SaveFails PROVE IInv'
<1>0. TypeOK /\ Ordered /\ Current
  BY DEF IInv
<1>1. /\ UNCHANGED <<real, tree, changes, moved, phase, disk, reader, saved, inPlace>>
      /\ faults < MaxFaults /\ faults' = faults + 1
      /\ writer' = "idle" /\ temp' = NoFile /\ todo' = {}
  BY DEF SaveFails, GiveUp, varying, past
<1>2. TypeOK'
  <2>1. faults' \in 0..MaxFaults
    BY <1>0, <1>1, SnapshotsAssumption DEF TypeOK
  <2> QED
    BY <1>0, <1>1, <2>1, NoFileHas DEF TypeOK
<1>3. Ordered' /\ Current' /\ Rotating'
  BY <1>0, <1>1, WriterRests DEF TypeOK, Ordered, Current
<1> QED
  BY <1>1, <1>2, <1>3, DiskAlone DEF IInv

\* A copy that is cut leaves a text of the tree it was writing.
LEMMA CutHas ==
  ASSUME TypeOK, NEW files, CutCopy(files)
  PROVE  /\ files \in [Names -> Content]
         /\ files["latest"].vs = temp.vs /\ files["previous"] = disk["previous"]
<1>1. PICK got \in 0..(Whole - 1), mid \in BOOLEAN :
        files = [disk EXCEPT !["latest"] = [vs |-> temp.vs, got |-> got, mid |-> mid]]
  BY DEF CutCopy
<1> DEFINE x == [vs |-> temp.vs, got |-> got, mid |-> mid]
<1>2. x \in Content /\ x.vs = temp.vs
  <2>1. got \in 0..Whole
    BY DEF Whole
  <2>2. temp.vs \in Trees
    BY ContentHas DEF TypeOK
  <2> QED
    BY <2>1, <2>2, ContentMade
<1> HIDE DEF x
<1>3. files = [disk EXCEPT !["latest"] = x]
  BY <1>1 DEF x
<1> QED
  BY <1>2, <1>3 DEF TypeOK, Names

\* Whoever reads latest while the copy that fills it is cut has seen nothing of it.
LEMMA CutReaders ==
  ASSUME TypeOK, Rotating, Reading, writer = "fill", CutCopy(disk'),
         NEW r \in Readers, reader'[r] = reader[r] \/ reader'[r] = Idle
  PROVE  /\ reader'[r].at = "read" => reader'[r].seen <= Text(r)'.got
         /\ reader'[r].at # "read" => reader'[r].seen = 0 /\ reader'[r].lost = NoFile
<1>1. CASE reader'[r] = Idle
  BY <1>1, IdleHas
<1>2. CASE reader'[r] = reader[r]
  <2>0. reader[r] \in ReaderStates
    BY DEF TypeOK
  <2>1. CASE reader[r].at # "read"
    BY <1>2, <2>1 DEF Reading
  <2>2. CASE reader[r].at = "read" /\ Rewritten(r)
    <3>1. Text(r)' = Text(r)
      BY <1>2, <2>2 DEF Text, Rewritten
    <3> QED
      BY <1>2, <2>2, <3>1 DEF Reading
  <2>3. CASE reader[r].at = "read" /\ ~Rewritten(r) /\ reader[r].file = "previous"
    <3>1. Text(r)' = Text(r)
      BY <1>2, <2>3, CutHas DEF Text, Rewritten
    <3> QED
      BY <1>2, <2>3, <3>1 DEF Reading
  <2>4. CASE reader[r].at = "read" /\ ~Rewritten(r) /\ reader[r].file = "latest"
    <3>1. Text(r) = disk["latest"] /\ Text(r)' = disk'["latest"]
      BY <1>2, <2>4 DEF Text, Rewritten
    <3>2. reader[r].seen <= 0
      BY <2>4, <3>1 DEF Reading, Rotating
    <3>3. disk'["latest"] \in Content
      BY CutHas DEF Names
    <3>4. disk'["latest"].got \in 0..Whole /\ reader[r].seen \in 0..Whole
      BY <2>0, <3>3, ContentHas, ReaderHas
    <3>5. reader[r].seen <= disk'["latest"].got
      BY <3>2, <3>4 DEF Whole
    <3> QED
      BY <1>2, <2>4, <3>1, <3>5
  <2> QED
    BY <2>0, <2>1, <2>2, <2>3, <2>4, ReaderHas DEF Names
<1> QED
  BY <1>1, <1>2

LEMMA CopyFailsKeeps == ASSUME IInv, CopyFails PROVE IInv'
<1>0. TypeOK /\ Ordered /\ Current /\ Rotating /\ Reading
  BY DEF IInv
<1>1. /\ UNCHANGED <<real, tree, changes, moved, phase, reader, saved, inPlace>>
      /\ faults < MaxFaults /\ faults' = faults + 1
      /\ writer' = "idle" /\ temp' = NoFile /\ todo' = {}
  BY DEF CopyFails, GiveUp, varying, past
<1>2. disk' = disk \/ (writer = "fill" /\ CutCopy(disk'))
  BY DEF CopyFails
<1>3. /\ disk' \in [Names -> Content]
      /\ \A n \in Names : Newer(real, disk'[n].vs)
  <2>1. CASE disk' = disk
    BY <1>0, <2>1 DEF TypeOK, Ordered
  <2>2. CASE CutCopy(disk')
    BY <1>0, <2>2, CutHas DEF Names, Ordered
  <2> QED
    BY <1>2, <2>1, <2>2
<1>4. TypeOK'
  <2>1. faults' \in 0..MaxFaults
    BY <1>0, <1>1, SnapshotsAssumption DEF TypeOK
  <2> QED
    BY <1>0, <1>1, <1>3, <2>1, NoFileHas DEF TypeOK
<1>5. Ordered' /\ Current' /\ Rotating'
  BY <1>0, <1>1, <1>3, WriterRests DEF TypeOK, Ordered, Current
<1>6. CASE disk' = disk
  BY <1>1, <1>4, <1>5, <1>6, DiskAlone DEF IInv
<1>7. CASE writer = "fill" /\ CutCopy(disk')
  <2>1. inPlace /\ inPlace'
    BY <1>0, <1>1, <1>7 DEF Rotating
  <2>2. Intact' /\ Kept'
    BY <2>1 DEF Intact, Kept
  <2>3. Reading'
    BY <1>0, <1>1, <1>7, CutReaders DEF Reading
  <2> QED
    BY <1>4, <1>5, <2>2, <2>3 DEF IInv
<1> QED
  BY <1>2, <1>6, <1>7

LEMMA KillKeeps == ASSUME IInv, Kill PROVE IInv'
<1>0. TypeOK /\ Ordered /\ Current /\ Rotating /\ Reading /\ Intact /\ Kept
  BY DEF IInv
<1>1. /\ UNCHANGED <<real, changes, saved, inPlace>>
      /\ faults < MaxFaults /\ faults' = faults + 1
      /\ tree' = NoFiles /\ moved' = FALSE /\ phase' = "idle"
      /\ writer' = "idle" /\ temp' = NoFile /\ todo' = {}
      /\ reader' = [r \in Readers |-> IF r = "restore" THEN Idle ELSE reader[r]]
  BY DEF Kill, past
<1>2. disk' = disk \/ (writer = "fill" /\ CutCopy(disk'))
  BY DEF Kill
<1>3. /\ disk' \in [Names -> Content]
      /\ \A n \in Names : Newer(real, disk'[n].vs)
  <2>1. CASE disk' = disk
    BY <1>0, <2>1 DEF TypeOK, Ordered
  <2>2. CASE CutCopy(disk')
    BY <1>0, <2>2, CutHas DEF Names, Ordered
  <2> QED
    BY <1>2, <2>1, <2>2
<1>4. reader' \in [Readers -> ReaderStates]
      /\ \A r \in Readers : reader'[r] = Idle \/ reader'[r] = reader[r]
  BY <1>0, <1>1, IdleHas DEF TypeOK
<1>5. TypeOK'
  <2>1. faults' \in 0..MaxFaults
    BY <1>0, <1>1, SnapshotsAssumption DEF TypeOK
  <2> QED
    BY <1>0, <1>1, <1>3, <1>4, <2>1, NoFileHas, Trees0 DEF TypeOK
<1>6. Ordered' /\ Current' /\ Rotating'
  <2>1. Newer(real, NoFiles) /\ Newer(real, NoFile.vs)
    BY <1>0, NewerThanNone DEF TypeOK
  <2>2. \A r \in Readers : Newer(real, reader'[r].lost.vs)
    BY <1>0, <1>4, <2>1, IdleHas DEF Ordered
  <2> QED
    BY <1>1, <1>3, <2>1, <2>2, Trees0, WriterRests
<1>7. CASE disk' = disk
  <2>1. Reading'
    <3> SUFFICES ASSUME NEW r \in Readers
                 PROVE  /\ reader'[r].at = "read" => reader'[r].seen <= Text(r)'.got
                        /\ reader'[r].at # "read" =>
                             reader'[r].seen = 0 /\ reader'[r].lost = NoFile
      BY DEF Reading
    <3>1. CASE reader'[r] = Idle
      BY <3>1, IdleHas
    <3>2. CASE reader'[r] = reader[r]
      <4>1. Text(r)' = Text(r)
        BY <1>7, <3>2 DEF Text, Rewritten
      <4> QED
        BY <1>0, <3>2, <4>1 DEF Reading
    <3> QED
      BY <1>4, <3>1, <3>2
  <2>2. Intact'
    BY <1>0, <1>1, <1>4, <1>7, IdleHas DEF Intact, Exists
  <2>3. Kept'
    BY <1>0, <1>1, <1>7 DEF Kept, Found, Sized, Exists, Newer
  <2> QED
    BY <1>5, <1>6, <2>1, <2>2, <2>3 DEF IInv
<1>8. CASE writer = "fill" /\ CutCopy(disk')
  <2>1. inPlace /\ inPlace'
    BY <1>0, <1>1, <1>8 DEF Rotating
  <2>2. Intact' /\ Kept'
    BY <2>1 DEF Intact, Kept
  <2>3. Reading'
    BY <1>0, <1>4, <1>8, CutReaders DEF Reading
  <2> QED
    BY <1>5, <1>6, <2>2, <2>3 DEF IInv
<1> QED
  BY <1>2, <1>7, <1>8

----------------------------------------------------------------------------
\* The rotation of the two names.

\* Between the last directory and the note the save has its temporary whole.
LEMMA TempWhole ==
  ASSUME IInv, writer \notin {"idle", "files"}
  PROVE  /\ todo = {} /\ temp \in Content /\ temp # NoFile
         /\ temp.got = Whole /\ ~temp.mid
         /\ Newer(real, temp.vs) /\ Newer(temp.vs, saved.vs)
<1>1. TypeOK /\ Ordered /\ Current /\ Rotating
  BY DEF IInv
<1>2. todo = {} /\ temp \in Content
  BY <1>1 DEF TypeOK
<1>3. temp.got = Whole /\ ~temp.mid
  BY <1>1 DEF Rotating
<1>4. temp # NoFile
  BY <1>3, NoFileHas DEF Whole
<1>5. Newer(temp.vs, saved.vs)
  BY <1>1, <1>2 DEF Current, Newer
<1> QED
  BY <1>1, <1>2, <1>3, <1>4, <1>5 DEF Ordered

\* What every step of the rotation leaves as it is.
LEMMA RotationStep ==
  ASSUME IInv, NEW from, NEW to, SaveStep(from, to, disk'),
         from \notin {"idle", "files"},
         to \in {"remove", "rotate", "promote", "copy", "fill", "note"},
         disk' \in [Names -> Content],
         \A n \in Names : disk'[n] = NoFile \/ disk'[n].vs = temp.vs
                                            \/ \E m \in Names : disk'[n] = disk[m],
         reader' \in [Readers -> ReaderStates],
         \A r \in Readers : Newer(real, reader'[r].lost.vs),
         inPlace' \in BOOLEAN
  PROVE  /\ TypeOK' /\ Ordered' /\ Current'
         /\ UNCHANGED <<temp, saved>> /\ writer = from /\ writer' = to
<1>0. TypeOK /\ Ordered /\ Current
  BY DEF IInv
<1>1. UNCHANGED <<real, tree, changes, moved, phase, temp, todo, faults, saved>>
      /\ writer = from /\ writer' = to
  BY DEF SaveStep, varying
<1>2. todo = {} /\ Newer(temp.vs, saved.vs)
  BY <1>1, TempWhole
<1>3. TypeOK'
  BY <1>0, <1>1, <1>2 DEF TypeOK
<1>4. Ordered'
  <2>1. Newer(real, NoFile.vs) /\ Newer(real, temp.vs)
    BY <1>0, NewerThanNone DEF TypeOK, Ordered
  <2>2. \A n \in Names : Newer(real, disk'[n].vs)
    BY <1>0, <2>1 DEF Ordered
  <2> QED
    BY <1>0, <1>1, <2>2 DEF Ordered, Newer
<1>5. Current'
  BY <1>0, <1>1, <1>2 DEF Current, Newer
<1> QED
  BY <1>1, <1>3, <1>4, <1>5

\* A file that is held stays under its name, so that its readers see no change.
LEMMA HeldKeeps ==
  ASSUME IInv, UNCHANGED reader, \A n \in Names : Held(n) => disk'[n] = disk[n]
  PROVE  Reading'
<1> SUFFICES ASSUME NEW r \in Readers
             PROVE  /\ reader[r].at = "read" => reader[r].seen <= Text(r)'.got
                    /\ reader[r].at # "read" => reader[r].seen = 0 /\ reader[r].lost = NoFile
  BY DEF Reading
<1>0. TypeOK /\ Reading
  BY DEF IInv
<1>1. CASE reader[r].at = "read"
  <2>1. Held(reader[r].file) /\ reader[r].file \in Names
    BY <1>0, <1>1, ReaderHas DEF Held, TypeOK
  <2>2. Text(r)' = Text(r)
    BY <2>1 DEF Text, Rewritten
  <2> QED
    BY <1>0, <1>1, <2>2 DEF Reading
<1>2. CASE reader[r].at # "read"
  BY <1>0, <1>2 DEF Reading
<1> QED
  BY <1>1, <1>2

LEMMA ReadersOrdered ==
  ASSUME IInv
  PROVE  /\ reader \in [Readers -> ReaderStates] /\ inPlace \in BOOLEAN
         /\ disk \in [Names -> Content]
         /\ \A r \in Readers : Newer(real, reader[r].lost.vs)
  BY DEF IInv, TypeOK, Ordered

LEMMA StatLatestKeeps == ASSUME IInv, StatLatest PROVE IInv'
<1> DEFINE to == IF Exists("latest") THEN "remove" ELSE "promote"
<1>1. SaveStep("stat", to, disk') /\ UNCHANGED <<disk, reader, inPlace>>
  BY DEF StatLatest, SaveStep
<1>2. to \in {"remove", "promote"} /\ (to = "remove" => Exists("latest"))
  OBVIOUS
<1> HIDE DEF to
<1>3. /\ TypeOK' /\ Ordered' /\ Current'
      /\ UNCHANGED <<temp, saved>> /\ writer = "stat" /\ writer' = to
  BY <1>1, <1>2, ReadersOrdered, RotationStep
<1>4. Rotating'
  BY <1>1, <1>2, <1>3 DEF IInv, Rotating, Exists
<1> QED
  BY <1>1, <1>3, <1>4, DiskAlone DEF IInv

\* latest is there, so nobody looks at the second name.
LEMMA RemovePreviousKeeps == ASSUME IInv, RemovePrevious PROVE IInv'
<1>0. Rotating /\ Intact /\ Kept
  BY DEF IInv
<1>1. /\ SaveStep("remove", "rotate", disk') /\ UNCHANGED <<reader, inPlace>>
      /\ disk' = IF Held("previous") THEN disk ELSE [disk EXCEPT !["previous"] = NoFile]
  BY DEF RemovePrevious, SaveStep
<1>2. /\ disk' \in [Names -> Content] /\ disk'["latest"] = disk["latest"]
      /\ disk'["previous"] = NoFile \/ disk'["previous"] = disk["previous"]
      /\ Held("previous") => disk'["previous"] = disk["previous"]
  BY <1>1, ReadersOrdered, NoFileHas DEF Names
<1>3. \A n \in Names : disk'[n] = NoFile \/ disk'[n] = disk[n]
  BY <1>2 DEF Names
<1>4. /\ TypeOK' /\ Ordered' /\ Current'
      /\ UNCHANGED <<temp, saved>> /\ writer = "remove" /\ writer' = "rotate"
  BY <1>1, <1>2, <1>3, ReadersOrdered, RotationStep
<1>5. Exists("latest")
  BY <1>0, <1>4 DEF Rotating
<1>6. Rotating'
  BY <1>0, <1>2, <1>4, <1>5 DEF Rotating, Exists
<1>7. Reading'
  BY <1>1, <1>2, HeldKeeps DEF Names
<1>8. Intact'
  BY <1>0, <1>1, <1>3 DEF Intact, Exists
<1>9. Kept'
  <2>1. ~inPlace => Sized("latest") /\ Sized("latest")'
    BY <1>0, <1>2, <1>5 DEF Intact, Exists, Sized, Names, Whole
  <2> QED
    BY <1>0, <1>1, <1>2, <1>4, <2>1 DEF Kept, Found, Newer
<1> QED
  BY <1>4, <1>6, <1>7, <1>8, <1>9 DEF IInv

\* What was latest is found under the second name, or under the first still.
LEMMA RotateLatestKeeps == ASSUME IInv, RotateLatest PROVE IInv'
<1>0. Rotating /\ Intact /\ Kept
  BY DEF IInv
<1>1. /\ SaveStep("rotate", "promote", disk') /\ UNCHANGED <<reader, inPlace>>
      /\ disk' = IF Held("latest") \/ Held("previous") THEN disk
                 ELSE [latest |-> NoFile, previous |-> disk["latest"]]
  BY DEF RotateLatest, SaveStep
<1>2. CASE Held("latest") \/ Held("previous")
  <2>1. disk' = disk
    BY <1>1, <1>2
  <2>2. /\ TypeOK' /\ Ordered' /\ Current'
        /\ UNCHANGED <<temp, saved>> /\ writer = "rotate" /\ writer' = "promote"
    BY <1>1, <2>1, ReadersOrdered, RotationStep
  <2>3. Rotating'
    BY <1>0, <2>2 DEF Rotating
  <2> QED
    BY <1>1, <2>1, <2>2, <2>3, DiskAlone DEF IInv
<1>3. CASE ~(Held("latest") \/ Held("previous"))
  <2>1. /\ disk' \in [Names -> Content]
        /\ disk'["latest"] = NoFile /\ disk'["previous"] = disk["latest"]
    <3>1. disk["latest"] \in Content /\ NoFile \in Content
      BY ReadersOrdered, NoFileHas DEF Names
    <3>2. disk' = [latest |-> NoFile, previous |-> disk["latest"]]
      BY <1>1, <1>3
    <3> QED
      BY <3>1, <3>2 DEF Names
  <2>2. \A n \in Names : disk'[n] = NoFile \/ \E m \in Names : disk'[n] = disk[m]
    BY <2>1 DEF Names
  <2>3. /\ TypeOK' /\ Ordered' /\ Current'
        /\ UNCHANGED <<temp, saved>> /\ writer = "rotate" /\ writer' = "promote"
    BY <1>1, <2>1, <2>2, ReadersOrdered, RotationStep
  <2>4. Rotating'
    BY <1>0, <2>3 DEF Rotating
  <2>5. Reading'
    BY <1>1, <1>3, HeldKeeps DEF Names
  <2>6. Intact'
    BY <1>0, <1>1, <2>2 DEF Intact, Exists
  <2>7. Kept'
    <3>1. Exists("latest")
      BY <1>0, <2>3 DEF Rotating
    <3>2. ~inPlace => Sized("latest")
      BY <1>0, <3>1 DEF Intact, Exists, Sized, Names, Whole
    <3>3. ~Sized("latest")'
      BY <2>1 DEF Sized, Exists
    <3> QED
      BY <1>0, <1>1, <2>1, <2>3, <3>2, <3>3 DEF Kept, Found, Newer
  <2> QED
    BY <2>3, <2>4, <2>5, <2>6, <2>7 DEF IInv
<1> QED
  BY <1>2, <1>3

LEMMA PromoteKeeps == ASSUME IInv, Promote PROVE IInv'
<1>0. Rotating /\ Intact /\ Kept
  BY DEF IInv
<1>1. /\ ~Held("latest") /\ UNCHANGED <<reader, inPlace>>
      /\ SaveStep("promote", "note", disk') /\ disk' = [disk EXCEPT !["latest"] = temp]
  BY DEF Promote, SaveStep
<1>2. writer = "promote"
  BY <1>1 DEF SaveStep
<1>3. /\ temp \in Content /\ temp # NoFile /\ temp.got = Whole /\ ~temp.mid
      /\ Newer(temp.vs, saved.vs)
  BY <1>2, TempWhole
<1>4. /\ disk' \in [Names -> Content]
      /\ disk'["latest"] = temp /\ disk'["previous"] = disk["previous"]
  BY <1>1, <1>3, ReadersOrdered DEF Names
<1>5. \A n \in Names : disk'[n] = temp \/ disk'[n] = disk[n]
  BY <1>4 DEF Names
<1>6. /\ TypeOK' /\ Ordered' /\ Current'
      /\ UNCHANGED <<temp, saved>> /\ writer' = "note"
  <2>1. \A n \in Names : disk'[n].vs = temp.vs \/ disk'[n] = disk[n]
    BY <1>5
  <2>2. /\ reader' \in [Readers -> ReaderStates] /\ inPlace' \in BOOLEAN
        /\ \A r \in Readers : Newer(real, reader'[r].lost.vs)
    BY <1>1, ReadersOrdered
  <2>3. SaveStep("promote", "note", disk')
    BY <1>1
  <2> QED
    BY <1>4, <2>1, <2>2, <2>3, RotationStep
<1>7. Rotating'
  BY <1>3, <1>4, <1>6 DEF Rotating
<1>8. Reading'
  BY <1>1, <1>4, HeldKeeps DEF Names
<1>9. Intact'
  BY <1>0, <1>1, <1>3, <1>5 DEF Intact, Exists
<1>10. Kept'
  <2>1. Found' = temp
    BY <1>3, <1>4 DEF Found, Sized, Exists, Whole
  <2> QED
    BY <1>3, <1>6, <2>1 DEF Kept, Newer
<1> QED
  BY <1>6, <1>7, <1>8, <1>9, <1>10 DEF IInv

LEMMA PromoteRefusedKeeps == ASSUME IInv, PromoteRefused PROVE IInv'
<1>1. SaveStep("promote", "copy", disk') /\ UNCHANGED <<disk, reader, inPlace>>
  BY DEF PromoteRefused, SaveStep
<1>2. /\ TypeOK' /\ Ordered' /\ Current'
      /\ UNCHANGED <<temp, saved>> /\ writer = "promote" /\ writer' = "copy"
  BY <1>1, ReadersOrdered, RotationStep
<1>3. Rotating'
  BY <1>2 DEF IInv, Rotating
<1> QED
  BY <1>1, <1>2, <1>3, DiskAlone DEF IInv

\* A file that is emptied is what its readers have read of it so far.
LEMMA CopyOpenKeeps == ASSUME IInv, CopyOpen PROVE IInv'
<1> DEFINE x == [vs |-> temp.vs, got |-> 0, mid |-> FALSE]
           Cut(r) == reader[r].at = "read" /\ reader[r].file = "latest" /\ reader[r].seen > 0
<1>0. TypeOK /\ Ordered /\ Rotating /\ Reading
  BY DEF IInv
<1>1. /\ SaveStep("copy", "fill", disk') /\ inPlace' = TRUE
      /\ disk' = [disk EXCEPT !["latest"] = x]
      /\ reader' = [r \in Readers |->
           IF Cut(r) THEN [reader[r] EXCEPT !.lost = Text(r)] ELSE reader[r]]
  BY DEF CopyOpen, SaveStep
<1>2. x \in Content /\ x.vs = temp.vs /\ x.got = 0
  <2>1. temp.vs \in Trees /\ 0 \in 0..Whole /\ FALSE \in BOOLEAN
    BY <1>0, ContentHas DEF TypeOK, Whole
  <2> QED
    BY <2>1, ContentMade
<1> HIDE DEF x, Cut
<1>3. /\ disk' \in [Names -> Content]
      /\ disk'["latest"] = x /\ disk'["previous"] = disk["previous"]
  BY <1>1, <1>2, ReadersOrdered DEF Names
<1>4. \A n \in Names : disk'[n].vs = temp.vs \/ disk'[n] = disk[n]
  BY <1>2, <1>3 DEF Names
<1>5. \A r \in Readers : Text(r) \in Content /\ Newer(real, Text(r).vs)
  BY <1>0, ReaderHas DEF TypeOK, Ordered, Text
<1>6. ASSUME NEW r \in Readers
      PROVE  /\ reader'[r] \in ReaderStates
             /\ reader'[r].at = reader[r].at /\ reader'[r].file = reader[r].file
             /\ reader'[r].seen = reader[r].seen
             /\ IF Cut(r) THEN reader'[r].lost = Text(r) ELSE reader'[r].lost = reader[r].lost
  <2>1. reader[r] \in ReaderStates /\ Text(r) \in Content
    BY <1>0, <1>5 DEF TypeOK
  <2>2. CASE Cut(r)
    <3>1. PICK t \in Content : t = Text(r)
      BY <2>1
    <3>2. reader'[r] = [reader[r] EXCEPT !.lost = t]
      BY <1>1, <2>2, <3>1
    <3>3. /\ reader'[r] \in ReaderStates /\ reader'[r].lost = t
          /\ reader'[r].at = reader[r].at /\ reader'[r].file = reader[r].file
          /\ reader'[r].seen = reader[r].seen
      BY <2>1, <3>2 DEF ReaderStates
    <3> QED
      BY <2>2, <3>1, <3>3
  <2>3. CASE ~Cut(r)
    BY <1>1, <2>1, <2>3
  <2> QED
    BY <2>2, <2>3
<1>7. reader' \in [Readers -> ReaderStates]
  BY <1>1, <1>6
<1>8. \A r \in Readers : Newer(real, reader'[r].lost.vs)
  BY <1>0, <1>5, <1>6 DEF Ordered
<1>9. /\ TypeOK' /\ Ordered' /\ Current'
      /\ UNCHANGED <<temp, saved>> /\ writer = "copy" /\ writer' = "fill"
  BY <1>1, <1>3, <1>4, <1>7, <1>8, RotationStep
<1>10. Rotating'
  BY <1>0, <1>1, <1>2, <1>3, <1>9 DEF Rotating
<1>11. Reading'
  <2> SUFFICES ASSUME NEW r \in Readers
               PROVE  /\ reader'[r].at = "read" => reader'[r].seen <= Text(r)'.got
                      /\ reader'[r].at # "read" =>
                           reader'[r].seen = 0 /\ reader'[r].lost = NoFile
    BY DEF Reading
  <2>1. reader[r] \in ReaderStates /\ reader[r].seen \in 0..Whole /\ reader[r].file \in Names
    BY <1>0, ReaderHas DEF TypeOK
  <2>2. CASE reader[r].at # "read"
    BY <1>0, <1>6, <2>2 DEF Reading, Cut
  <2>3. CASE Cut(r)
    <3>1. reader[r].seen <= Text(r).got /\ reader[r].seen > 0
      BY <1>0, <2>3 DEF Reading, Cut
    <3>2. Text(r) # NoFile
      BY <2>1, <3>1, NoFileHas DEF Whole
    <3>3. Text(r)' = Text(r)
      BY <1>6, <2>3, <3>2 DEF Text, Rewritten
    <3> QED
      BY <1>6, <2>3, <3>1, <3>3 DEF Cut
  <2>4. CASE reader[r].at = "read" /\ reader[r].file = "previous" /\ ~Cut(r)
    <3>1. Text(r)' = Text(r)
      BY <1>3, <1>6, <2>4 DEF Text, Rewritten
    <3> QED
      BY <1>0, <1>6, <2>4, <3>1 DEF Reading
  <2>5. CASE reader[r].at = "read" /\ reader[r].file = "latest" /\ ~Cut(r)
    <3>1. reader[r].seen = 0
      BY <2>1, <2>5 DEF Cut, Whole
    <3>2. Text(r)' \in Content
      <4>1. reader'[r].lost \in Content /\ reader'[r].file \in Names
        BY <1>6, ReaderHas
      <4> QED
        BY <1>3, <4>1 DEF Text
    <3>3. Text(r)'.got \in 0..Whole
      BY <3>2, ContentHas
    <3> QED
      BY <1>6, <2>5, <3>1, <3>3 DEF Whole
  <2> QED
    BY <2>1, <2>2, <2>3, <2>4, <2>5 DEF Names
<1>12. Intact' /\ Kept'
  BY <1>1 DEF Intact, Kept
<1> QED
  BY <1>9, <1>10, <1>11, <1>12 DEF IInv

LEMMA CopyFillKeeps == ASSUME IInv, CopyFill PROVE IInv'
<1>0. TypeOK /\ Rotating /\ Reading
  BY DEF IInv
<1>1. /\ UNCHANGED <<reader, inPlace>>
      /\ SaveStep("fill", "note", disk') /\ disk' = [disk EXCEPT !["latest"] = temp]
  BY DEF CopyFill, SaveStep
<1>2. writer = "fill" /\ inPlace
  BY <1>0, <1>1 DEF SaveStep, Rotating
<1>3. temp \in Content /\ temp.got = Whole /\ ~temp.mid
  BY <1>2, TempWhole
<1>4. /\ disk' \in [Names -> Content]
      /\ disk'["latest"] = temp /\ disk'["previous"] = disk["previous"]
  BY <1>1, <1>3, ReadersOrdered DEF Names
<1>5. \A n \in Names : disk'[n] = temp \/ disk'[n] = disk[n]
  BY <1>4 DEF Names
<1>6. /\ TypeOK' /\ Ordered' /\ Current'
      /\ UNCHANGED <<temp, saved>> /\ writer' = "note"
  <2>1. \A n \in Names : disk'[n].vs = temp.vs \/ disk'[n] = disk[n]
    BY <1>5
  <2>2. /\ reader' \in [Readers -> ReaderStates] /\ inPlace' \in BOOLEAN
        /\ \A r \in Readers : Newer(real, reader'[r].lost.vs)
    BY <1>1, ReadersOrdered
  <2>3. SaveStep("fill", "note", disk')
    BY <1>1
  <2> QED
    BY <1>4, <2>1, <2>2, <2>3, RotationStep
<1>7. Rotating'
  BY <1>3, <1>4, <1>6 DEF Rotating
<1>8. Reading'
  <2> SUFFICES ASSUME NEW r \in Readers
               PROVE  /\ reader[r].at = "read" => reader[r].seen <= Text(r)'.got
                      /\ reader[r].at # "read" =>
                           reader[r].seen = 0 /\ reader[r].lost = NoFile
    BY <1>1 DEF Reading
  <2>1. reader[r].seen \in 0..Whole /\ reader[r].file \in Names
    BY <1>0, ReaderHas DEF TypeOK
  <2>2. CASE Text(r)' = Text(r)
    BY <1>0, <2>2 DEF Reading
  <2>3. CASE Text(r)' = temp
    <3>1. reader[r].seen <= Whole
      BY <2>1 DEF Whole
    <3> QED
      BY <1>0, <1>3, <2>3, <3>1 DEF Reading
  <2>4. Text(r)' = Text(r) \/ Text(r)' = temp
    BY <1>1, <1>5, <2>1 DEF Text, Rewritten
  <2> QED
    BY <2>2, <2>3, <2>4
<1>9. Intact' /\ Kept'
  BY <1>1, <1>2 DEF Intact, Kept
<1> QED
  BY <1>6, <1>7, <1>8, <1>9 DEF IInv

\* A save that is noted is what latest holds.
LEMMA NoteKeeps == ASSUME IInv, Note PROVE IInv'
<1>0. TypeOK /\ Ordered /\ Current /\ Rotating
  BY DEF IInv
<1>1. /\ UNCHANGED <<real, tree, changes, phase, disk, todo, reader, faults, inPlace>>
      /\ writer = "note" /\ writer' = "idle" /\ moved' = FALSE
      /\ saved' = temp /\ temp' = NoFile
  BY DEF Note
<1>2. /\ todo = {} /\ temp \in Content /\ temp # NoFile /\ temp.got = Whole /\ ~temp.mid
      /\ Newer(real, temp.vs)
  BY <1>1, TempWhole
<1>3. TypeOK'
  BY <1>0, <1>1, <1>2, NoFileHas DEF TypeOK
<1>4. Ordered'
  <2>1. Newer(real, NoFile.vs)
    BY <1>0, NewerThanNone DEF TypeOK
  <2> QED
    BY <1>0, <1>1, <1>2, <2>1 DEF Ordered, Newer
<1>5. Current'
  BY <1>0, <1>1, <1>2 DEF Current
<1>6. Rotating'
  BY <1>1 DEF Rotating
<1>7. Reading' /\ Intact'
  BY <1>1 DEF IInv, Reading, Text, Rewritten, Intact, Exists
<1>8. Kept'
  <2>1. Found = temp
    BY <1>0, <1>1, <1>2 DEF Rotating, Found, Sized, Exists, Whole
  <2>2. Found' = Found
    BY <1>1 DEF Found, Sized, Exists
  <2>3. Newer(temp.vs, temp.vs)
    BY <1>2, ContentHas, NewerSelf
  <2> QED
    BY <1>1, <1>2, <2>1, <2>2, <2>3 DEF Kept, Newer
<1> QED
  BY <1>3, <1>4, <1>5, <1>6, <1>7, <1>8 DEF IInv

----------------------------------------------------------------------------
LEMMA InvariantInit == Init => IInv
<1> SUFFICES ASSUME Init PROVE IInv
  OBVIOUS
<1>0. /\ real = NoFiles /\ tree = NoFiles /\ temp = NoFile /\ saved = NoFile
      /\ changes = 0 /\ moved = FALSE /\ phase = "idle" /\ writer = "idle" /\ todo = {}
      /\ faults = 0 /\ inPlace = FALSE
  BY DEF Init
<1>1. disk \in [Names -> Content] /\ \A n \in Names : disk[n] = NoFile
  BY NoFileHas DEF Init
<1>2. reader \in [Readers -> ReaderStates] /\ \A r \in Readers : reader[r] = Idle
  BY IdleHas DEF Init
<1>3. TypeOK
  <2>1. changes \in Changes /\ faults \in 0..MaxFaults
    BY <1>0, SnapshotsAssumption DEF Changes
  <2> QED
    BY <1>0, <1>1, <1>2, <2>1, NoFileHas, Trees0 DEF TypeOK
<1>4. Ordered
  <2>1. Newer(NoFiles, NoFiles) /\ Newer(NoFiles, NoFile.vs)
    BY Trees0, NewerThanNone
  <2>2. \A d \in Dirs : real[d] <= changes
    BY <1>0, Trees0
  <2> QED
    BY <1>0, <1>1, <1>2, <2>1, <2>2, IdleHas DEF Ordered
<1>5. Current /\ Rotating
  BY <1>0 DEF Current, Rotating
<1>6. Reading /\ Intact
  BY <1>1, <1>2, IdleHas DEF Reading, Intact, Exists
<1>7. Kept
  BY <1>0 DEF Kept
<1> QED
  BY <1>3, <1>4, <1>5, <1>6, <1>7 DEF IInv

LEMMA InvariantKept == IInv /\ [Next]_vars => IInv'
<1> SUFFICES ASSUME IInv, [Next]_vars PROVE IInv'
  OBVIOUS
<1>1. CASE UNCHANGED vars
  <2>1. UNCHANGED <<real, tree, changes, moved, phase, disk, temp, writer, todo, reader,
                    faults, saved, inPlace>>
    BY <1>1 DEF vars, varying, writing, past
  <2>2. TypeOK' /\ Ordered' /\ Current' /\ Rotating'
    BY <2>1 DEF IInv, TypeOK, Ordered, Newer, Current, Rotating, Exists
  <2> QED
    BY <2>1, <2>2, DiskAlone DEF IInv
<1>2. CASE StartScan \/ Change \/ EndScan \/ BeginSave
  BY <1>2, StartScanKeeps, ChangeKeeps, EndScanKeeps, BeginSaveKeeps
<1>3. CASE Save
  BY <1>3, WriteDirKeeps, SaveFailsKeeps, StatLatestKeeps, RemovePreviousKeeps,
     RotateLatestKeeps, PromoteKeeps, PromoteRefusedKeeps, CopyOpenKeeps, CopyFillKeeps,
     CopyFailsKeeps, NoteKeeps DEF Save
<1>4. CASE Kill
  BY <1>4, KillKeeps
<1>5. ASSUME NEW r \in Readers, LookLatest(r) \/ Load(r) PROVE IInv'
  BY <1>5, LoadKeeps
<1> QED
  BY <1>1, <1>2, <1>3, <1>4, <1>5 DEF Next

\* IInv holds in every state the saves and the loads reach.
THEOREM InvariantHolds == Spec => []IInv
BY InvariantInit, InvariantKept, PTL DEF Spec

\* Whatever step of the rotation a save is killed at or fails at, what
\* GetLatestAutoSave finds is whole and no older, in any directory, than the last
\* save that succeeded; only a copy in place gives this up (server.go 549-592,
\* cache.go 762-793).
THEOREM FoundIsNewestCorrect == Spec => []FoundIsNewest
<1>1. IInv => FoundIsNewest
  BY DEF IInv, Kept, FoundIsNewest, Newer
<1> QED
  BY <1>1, InvariantHolds, PTL

\* A load that a save overtakes, at whatever step, adopts the whole of a snapshot or
\* nothing, as long as no file is rewritten in place (cache.go 437-555).
THEOREM LoadsWholeCorrect == Spec => []LoadsWhole
<1>1. IInv => LoadsWhole
  BY DEF IInv, Intact, LoadsWhole
<1> QED
  BY <1>1, InvariantHolds, PTL

-----------------------------------------------------------------------------
\* The processes, their windows and instance.json.
\* What a connection has to do with a process.
Paired ==
    /\ \A c \in Conns : conn[c] \in {"open", "gone"} => at[c] \in Procs
    /\ \A c \in beacon : at[c] \in Procs

\* PresenceCounted of every process, those that ended and those to come included.
Tallied ==
    \A p \in Procs :
        /\ count[p] <= Cardinality(Counted(p))
        /\ ~beaconed[p] => count[p] = Cardinality(Counted(p))

\* While no instance has strayed there is one port, one listener at most, and the
\* file of the one that is up.
OnePort ==
    ~strayed =>
        /\ file.port = Fixed
        /\ \A p \in Procs : port[p] = Fixed
        /\ \A p, q \in Procs : Listening(p) /\ Listening(q) => p = q
        /\ \A p \in Procs : pc[p] = "up" => file.pid # Nobody

LifeIInv == LifeTypeOK /\ Paired /\ Tallied /\ OnePort

-----------------------------------------------------------------------------
\* Types.

LEMMA TypeInit == LifeInit => LifeTypeOK
<1> SUFFICES ASSUME LifeInit PROVE LifeTypeOK
  OBVIOUS
<1>1. NoInstance \in [pid : Procs \cup {Nobody}, port : Ports]
  BY DEF NoInstance, Ports
<1>2. /\ pc \in [Procs -> Labels]
      /\ role \in [Procs -> {"none", "window", "relay", "child", "heir"}]
      /\ boss \in [Procs -> Procs \cup {Nobody}]
      /\ port \in [Procs -> Ports]
      /\ heir \in [Procs -> Procs \cup {Nobody}]
      /\ count \in [Procs -> Nat]
  BY DEF LifeInit, Labels, Ports
<1>3. /\ due \in [Procs -> BOOLEAN]
      /\ late \in [Procs -> BOOLEAN]
      /\ scan \in [Procs -> BOOLEAN]
      /\ unarmed \in [Procs -> BOOLEAN]
      /\ beaconed \in [Procs -> BOOLEAN]
      /\ strayed \in BOOLEAN
  BY DEF LifeInit
<1>4. /\ expiry \in [Procs -> {"none", "check", "look", "defer", "flush"}]
      /\ finish \in [Procs -> {"none", "check", "look", "flush"}]
      /\ conn \in [Conns -> {"none", "open", "gone", "over"}]
      /\ at \in [Conns -> Procs \cup {Nobody}]
      /\ beacon \subseteq Conns
  BY DEF LifeInit
<1> QED
  BY <1>1, <1>2, <1>3, <1>4 DEF LifeInit, LifeTypeOK

\* The end of a process keeps the types of what it touches.
LEMMA EndTyped ==
  ASSUME LifeTypeOK, NEW p \in Procs, End(p), file' = file \/ file' = NoInstance
  PROVE  LifeTypeOK'
  BY DEF LifeTypeOK, End, Goto, Disarm, NoInstance, Nobody,
     Fixed, Ports, Labels

LEMMA TypeKept == LifeTypeOK /\ [LifeNext]_lifeVars => LifeTypeOK'
<1> SUFFICES ASSUME LifeTypeOK, [LifeNext]_lifeVars PROVE LifeTypeOK'
  OBVIOUS
<1>1. CASE UNCHANGED lifeVars
  BY <1>1 DEF LifeTypeOK, lifeVars, procVars, countVars, goVars,
     connVars
<1>2. ASSUME NEW p \in Procs, Launch(p) PROVE LifeTypeOK'
  BY <1>2 DEF LifeTypeOK, Launch, Goto, countVars, goVars,
     connVars, Labels
<1>3. ASSUME NEW p \in Procs, Interrupt(p) PROVE LifeTypeOK'
  BY <1>3, ZenonT(40) DEF LifeTypeOK, Interrupt, BeginStop, Goto, Disarm,
     goVars, connVars, Labels, Serving
<1>4. ASSUME NEW p \in Procs, ScanStart(p) PROVE LifeTypeOK'
  BY <1>4 DEF LifeTypeOK, ScanStart, procVars, countVars, connVars
<1>5. ASSUME NEW p \in Procs, GiveUpHeir(p) PROVE LifeTypeOK'
  BY <1>5 DEF LifeTypeOK, GiveUpHeir, countVars, goVars, connVars,
     Nobody
<1>6. ASSUME NEW p \in Procs, RelayEnds(p) PROVE LifeTypeOK'
  BY <1>6, EndTyped DEF RelayEnds, Die
<1>7. ASSUME NEW p \in Procs, NEW q \in Procs, LaunchAdmin(p, q) PROVE LifeTypeOK'
  BY <1>7 DEF LifeTypeOK, LaunchAdmin, countVars, goVars, connVars,
     Labels
<1>8. ASSUME NEW p \in Procs, NEW q \in Procs, Elevate(p, q) PROVE LifeTypeOK'
  BY <1>8 DEF LifeTypeOK, Elevate, Goto, countVars, goVars,
     connVars, Labels
<1>9. ASSUME NEW c \in Conns, Close(c) PROVE LifeTypeOK'
  BY <1>9 DEF LifeTypeOK, Close, procVars, countVars, goVars
<1>10. ASSUME NEW c \in Conns, NEW p \in Procs, Connect(c, p) PROVE LifeTypeOK'
  BY <1>10 DEF LifeTypeOK, Connect, Disarm, procVars, goVars
<1>11. ASSUME NEW p \in Procs, Dial(p) PROVE LifeTypeOK'
  BY <1>11 DEF LifeTypeOK, Dial, countVars, goVars, connVars,
     Labels
<1>12. ASSUME NEW p \in Procs, Probe(p) PROVE LifeTypeOK'
  BY <1>12 DEF LifeTypeOK, Probe, Goto, countVars, goVars,
     connVars, Labels
<1>13. ASSUME NEW p \in Procs, Focus(p) PROVE LifeTypeOK'
  <2>1. /\ UNCHANGED <<strayed, file, role, boss, heir, count, goVars, connVars>>
        /\ pc' = [pc EXCEPT ![p] = "dead"]
        /\ port' = [port EXCEPT ![p] = Fixed]
    BY <1>13 DEF Focus, Seen, Goto, countVars
  <2>2. \/ UNCHANGED <<due, late, unarmed>>
        \/ \E r \in Procs : /\ late' = [late EXCEPT ![r] = FALSE]
                             /\ due' = [due EXCEPT ![r] = FALSE]
                             /\ unarmed' = [unarmed EXCEPT ![r] = TRUE]
    BY <1>13 DEF Focus, Seen, Disarm, countVars
  <2>3. pc' \in [Procs -> Labels] /\ port' \in [Procs -> Ports]
    BY <2>1 DEF LifeTypeOK, Labels, Ports
  <2>4. /\ due' \in [Procs -> BOOLEAN] /\ late' \in [Procs -> BOOLEAN]
        /\ unarmed' \in [Procs -> BOOLEAN]
    BY <2>2, ZenonT(40) DEF LifeTypeOK
  <2> QED
    BY <2>1, <2>3, <2>4 DEF LifeTypeOK, goVars, connVars
<1>14. ASSUME NEW p \in Procs, Bind(p) PROVE LifeTypeOK'
  BY <1>14 DEF LifeTypeOK, Bind, Serve, Arm, Goto, goVars,
     connVars, Labels, Serving, Ports,
     Fixed
<1>15. ASSUME NEW p \in Procs, BindTaken(p) PROVE LifeTypeOK'
  BY <1>15 DEF LifeTypeOK, BindTaken, Goto, countVars, goVars,
     connVars, Labels
<1>16. ASSUME NEW p \in Procs, AskOurs(p) PROVE LifeTypeOK'
  BY <1>16 DEF LifeTypeOK, AskOurs, Goto, countVars, goVars,
     connVars, Labels
<1>17. ASSUME NEW p \in Procs, AskOther(p) PROVE LifeTypeOK'
  BY <1>17 DEF LifeTypeOK, AskOther, Serve, Arm, Goto, goVars,
     connVars, Labels, Serving, Ports
<1>18. ASSUME NEW p \in Procs, Write(p) PROVE LifeTypeOK'
  BY <1>18 DEF LifeTypeOK, Write, WriteFile, Goto, procVars,
     countVars, goVars, connVars,
     Labels, Serving
<1>19. ASSUME NEW p \in Procs, AdoptNothing(p) PROVE LifeTypeOK'
  BY <1>19, EndTyped DEF AdoptNothing, Die
<1>20. ASSUME NEW p \in Procs, Adopt(p) PROVE LifeTypeOK'
  BY <1>20 DEF LifeTypeOK, Adopt, Goto, countVars, goVars,
     connVars, Labels
<1>21. ASSUME NEW p \in Procs, AnnounceHandoff(p) PROVE LifeTypeOK'
  BY <1>21 DEF LifeTypeOK, AnnounceHandoff, WriteFile, Goto,
     countVars, goVars, connVars,
     Labels
<1>22. ASSUME NEW p \in Procs, TakePort(p) PROVE LifeTypeOK'
  BY <1>22 DEF LifeTypeOK, TakePort, Serve, Arm, Goto, goVars,
     connVars, Labels, Serving
<1>23. ASSUME NEW p \in Procs, TakeTimeout(p) PROVE LifeTypeOK'
  BY <1>23, EndTyped DEF TakeTimeout, Die
<1>24. ASSUME NEW p \in Procs, ReadOwnFile(p) PROVE LifeTypeOK'
  BY <1>24 DEF LifeTypeOK, ReadOwnFile, Goto, countVars, goVars,
     connVars, Labels, Serving
<1>25. ASSUME NEW p \in Procs, RemoveFile(p) PROVE LifeTypeOK'
  BY <1>25 DEF LifeTypeOK, RemoveFile, Goto, countVars, goVars,
     connVars, Labels, Serving,
     NoInstance, Nobody, Fixed, Ports
<1>26. ASSUME NEW p \in Procs, CloseListener(p) PROVE LifeTypeOK'
  BY <1>26 DEF LifeTypeOK, CloseListener, Goto, countVars, goVars,
     connVars, Labels
<1>27. ASSUME NEW p \in Procs, Exit(p) PROVE LifeTypeOK'
  BY <1>27, EndTyped DEF Exit, Die
<1>28. ASSUME NEW p \in Procs, ParentGone(p) PROVE LifeTypeOK'
  BY <1>28, EndTyped DEF ParentGone, Die
<1>29. ASSUME NEW p \in Procs, SeeHeir(p) PROVE LifeTypeOK'
  BY <1>29 DEF LifeTypeOK, SeeHeir, BeginStop, Goto, Disarm,
     goVars, connVars, Labels, Serving
<1>30. ASSUME NEW p \in Procs, Finish(p) PROVE LifeTypeOK'
  <2>1. CASE FinishCheck(p)
    BY <2>1 DEF LifeTypeOK, FinishCheck, FinishAt, procVars,
       countVars, connVars
  <2>2. CASE FinishLook(p)
    BY <2>2 DEF LifeTypeOK, FinishLook, FinishAt, procVars,
       countVars, connVars
  <2>3. CASE FinishStop(p)
    BY <2>3, ZenonT(40) DEF LifeTypeOK, FinishStop, FinishAt, BeginStop, Goto,
       Disarm, connVars, Labels,
       Serving
  <2> QED
    BY <1>30, <2>1, <2>2, <2>3 DEF Finish
<1>31. ASSUME NEW p \in Procs, Expiry(p) PROVE LifeTypeOK'
  <2>1. CASE Expire(p)
    BY <2>1 DEF LifeTypeOK, Expire, ExpiryAt, Disarm, procVars,
       connVars
  <2>2. CASE ExpiryCheck(p)
    BY <2>2 DEF LifeTypeOK, ExpiryCheck, ExpiryAt, procVars,
       countVars, connVars
  <2>3. CASE ExpiryLook(p)
    BY <2>3 DEF LifeTypeOK, ExpiryLook, ExpiryAt, procVars,
       countVars, connVars
  <2>4. CASE ExpiryDefer(p)
    BY <2>4 DEF LifeTypeOK, ExpiryDefer, ExpiryAt, Arm, procVars,
       connVars
  <2>5. CASE ExpiryStop(p)
    BY <2>5, ZenonT(40) DEF LifeTypeOK, ExpiryStop, ExpiryAt, BeginStop, Goto,
       Disarm, connVars, Labels,
       Serving
  <2> QED
    BY <1>31, <2>1, <2>2, <2>3, <2>4, <2>5 DEF Expiry
<1>32. ASSUME NEW p \in Procs, ScanEnd(p) PROVE LifeTypeOK'
  BY <1>32 DEF LifeTypeOK, ScanEnd, FinishAt, procVars, countVars,
     connVars
<1>33. ASSUME NEW c \in Conns, Beacon(c) PROVE LifeTypeOK'
  <2>1. UNCHANGED <<strayed, file, procVars, goVars, conn, at, late>>
        /\ beacon' \subseteq beacon
    BY <1>33 DEF Beacon, countVars
  <2>2. \/ UNCHANGED <<count, due, unarmed, beaconed>>
        \/ \E p \in Procs \cup {Nobody} :
             /\ count' = [count EXCEPT ![p] = 0]
             /\ due' = [due EXCEPT ![p] = TRUE]
             /\ unarmed' = [unarmed EXCEPT ![p] = FALSE]
             /\ beaconed' = [beaconed EXCEPT ![p] = TRUE]
    BY <1>33 DEF Beacon, Arm, countVars, LifeTypeOK
  <2>3. count' \in [Procs -> Nat]
    BY <2>2 DEF LifeTypeOK
  <2>4. /\ due' \in [Procs -> BOOLEAN] /\ unarmed' \in [Procs -> BOOLEAN]
        /\ beaconed' \in [Procs -> BOOLEAN]
    BY <2>2, ZenonT(40) DEF LifeTypeOK
  <2> QED
    BY <2>1, <2>3, <2>4 DEF LifeTypeOK, procVars, goVars
<1>34. ASSUME NEW c \in Conns, Disconnect(c) PROVE LifeTypeOK'
  <2>1. UNCHANGED <<strayed, file, procVars, goVars, at, late, beacon, beaconed>>
        /\ conn' = [conn EXCEPT ![c] = "over"]
    BY <1>34 DEF Disconnect
  <2>2. /\ \/ count[at[c]] > 1 /\ count' = [count EXCEPT ![at[c]] = count[at[c]] - 1]
           \/ count' = [count EXCEPT ![at[c]] = 0]
        /\ \/ UNCHANGED <<due, unarmed>>
           \/ /\ due' = [due EXCEPT ![at[c]] = TRUE]
              /\ unarmed' = [unarmed EXCEPT ![at[c]] = FALSE]
    BY <1>34 DEF Disconnect, Arm
  <2>3. count' \in [Procs -> Nat]
    BY <2>2 DEF LifeTypeOK
  <2>4. due' \in [Procs -> BOOLEAN] /\ unarmed' \in [Procs -> BOOLEAN]
    BY <2>2, ZenonT(40) DEF LifeTypeOK
  <2> QED
    BY <2>1, <2>3, <2>4 DEF LifeTypeOK, procVars, goVars
<1> QED
  BY <1>1, <1>2, <1>3, <1>4, <1>5, <1>6, <1>7, <1>8, <1>9, <1>10, <1>11, <1>12, <1>13,
     <1>14, <1>15, <1>16, <1>17, <1>18, <1>19, <1>20, <1>21, <1>22, <1>23, <1>24, <1>25,
     <1>26, <1>27, <1>28, <1>29, <1>30, <1>31, <1>32, <1>33, <1>34
     DEF LifeNext, User, Moves, Main


-----------------------------------------------------------------------------
\* Presence.  What most steps leave alone: the connections, the beacons and the count.

presence == <<count, conn, at, beacon, beaconed>>

LEMMA WhoCounts ==
  ASSUME LifeNext
  PROVE  \/ UNCHANGED presence
         \/ \E p \in Procs : End(p)
         \/ \E c \in Conns, p \in Procs : Connect(c, p)
         \/ \E c \in Conns : Close(c) \/ Beacon(c) \/ Disconnect(c)
<1> USE DEF presence, countVars, goVars, connVars, procVars
<1>1. ASSUME NEW p \in Procs, NEW q \in Procs,
             \/ Launch(p) \/ Interrupt(p) \/ ScanStart(p) \/ GiveUpHeir(p)
             \/ LaunchAdmin(p, q) \/ Elevate(p, q)
      PROVE  UNCHANGED presence
  BY <1>1 DEF Launch, Interrupt, ScanStart, GiveUpHeir, LaunchAdmin,
     Elevate
<1>2. ASSUME NEW p \in Procs,
             \/ Dial(p) \/ Probe(p) \/ Bind(p) \/ BindTaken(p)
             \/ AskOurs(p)
             \/ AskOther(p) \/ Write(p) \/ Adopt(p)
             \/ AnnounceHandoff(p) \/ TakePort(p)
      PROVE  UNCHANGED presence
  BY <1>2 DEF Dial, Probe, Bind, BindTaken, AskOurs,
     AskOther, Serve, Write, Adopt,
     AnnounceHandoff, TakePort
<1>3. ASSUME NEW p \in Procs, Focus(p)
      PROVE  UNCHANGED presence
  BY <1>3 DEF Focus, Seen
<1>4. ASSUME NEW p \in Procs,
             ReadOwnFile(p) \/ RemoveFile(p) \/ CloseListener(p)
             \/ SeeHeir(p) \/ ScanEnd(p)
      PROVE  UNCHANGED presence
  BY <1>4 DEF ReadOwnFile, RemoveFile, CloseListener, SeeHeir,
     ScanEnd
<1>5. ASSUME NEW p \in Procs, Finish(p)
      PROVE  UNCHANGED presence
  BY <1>5 DEF Finish, FinishCheck, FinishLook, FinishStop
<1>6. ASSUME NEW p \in Procs, Expiry(p)
      PROVE  UNCHANGED presence
  BY <1>6 DEF Expiry, Expire, ExpiryCheck, ExpiryLook,
     ExpiryDefer, ExpiryStop
<1>7. ASSUME NEW p \in Procs,
             \/ RelayEnds(p) \/ AdoptNothing(p) \/ TakeTimeout(p)
             \/ Exit(p) \/ ParentGone(p)
      PROVE  End(p)
  BY <1>7 DEF RelayEnds, AdoptNothing, TakeTimeout, Exit,
     ParentGone, Die
<1> HIDE DEF presence, countVars, goVars, connVars, procVars
<1> QED
  BY <1>1, <1>2, <1>3, <1>4, <1>5, <1>6, <1>7 DEF LifeNext, User, Moves,
     Main

\* The windows a process counts are finitely many.
LEMMA CountedFinite ==
  ASSUME NEW p \in Procs
  PROVE  IsFiniteSet(Counted(p)) /\ Cardinality(Counted(p)) \in Nat
<1>1. IsFiniteSet(Conns)
  BY LifecycleAssumption, FS_Interval DEF LifecycleAssumption, Conns
<1>2. Counted(p) \subseteq Conns
  BY DEF Counted
<1> QED
  BY <1>1, <1>2, FS_Subset, FS_CardinalityType

LEMMA CountedOneMore ==
  ASSUME NEW p \in Procs, NEW c, c \notin Counted(p),
         Counted(p)' = Counted(p) \cup {c}
  PROVE  Cardinality(Counted(p)') = Cardinality(Counted(p)) + 1
  BY CountedFinite, FS_AddElement

LEMMA CountedOneLess ==
  ASSUME NEW p \in Procs, NEW c, c \in Counted(p),
         Counted(p)' = Counted(p) \ {c}
  PROVE  Cardinality(Counted(p)') = Cardinality(Counted(p)) - 1
  BY CountedFinite, FS_RemoveElement

LEMMA PresenceInit == LifeInit => Paired /\ Tallied
<1> SUFFICES ASSUME LifeInit PROVE Paired /\ Tallied
  OBVIOUS
<1>1. Paired
  BY DEF LifeInit, Paired
<1>2. ASSUME NEW p \in Procs
      PROVE  count[p] = 0 /\ Counted(p) = {}
  BY DEF LifeInit, Counted
<1>3. Tallied
  BY <1>2, FS_EmptySet DEF Tallied
<1> QED
  BY <1>1, <1>3

LEMMA PairedKept == LifeTypeOK /\ Paired /\ [LifeNext]_lifeVars => Paired'
<1> SUFFICES ASSUME LifeTypeOK, Paired, [LifeNext]_lifeVars PROVE Paired'
  OBVIOUS
<1>0. /\ conn \in [Conns -> {"none", "open", "gone", "over"}]
      /\ at \in [Conns -> Procs \cup {Nobody}] /\ beacon \subseteq Conns
  BY DEF LifeTypeOK
<1>1. CASE UNCHANGED lifeVars
  BY <1>1 DEF Paired, lifeVars, connVars
<1>2. CASE UNCHANGED presence
  BY <1>2 DEF Paired, presence
<1>3. ASSUME NEW p \in Procs, End(p) PROVE Paired'
  BY <1>0, <1>3 DEF Paired, End
<1>4. ASSUME NEW c \in Conns, NEW p \in Procs, Connect(c, p) PROVE Paired'
  BY <1>0, <1>4 DEF Paired, Connect
<1>5. ASSUME NEW c \in Conns, Close(c) PROVE Paired'
  BY <1>0, <1>5 DEF Paired, Close
<1>6. ASSUME NEW c \in Conns, Beacon(c) PROVE Paired'
  BY <1>0, <1>6 DEF Paired, Beacon
<1>7. ASSUME NEW c \in Conns, Disconnect(c) PROVE Paired'
  BY <1>0, <1>7 DEF Paired, Disconnect
<1> QED
  BY <1>1, <1>2, <1>3, <1>4, <1>5, <1>6, <1>7, WhoCounts

LEMMA TalliedKept ==
    LifeTypeOK /\ Paired /\ Tallied /\ [LifeNext]_lifeVars => Tallied'
<1> SUFFICES ASSUME LifeTypeOK, Paired, Tallied, [LifeNext]_lifeVars
             PROVE  Tallied'
  OBVIOUS
<1>0. /\ conn \in [Conns -> {"none", "open", "gone", "over"}]
      /\ at \in [Conns -> Procs \cup {Nobody}] /\ beacon \subseteq Conns
      /\ count \in [Procs -> Nat]
      /\ beaconed \in [Procs -> BOOLEAN]
  BY DEF LifeTypeOK
<1>1. CASE UNCHANGED lifeVars
  BY <1>1 DEF Tallied, Counted, lifeVars, countVars, connVars
<1>2. CASE UNCHANGED presence
  BY <1>2 DEF Tallied, Counted, presence
\* The end of a process takes its connections with it, and nobody else's.
<1>3. ASSUME NEW p \in Procs, End(p) PROVE Tallied'
  <2> SUFFICES ASSUME NEW r \in Procs
               PROVE  (/\ count[r] <= Cardinality(Counted(r))
                       /\ ~beaconed[r] => count[r] = Cardinality(Counted(r)))'
    BY DEF Tallied
  <2>1. CASE r = p
    <3>1. Counted(r)' = {}
      BY <1>0, <1>3, <2>1 DEF Counted, End, Nobody, Procs
    <3>2. count'[r] = 0
      BY <1>0, <1>3, <2>1 DEF End
    <3> QED
      BY <3>1, <3>2, FS_EmptySet
  <2>2. CASE r # p
    <3>1. Counted(r)' = Counted(r)
      BY <1>0, <1>3, <2>2 DEF Counted, End, Nobody, Procs
    <3>2. count'[r] = count[r] /\ beaconed'[r] = beaconed[r]
      BY <1>0, <1>3, <2>2 DEF End
    <3> QED
      BY <3>1, <3>2 DEF Tallied
  <2> QED
    BY <2>1, <2>2
<1>4. ASSUME NEW c \in Conns, NEW p \in Procs, Connect(c, p) PROVE Tallied'
  <2> SUFFICES ASSUME NEW r \in Procs
               PROVE  (/\ count[r] <= Cardinality(Counted(r))
                       /\ ~beaconed[r] => count[r] = Cardinality(Counted(r)))'
    BY DEF Tallied
  <2>0. conn[c] = "none" /\ beaconed' = beaconed
    BY <1>4 DEF Connect, NextConn
  <2>1. CASE r = p
    <3>1. c \notin Counted(r) /\ Counted(r)' = Counted(r) \cup {c}
      BY <1>0, <1>4, <2>0, <2>1 DEF Counted, Connect
    <3>2. Cardinality(Counted(r)') = Cardinality(Counted(r)) + 1
      BY <3>1, CountedOneMore
    <3>3. count'[r] = count[r] + 1
      BY <1>0, <1>4, <2>1 DEF Connect
    <3>4. count[r] \in Nat /\ Cardinality(Counted(r)) \in Nat
      BY <1>0, CountedFinite
    <3> QED
      BY <2>0, <3>2, <3>3, <3>4 DEF Tallied
  <2>2. CASE r # p
    <3>1. Counted(r)' = Counted(r)
      BY <1>0, <1>4, <2>0, <2>2 DEF Counted, Connect
    <3>2. count'[r] = count[r]
      BY <1>0, <1>4, <2>2 DEF Connect
    <3> QED
      BY <2>0, <3>1, <3>2 DEF Tallied
  <2> QED
    BY <2>1, <2>2
\* A page that went away is counted until the server notices.
<1>5. ASSUME NEW c \in Conns, Close(c) PROVE Tallied'
  <2>1. \A r \in Procs : Counted(r)' = Counted(r)
    BY <1>0, <1>5 DEF Counted, Close
  <2>2. count' = count /\ beaconed' = beaconed
    BY <1>5 DEF Close, countVars
  <2> QED
    BY <2>1, <2>2 DEF Tallied
\* A beacon forgets every window of the process, and says so.
<1>6. ASSUME NEW c \in Conns, Beacon(c) PROVE Tallied'
  <2>1. \A r \in Procs : Counted(r)' = Counted(r)
    BY <1>0, <1>6 DEF Counted, Beacon
  <2>2. CASE count' = count /\ beaconed' = beaconed
    BY <2>1, <2>2 DEF Tallied
  <2>3. CASE /\ count' = [count EXCEPT ![at[c]] = 0]
             /\ beaconed' = [beaconed EXCEPT ![at[c]] = TRUE]
    <3> SUFFICES ASSUME NEW r \in Procs
                 PROVE  /\ count'[r] <= Cardinality(Counted(r)')
                        /\ ~beaconed'[r] => count'[r] = Cardinality(Counted(r)')
      BY DEF Tallied
    <3>1. CASE r = at[c]
      <4>1. count'[r] = 0 /\ beaconed'[r] = TRUE
        BY <1>0, <2>3, <3>1
      <4> QED
        BY <2>1, <4>1, CountedFinite
    <3>2. CASE r # at[c]
      <4>1. count'[r] = count[r] /\ beaconed'[r] = beaconed[r]
        BY <1>0, <2>3, <3>2
      <4> QED
        BY <2>1, <4>1 DEF Tallied
    <3> QED
      BY <3>1, <3>2
  <2> QED
    BY <1>6, <2>2, <2>3 DEF Beacon, countVars
\* A disconnection counts one window off, and stops at zero.
<1>7. ASSUME NEW c \in Conns, Disconnect(c) PROVE Tallied'
  <2> SUFFICES ASSUME NEW r \in Procs
               PROVE  (/\ count[r] <= Cardinality(Counted(r))
                       /\ ~beaconed[r] => count[r] = Cardinality(Counted(r)))'
    BY DEF Tallied
  <2>0. conn[c] = "gone" /\ beaconed' = beaconed /\ at' = at
        /\ conn' = [conn EXCEPT ![c] = "over"]
    BY <1>7 DEF Disconnect
  <2>1. CASE r = at[c]
    <3>1. c \in Counted(r) /\ Counted(r)' = Counted(r) \ {c}
      BY <1>0, <2>0, <2>1 DEF Counted
    <3>2. Cardinality(Counted(r)') = Cardinality(Counted(r)) - 1
      BY <3>1, CountedOneLess
    <3>3. count'[r] = IF count[r] > 1 THEN count[r] - 1 ELSE 0
      BY <1>0, <1>7, <2>1 DEF Disconnect
    <3>4. count[r] \in Nat /\ Cardinality(Counted(r)) \in Nat
      BY <1>0, CountedFinite
    <3>5. Cardinality(Counted(r)) >= 1
      BY <3>1, <3>4, CountedFinite, FS_EmptySet
    <3>6. /\ count[r] <= Cardinality(Counted(r))
          /\ ~beaconed[r] => count[r] = Cardinality(Counted(r))
      BY DEF Tallied
    <3> QED
      BY <2>0, <3>2, <3>3, <3>4, <3>5, <3>6
  <2>2. CASE r # at[c]
    <3>1. Counted(r)' = Counted(r)
      BY <1>0, <2>0, <2>2 DEF Counted
    <3>2. count'[r] = count[r]
      BY <1>0, <1>7, <2>2 DEF Disconnect
    <3> QED
      BY <2>0, <3>1, <3>2 DEF Tallied
  <2> QED
    BY <2>1, <2>2
<1> QED
  BY <1>1, <1>2, <1>3, <1>4, <1>5, <1>6, <1>7, WhoCounts


-----------------------------------------------------------------------------
\* The file.

LEMMA OnePortInit == LifeInit => OnePort
  BY DEF LifeInit, OnePort, NoInstance, Listening, Serving

\* Who ends listens no more, and the file stays.
LEMMA EndOnePort ==
  ASSUME LifeTypeOK, OnePort, NEW p \in Procs, Die(p)
  PROVE  OnePort'
<1>1. /\ file' = file /\ strayed' = strayed
      /\ pc' = [pc EXCEPT ![p] = "dead"] /\ port' = [port EXCEPT ![p] = Fixed]
  BY DEF Die, End, Goto
<1> QED
  BY <1>1 DEF OnePort, Listening, Serving, LifeTypeOK

\* A process that opens a listener is the only one to have it.
LEMMA ServeOnePort ==
  ASSUME LifeTypeOK, OnePort, NEW p \in Procs, NEW x, ~Answers(x), Serve(p, x)
  PROVE  OnePort'
<1>1. /\ file' = file /\ strayed' = (strayed \/ x # Fixed)
      /\ pc' = [pc EXCEPT ![p] = "write"] /\ port' = [port EXCEPT ![p] = x]
  BY DEF Serve, Goto
<1>2. CASE strayed'
  BY <1>2 DEF OnePort
<1>3. CASE ~strayed'
  <2>1. ~strayed /\ x = Fixed
    BY <1>1, <1>3
  <2>2. \A q \in Procs : ~Listening(q)
    BY <2>1 DEF OnePort, Answers
  <2> QED
    BY <1>1, <2>1, <2>2 DEF OnePort, Listening, Serving, LifeTypeOK
<1> QED
  BY <1>2, <1>3

\* Stop is asked for: of a process that is up, or of nobody.
LEMMA StopOnePort ==
  ASSUME LifeTypeOK, OnePort, NEW p \in Procs, BeginStop(p),
         UNCHANGED <<file, port, strayed>>
  PROVE  OnePort'
<1>1. \/ pc' = pc
      \/ pc[p] = "up" /\ pc' = [pc EXCEPT ![p] = "remove"]
  BY DEF BeginStop, Goto
<1> QED
  BY <1>1 DEF OnePort, Listening, Serving, LifeTypeOK

LEMMA OnePortKept == LifeTypeOK /\ OnePort /\ [LifeNext]_lifeVars => OnePort'
<1> SUFFICES ASSUME LifeTypeOK, OnePort, [LifeNext]_lifeVars PROVE OnePort'
  OBVIOUS
<1> USE DEF procVars
<1>1. CASE UNCHANGED lifeVars
  BY <1>1 DEF OnePort, Listening, lifeVars
<1>2. ASSUME NEW p \in Procs, NEW q \in Procs,
             Launch(p) \/ LaunchAdmin(p, q) \/ Elevate(p, q)
      PROVE  OnePort'
  <2>1. UNCHANGED <<strayed, file, port>>
    BY <1>2 DEF Launch, LaunchAdmin, Elevate
  <2>2. \A r \in Procs : Listening(r)' => Listening(r) /\ pc'[r] = pc[r]
    <3> SUFFICES ASSUME NEW r \in Procs, Listening(r)'
                 PROVE  Listening(r) /\ pc'[r] = pc[r]
      OBVIOUS
    <3>1. CASE Launch(p)
      BY <3>1 DEF Listening, Serving, LifeTypeOK, Launch, Goto
    <3>2. CASE LaunchAdmin(p, q)
      BY <3>2 DEF Listening, Serving, LifeTypeOK, LaunchAdmin
    <3>3. CASE Elevate(p, q)
      BY <3>3 DEF Listening, Serving, LifeTypeOK, Elevate, Goto
    <3> QED
      BY <1>2, <3>1, <3>2, <3>3
  <2> QED
    BY <2>1, <2>2 DEF OnePort, Listening, Serving
<1>3. ASSUME NEW p \in Procs,
             \/ Interrupt(p) \/ SeeHeir(p)
             \/ ExpiryStop(p) \/ FinishStop(p)
      PROVE  OnePort'
  BY <1>3, StopOnePort DEF Interrupt, SeeHeir, ExpiryStop, FinishStop
<1>4. ASSUME NEW p \in Procs, ScanStart(p) \/ GiveUpHeir(p) \/ ScanEnd(p)
      PROVE  OnePort'
  BY <1>4 DEF OnePort, Listening, ScanStart, GiveUpHeir, ScanEnd
<1>5. ASSUME NEW p \in Procs,
             \/ RelayEnds(p) \/ AdoptNothing(p) \/ TakeTimeout(p)
             \/ Exit(p) \/ ParentGone(p)
      PROVE  OnePort'
  BY <1>5, EndOnePort DEF RelayEnds, AdoptNothing, TakeTimeout, Exit,
     ParentGone
<1>6. ASSUME NEW c \in Conns,
             \/ Close(c) \/ Beacon(c) \/ Disconnect(c)
             \/ \E p \in Procs : Connect(c, p)
      PROVE  OnePort'
  BY <1>6 DEF OnePort, Listening, Close, Connect, Beacon,
     Disconnect
<1>7. ASSUME NEW p \in Procs, Dial(p) \/ BindTaken(p)
      PROVE  OnePort'
  BY <1>7 DEF OnePort, Listening, Serving, LifeTypeOK, Dial,
     BindTaken, Goto
\* The port it asks is the one of the file.
<1>8. ASSUME NEW p \in Procs, Probe(p) \/ AskOurs(p)
      PROVE  OnePort'
  BY <1>8 DEF OnePort, Listening, Serving, LifeTypeOK, Probe,
     AskOurs, Goto
<1>9. ASSUME NEW p \in Procs, Focus(p)
      PROVE  OnePort'
  <2>1. /\ file' = file /\ strayed' = strayed
        /\ pc' = [pc EXCEPT ![p] = "dead"] /\ port' = [port EXCEPT ![p] = Fixed]
    BY <1>9 DEF Focus, Goto
  <2> QED
    BY <2>1 DEF OnePort, Listening, Serving, LifeTypeOK
<1>10. ASSUME NEW p \in Procs, Bind(p) \/ AskOther(p)
       PROVE  OnePort'
  <2>1. CASE Bind(p)
    BY <2>1, ServeOnePort DEF Bind
  <2>2. CASE AskOther(p)
    <3>1. p # Fixed
      BY DEF Fixed, Procs
    <3>2. strayed' = (strayed \/ p # Fixed)
      BY <2>2 DEF AskOther, Serve
    <3> QED
      BY <3>1, <3>2, Zenon DEF OnePort
  <2> QED
    BY <1>10, <2>1, <2>2
\* The heir binds the port it adopted, which is the one port there is.
<1>11. ASSUME NEW p \in Procs, TakePort(p)
       PROVE  OnePort'
  BY <1>11, ServeOnePort DEF TakePort
<1>12. ASSUME NEW p \in Procs, Write(p) \/ AnnounceHandoff(p)
       PROVE  OnePort'
  <2>1. /\ file' = [pid |-> p, port |-> port[p]]
        /\ UNCHANGED <<strayed, port>>
        /\ \/ pc[p] = "write" /\ pc' = [pc EXCEPT ![p] = "up"]
           \/ pc' = [pc EXCEPT ![p] = "wait"]
    BY <1>12 DEF Write, AnnounceHandoff, WriteFile, Goto
  <2>2. p # Nobody
    BY DEF Nobody, Procs
  <2> QED
    BY <2>1, <2>2 DEF OnePort, Listening, Serving, LifeTypeOK
<1>13. ASSUME NEW p \in Procs, Adopt(p)
       PROVE  OnePort'
  BY <1>13 DEF OnePort, Listening, Serving, LifeTypeOK, Adopt, Goto
<1>14. ASSUME NEW p \in Procs, ReadOwnFile(p) \/ CloseListener(p)
       PROVE  OnePort'
  BY <1>14 DEF OnePort, Listening, Serving, LifeTypeOK, ReadOwnFile,
     CloseListener, Goto
\* Who removes the file listens still: nobody else is up.
<1>15. ASSUME NEW p \in Procs, RemoveFile(p)
       PROVE  OnePort'
  <2>1. /\ UNCHANGED <<strayed, port>> /\ file' = NoInstance
        /\ pc[p] = "unlink" /\ pc' = [pc EXCEPT ![p] = "drain"]
    BY <1>15 DEF RemoveFile, Goto
  <2>2. ~strayed => \A q \in Procs : pc[q] # "up"
    BY <2>1 DEF OnePort, Listening, Serving
  <2> QED
    BY <2>1, <2>2 DEF OnePort, Listening, Serving, LifeTypeOK, NoInstance
<1>16. ASSUME NEW p \in Procs, FinishCheck(p) \/ FinishLook(p)
       PROVE  OnePort'
  BY <1>16 DEF OnePort, Listening, FinishCheck, FinishLook
<1>17. ASSUME NEW p \in Procs,
              Expire(p) \/ ExpiryCheck(p) \/ ExpiryLook(p)
              \/ ExpiryDefer(p)
       PROVE  OnePort'
  BY <1>17 DEF OnePort, Listening, Expire, ExpiryCheck, ExpiryLook,
     ExpiryDefer
<1> QED
  BY <1>1, <1>2, <1>3, <1>4, <1>5, <1>6, <1>7, <1>8, <1>9, <1>10, <1>11, <1>12, <1>13,
     <1>14, <1>15, <1>16, <1>17
     DEF LifeNext, User, Moves, Main, Finish, Expiry

-----------------------------------------------------------------------------
\* LifeIInv holds in every state the processes reach.
THEOREM LifeInvariantHolds == LifeSpec => []LifeIInv
<1>1. LifeInit => LifeIInv
  BY TypeInit, PresenceInit, OnePortInit DEF LifeIInv
<1>2. LifeIInv /\ [LifeNext]_lifeVars => LifeIInv'
  BY TypeKept, PairedKept, TalliedKept, OnePortKept DEF LifeIInv
<1> QED
  BY <1>1, <1>2, PTL DEF LifeSpec

\* A process that is alive never counts a window that is not there, which would
\* keep it for ever, and counts every window until a beacon is handled
\* (lifecycle.go 294-335).
THEOREM PresenceCountedCorrect == LifeSpec => []PresenceCounted
<1>1. LifeIInv => PresenceCounted
  BY DEF LifeIInv, PresenceCounted, Tallied
<1> QED
  BY <1>1, LifeInvariantHolds, PTL

\* Whoever serves is found through instance.json by the next launch, though other
\* instances come, hand over and remove their file, as long as no instance had to
\* take another port (lifecycle.go 502-513, 625, 673).
THEOREM FoundWhenServingCorrect == LifeSpec => []FoundWhenServing
<1>1. LifeIInv => FoundWhenServing
  BY DEF LifeIInv, FoundWhenServing, OnePort
<1> QED
  BY <1>1, LifeInvariantHolds, PTL
=============================================================================
