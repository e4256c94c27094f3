------------------------------ MODULE Traversal ------------------------------
(***************************************************************************)
(* What Phase 1 promises its caller, with no queue, no worker and no lock: *)
(* directories are accounted for one by one, in any order; "ok" is only    *)
(* said when every root, and every subdirectory of every listed directory, *)
(* was listed, refused with a log line or skipped with a log line; and a   *)
(* link target is entered through one link at most.                        *)
(***************************************************************************)
CONSTANTS
    Dirs,    \* the directories a walk from the roots can name
    Roots, Subdirs, Links, Target, Ignored

VARIABLES listed, refused, skipped, outcome
vars == <<listed, refused, skipped, outcome>>

Accounted == listed \cup refused \cup skipped

\* d may be entered: if it is a link, no other link entered has its target.  A
\* root is entered in any case.
Enterable(d) ==
    d \in Links \ Roots =>
        \A l \in (Links \ Roots) \cap (listed \cup refused) : l # d => Target[l] # Target[d]

Init == listed = {} /\ refused = {} /\ skipped = {} /\ outcome = "none"

List(d) ==
    /\ outcome = "none" /\ Enterable(d)
    /\ listed' = listed \cup {d}
    /\ UNCHANGED <<refused, skipped, outcome>>

Refuse(d) ==
    /\ outcome = "none" /\ Enterable(d)
    /\ refused' = refused \cup {d}
    /\ UNCHANGED <<listed, skipped, outcome>>

Skip(d) ==
    /\ outcome = "none" /\ d \in Links \cup Ignored
    /\ skipped' = skipped \cup {d}
    /\ UNCHANGED <<listed, refused, outcome>>

Finish ==
    /\ outcome = "none"
    /\ Roots \subseteq Accounted
    /\ \A p \in listed : Subdirs[p] \subseteq Accounted
    /\ outcome' = "ok"
    /\ UNCHANGED <<listed, refused, skipped>>

Abort ==
    /\ outcome = "none"
    /\ outcome' = "cancelled"
    /\ UNCHANGED <<listed, refused, skipped>>

Next ==
    \/ \E d \in Dirs : List(d) \/ Refuse(d) \/ Skip(d)
    \/ Finish \/ Abort

Spec == Init /\ [][Next]_vars
=============================================================================
