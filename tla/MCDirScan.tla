----------------------------- MODULE MCDirScan -----------------------------
(***************************************************************************)
(* Two disjoint roots and three workers, links not followed (the default). *)
(* Root c has two subdirectories, one of them with a child that is below   *)
(* the maximum depth; root d holds nothing but a link.                     *)
(***************************************************************************)
EXTENDS DirScan

CONSTANTS w1, w2, w3

MCDirs == {"c", "c1", "c2", "c11", "d", "dl"}
MCRootSeq == <<"c", "d">>
MCSubdirs == [p \in MCDirs |->
    CASE p = "c"  -> {"c1", "c2"}
      [] p = "c1" -> {"c11"}
      [] p = "d"  -> {"dl"}
      [] OTHER    -> {}]
MCTooDeep == {"c11"}
MCLinks == {"dl"}
MCTarget == [l \in MCLinks |-> "key_c"]
MCRootKeys == {"key_c", "key_d"}

ASSUME Forest
=============================================================================
