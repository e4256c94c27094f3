--------------------------- MODULE MCDirScanLinks ---------------------------
(***************************************************************************)
(* One root r with a recycle bin (bin), two subdirectories that link to    *)
(* each other and a link of its own to one of them: a holds the link al    *)
(* -> b, b holds the link bm -> a, and r holds the link rb -> b.  Through  *)
(* al the walk meets the link back to a (alm), through bm the link back to *)
(* b (bml), through rb another link to a (rbm).                             *)
(***************************************************************************)
EXTENDS DirScan

CONSTANTS w1, w2

MCDirs == {"r", "a", "b", "bin", "rb", "al", "bm", "alm", "bml", "rbm"}
MCRootSeq == <<"r">>
MCSubdirs == [d \in MCDirs |->
    CASE d = "r"  -> {"a", "b", "bin", "rb"}
      [] d = "a"  -> {"al"}
      [] d = "b"  -> {"bm"}
      [] d = "al" -> {"alm"}
      [] d = "bm" -> {"bml"}
      [] d = "rb" -> {"rbm"}
      [] OTHER    -> {}]
MCLinks == {"rb", "al", "bm", "alm", "bml", "rbm"}
MCTarget == [l \in MCLinks |-> IF l \in {"rb", "al", "bml"} THEN "key_b" ELSE "key_a"]
MCRootKeys == {"key_r"}
MCAncestorLinks == {"alm", "bml"}
MCIgnored == {"bin"}
=============================================================================
