--------------------------- MODULE MCFileActions ---------------------------
(* Two files of the same name, whose moves meet in one place, and a folder  *)
(* on a volume without a Lixeira.                                           *)
EXTENDS FileActions, TLC

CONSTANTS a, b, c, d, e

MCTarget == (a :> d) @@ (b :> d) @@ (c :> e)
MCScopes == {{a, b, c, d, e}}
MCSuggestions ==
    {[kind |-> "MOVE", files |-> <<a, b>>], [kind |-> "RECYCLE", files |-> <<c, a>>],
     [kind |-> "TAG", files |-> <<b>>], [kind |-> "DELETE", files |-> <<a>>]}
MCRequests == {[how |-> "DELETE", files |-> <<c, b>>, confirmed |-> FALSE]}
=============================================================================
