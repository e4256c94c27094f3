----------------------------- MODULE MCMonitor -----------------------------
(* Values for the constants of Monitor: files and workers are model values. *)
EXTENDS Monitor

CONSTANTS f1, f2, k1, k2
=============================================================================
