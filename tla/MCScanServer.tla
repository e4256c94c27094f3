---------------------------- MODULE MCScanServer ----------------------------
(* Values for the constants of ScanServer: the identifiers are model values *)
(* and the budgets of each run are the sets its cfg gives.                  *)
EXTENDS ScanServer

CONSTANTS c1, c2, x1, l1
=============================================================================
