----------------------------- MODULE MCJobQueue -----------------------------
(***************************************************************************)
(* An instance of JobQueue for TLC: two processes, a row with a handler    *)
(* and one without, a retry by the staff and a fault.                      *)
(***************************************************************************)
EXTENDS JobQueue

CONSTANTS j1, j2, w1, w2
=============================================================================
