--------------------------- MODULE MCJobLifecycle ---------------------------
(***************************************************************************)
(* Two clicks on one button, the process of one of which may die, and a    *)
(* worker with one slot that is killed at most twice.                      *)
(***************************************************************************)
EXTENDS JobLifecycle

CONSTANTS p1, p2
=============================================================================
