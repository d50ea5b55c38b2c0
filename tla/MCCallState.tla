----------------------------- MODULE MCCallState -----------------------------
(***************************************************************************)
(* CallState with workers that TLC need not tell apart.  For runs that     *)
(* check safety only.                                                      *)
(***************************************************************************)
EXTENDS CallState, TLC

WorkerSymmetry == Permutations(Workers)
=============================================================================
