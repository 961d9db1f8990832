------------------------------- MODULE MCSif0 -------------------------------
(* Sif0 with the constants of its runs. *)
EXTENDS Sif0
=============================================================================
