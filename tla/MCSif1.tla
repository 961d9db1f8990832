------------------------------- MODULE MCSif1 -------------------------------
(* Sif1 with the constants of its runs. *)
EXTENDS Sif1
=============================================================================
