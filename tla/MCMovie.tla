------------------------------ MODULE MCMovie ------------------------------
(* Movie with the constants of its runs: the pad values are interchangeable. *)
EXTENDS Movie, TLC

PadSymmetry == Permutations(Pad)
=============================================================================
