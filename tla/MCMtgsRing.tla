------------------------------ MODULE MCMtgsRing ------------------------------
(* MtgsRing on small instances. *)
EXTENDS MtgsRing, TLC

Payloads == Permutations(Payload)
=============================================================================
