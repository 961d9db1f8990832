---------------------------- MODULE MCEeInterrupts ----------------------------
(* EeInterrupts, which has no constants, for its runs. *)
EXTENDS EeInterrupts
===============================================================================
