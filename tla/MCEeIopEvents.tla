---------------------------- MODULE MCEeIopEvents ----------------------------
(* EeIopEvents with the constants of its run. *)
EXTENDS EeIopEvents
CONSTANTS e1, e2, i1
Order == <<e1, e2>>
PsxOrder == <<i1>>
===============================================================================
