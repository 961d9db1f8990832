------------------------------ MODULE EventAgenda ------------------------------
(* What the event scheduler of a processor promises: an event that was       *)
(* asked for is delivered once, never before its time, and at the first      *)
(* block boundary at or after it, however the clocks wrap.  Asking again for *)
(* an event that is pending replaces its time.                               *)
EXTENDS Integers

CONSTANTS
  Events,
  Delays,   \* the delays an event may be asked for with
  Slack     \* the longest block of instructions

VARIABLE agenda   \* for each pending event, the time until it is due

Init == agenda = [n \in {} |-> 0]

Ask(n, d) ==
  agenda' = [m \in DOMAIN agenda \union {n} |-> IF m = n THEN d ELSE agenda[m]]

Deliver(n) ==
  /\ n \in DOMAIN agenda
  /\ agenda[n] <= 0
  /\ agenda' = [m \in DOMAIN agenda \ {n} |-> agenda[m]]

(* A block of instructions runs: no pending event may be overdue already. *)
Pass(b) ==
  /\ \A n \in DOMAIN agenda : agenda[n] >= 0
  /\ agenda' = [n \in DOMAIN agenda |-> agenda[n] - b]

Next ==
  \/ \E n \in Events, d \in Delays : Ask(n, d)
  \/ \E n \in DOMAIN agenda : Deliver(n)
  \/ \E b \in 1 .. Slack : Pass(b)

Spec == Init /\ [][Next]_agenda
===============================================================================
