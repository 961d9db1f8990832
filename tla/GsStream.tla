------------------------------- MODULE GsStream -------------------------------
(***************************************************************************)
(* What the MTGS promises the emulator, without a ring: the GS thread acts *)
(* on the packets of the EE thread once each, in the order they were sent, *)
(* with the contents they were sent with.                                  *)
(***************************************************************************)
EXTENDS Sequences

CONSTANTS Packet, None

VARIABLES
  inFlight,  \* packets sent and not finished, oldest first
  current,   \* what the GS thread acted on, before it is finished
  acted      \* TRUE while the packet at the head has been acted on

Init == inFlight = <<>> /\ current = None /\ acted = FALSE

Send == /\ \E p \in Packet : inFlight' = Append(inFlight, p)
        /\ UNCHANGED <<current, acted>>

Act == /\ inFlight # <<>> /\ ~acted
       /\ current' = Head(inFlight)
       /\ acted' = TRUE
       /\ UNCHANGED inFlight

Finish == /\ acted
          /\ inFlight' = Tail(inFlight)
          /\ acted' = FALSE
          /\ current' = None

Next == Send \/ Act \/ Finish

Spec == Init /\ [][Next]_<<inFlight, current, acted>>
=============================================================================
