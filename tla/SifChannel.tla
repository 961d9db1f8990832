------------------------------ MODULE SifChannel ------------------------------
(* What a direction of the SIF promises the two processors, without FIFO,    *)
(* tags or DMA registers: the qwords one side sends are stored by the other, *)
(* once each, in the order they were sent and at the place meant for them.   *)
EXTENDS Integers, Sequences

CONSTANT Qword   \* a qword of data, by the place it is meant for

VARIABLES
  inTransit,   \* qwords sent and not stored yet, oldest first
  stored       \* qwords the last step stored, each with the place it went to

Init == inTransit = <<>> /\ stored = <<>>

Send == /\ inTransit' \in Seq(Qword)
        /\ Len(inTransit) <= Len(inTransit')
        /\ inTransit = SubSeq(inTransit', 1, Len(inTransit))
        /\ stored' = <<>>

Store == \E n \in 0 .. Len(inTransit) :
           /\ stored' = [i \in 1 .. n |-> [place |-> inTransit[i], qword |-> inTransit[i]]]
           /\ inTransit' = SubSeq(inTransit, n + 1, Len(inTransit))

Next == Send \/ Store

Spec == Init /\ [][Next]_<<inTransit, stored>>
=============================================================================
