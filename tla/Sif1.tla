--------------------------------- MODULE Sif1 ---------------------------------
(* SIF1, the transfers from the EE to the IOP (Sif.cpp, and psxDma10 of      *)
(* IopDma.cpp): as Sif0, with the roles exchanged and another shape of chain.*)
(*                                                                           *)
(* The EE side walks a source chain, whose tags only say which qwords to     *)
(* send.  What the IOP side takes for its tags is the first qword of each    *)
(* packet, put there by the EE's software, and a packet may be split over    *)
(* two tags of the chain.  The EE side is the first in the loop here.        *)
(*                                                                           *)
(* The guest code is modelled by what it writes to the channels: SifSetDma   *)
(* of the EE kernel, SifSetDChain of sifman (fps2bios/kernel).  It sends     *)
(* packets of whole qwords, in chain mode and without TTE.  Not modelled:    *)
(* stall control, the status bits of 0x1000F240, the cycles after which an   *)
(* interrupt comes, and SifSetDma taking back a chain that still runs.       *)
EXTENDS Integers, SequencesExt

CONSTANTS
  FifoSize,   \* FIFO_SIF1_W, in qwords
  Addr,       \* addresses of packets in IOP memory
  MaxQwc,     \* qwords of the longest packet
  MaxChain    \* BOUND on the packets of a chain

(* A packet for the IOP; irq: tagMode & 0xC0, the IOP's channel stops on it. *)
Packet == [addr : Addr, len : 0 .. MaxQwc, irq : BOOLEAN]

ASSUME Sif1Assumption ==
  /\ FifoSize \in Nat \ {0}
  /\ MaxQwc \in Nat
  /\ MaxChain \in Nat \ {0}

VARIABLES
  pc,           \* "idle", or the side of the loop in SIF1Dma that is next
  notDone,
  fifo,         \* sif1.fifoData, oldest first
  eeSTR,        \* sif1dma->chcr & 0x100
  eesifbusy,
  chain,        \* the tags at sif1dma->tadr, each by the qwords it sends
  source,       \* the sif1dma->qwc qwords at sif1dma->madr
  end,          \* sif1.end
  eeEvt,        \* CPU_INT(6) is scheduled
  iopTR,        \* HW_DMA10_CHCR: the channel was started and not interrupted
  iopsifbusy,
  counter,      \* sif1.counter
  madr10,       \* where HW_DMA10_MADR points to
  tagMode,      \* sif1.tagMode & 0xC0
  iopEvt,       \* IopEvt_SIF1 is scheduled
  stored,       \* history: qwords the last step stored, and where
  tag           \* history: the tag the IOP read last, since it was started

eeVars == <<eeSTR, eesifbusy, chain, source, end, eeEvt>>
iopVars == <<iopTR, iopsifbusy, counter, madr10, tagMode, iopEvt, tag>>
vars == <<pc, notDone, fifo, eeVars, iopVars, stored>>

(* A qword of a packet: packet contents are told apart by their places. *)
Place == [addr : Addr, k : 0 .. MaxQwc]
Nowhere == [addr |-> CHOOSE a \in Addr : TRUE, k |-> MaxQwc]
NoTag == [addr |-> Nowhere.addr, len |-> 0, irq |-> FALSE]

(* The FIFO holds tags for the IOP, and qwords of data. *)
TagItem(p) == [tag |-> p, place |-> Nowhere]
DataItem(pl) == [tag |-> NoTag, place |-> pl]
Item == [tag : Packet, place : Place]

Least(a, b) == IF a < b THEN a ELSE b
From(pl, i) == [pl EXCEPT !.k = @ + i]
Take(s, n) == SubSeq(s, 1, n)
Drop(s, n) == SubSeq(s, n + 1, Len(s))

Init ==
  /\ pc = "idle" /\ notDone = FALSE /\ fifo = <<>>
  /\ eeSTR = FALSE /\ eesifbusy = FALSE /\ chain = <<>> /\ source = <<>>
  /\ end = FALSE /\ eeEvt = FALSE
  /\ iopTR = FALSE /\ iopsifbusy = FALSE /\ counter = 0 /\ madr10 = Nowhere
  /\ tagMode = FALSE /\ iopEvt = FALSE
  /\ stored = <<>> /\ tag = NoTag

-----------------------------------------------------------------------------
(* The processors start their channels. *)

(* Into SIF1Dma when the other channel is waiting. *)
Kick(otherBusy) ==
  IF otherBusy THEN pc' = "ee" /\ notDone' = TRUE
               ELSE UNCHANGED <<pc, notDone>>

(* A packet as the EE software lays it out, behind the tag for the IOP, and  *)
(* the tags of the source chain for it: one, or one for its head and one for *)
(* the rest.                                                                 *)
Contents(p) == <<TagItem(p)>> \o [k \in 1 .. p.len |-> DataItem([addr |-> p.addr, k |-> k - 1])]
Layouts(p) == {<<Contents(p)>>} \cup
              {<<Take(Contents(p), n), Drop(Contents(p), n)>> : n \in 1 .. p.len}

(* The tags of a chain of packets. *)
Chains(ps) ==
  LET C[i \in 0 .. Len(ps)] ==
        IF i = 0 THEN {<<>>}
        ELSE {c \o l : c \in C[i - 1], l \in Layouts(ps[i])}
  IN C[Len(ps)]

dmaSIF1 ==
  /\ pc = "idle"
  /\ ~eeSTR
  /\ \E n \in 1 .. MaxChain : \E ps \in [1 .. n -> Packet] :
       chain' \in Chains(ps)
  /\ eeSTR' = TRUE
  /\ eesifbusy' = TRUE
  /\ Kick(iopsifbusy)
  /\ stored' = <<>>
  /\ UNCHANGED <<fifo, source, end, eeEvt, iopVars>>

(* Definitions named ..._Mutant plant a bug in the one that follows, to show *)
(* that the property it is meant to break is not vacuous.                    *)

(* Runs the loop whether or not the EE waits. *)
psxDma10_Mutant ==
  /\ pc = "idle"
  /\ ~iopTR
  /\ iopTR' = TRUE
  /\ iopsifbusy' = TRUE
  /\ tag' = NoTag
  /\ Kick(TRUE)
  /\ stored' = <<>>
  /\ UNCHANGED <<fifo, eeVars, counter, madr10, tagMode, iopEvt>>

psxDma10 ==
  /\ pc = "idle"
  /\ ~iopTR
  /\ iopTR' = TRUE
  /\ iopsifbusy' = TRUE
  /\ tag' = NoTag
  /\ Kick(eesifbusy)
  /\ stored' = <<>>
  /\ UNCHANGED <<fifo, eeVars, counter, madr10, tagMode, iopEvt>>

-----------------------------------------------------------------------------
(* The loop of SIF1Dma: the EE side...  Inside the loop both channels are    *)
(* busy all the time (InStep), so that no step skips one that is not.        *)

(* Leaves sif1.end set, as SIF0Dma leaves sif0.end. *)
EeStopEnd_Mutant ==
  /\ source = <<>> /\ end
  /\ eesifbusy' = FALSE
  /\ eeEvt' = TRUE
  /\ notDone' = FALSE
  /\ UNCHANGED <<fifo, chain, source, end>>

EeStop ==
  /\ source = <<>> /\ end
  /\ eesifbusy' = FALSE
  /\ eeEvt' = TRUE
  /\ end' = FALSE
  /\ notDone' = FALSE
  /\ UNCHANGED <<fifo, chain, source>>

(* REFE and the interrupt bit end a chain; the other tags differ in where    *)
(* their data is.                                                            *)
EeTag ==
  /\ source = <<>> /\ ~end
  /\ source' = Head(chain)
  /\ chain' = Tail(chain)
  /\ end' = (Len(chain) = 1)
  /\ notDone' = TRUE
  /\ UNCHANGED <<fifo, eesifbusy, eeEvt>>

EeData ==
  /\ source # <<>>
  /\ LET n == Least(Len(source), FifoSize - Len(fifo)) IN
       /\ fifo' = fifo \o Take(source, n)
       /\ source' = Drop(source, n)
  /\ UNCHANGED <<eesifbusy, chain, end, eeEvt, notDone>>

EeSide ==
  /\ pc = "ee" /\ eesifbusy
  /\ EeStop \/ EeTag \/ EeData
  /\ pc' = "iop"
  /\ stored' = <<>>
  /\ UNCHANGED <<eeSTR, iopVars>>

(* ... and the IOP side, which first stores what it can of the packet. *)
Readable == Least(counter, Len(fifo))
Left == counter - Readable

IopRead ==
  stored' = [i \in 1 .. Readable |-> [place |-> From(madr10, i - 1),
                                      qword |-> fifo[i].place]]

IopStore ==
  /\ Left > 0
  /\ counter' = Left
  /\ madr10' = From(madr10, Readable)
  /\ fifo' = Drop(fifo, Readable)
  /\ UNCHANGED <<iopsifbusy, iopEvt, tagMode, notDone, tag>>

IopStop ==
  /\ Left = 0 /\ tagMode
  /\ iopsifbusy' = FALSE
  /\ iopEvt' = TRUE
  /\ tagMode' = FALSE
  /\ notDone' = FALSE
  /\ counter' = 0
  /\ madr10' = From(madr10, Readable)
  /\ fifo' = Drop(fifo, Readable)
  /\ UNCHANGED tag

(* Stores on behind the packet before. *)
IopTag_Mutant ==
  /\ Left = 0 /\ ~tagMode
  /\ Len(fifo) > Readable
  /\ LET p == fifo[Readable + 1].tag IN
       /\ tag' = p
       /\ counter' = p.len
       /\ madr10' = From(madr10, Readable)
       /\ tagMode' = p.irq
  /\ fifo' = Drop(fifo, Readable + 1)
  /\ notDone' = TRUE
  /\ UNCHANGED <<iopsifbusy, iopEvt>>

IopTag ==
  /\ Left = 0 /\ ~tagMode
  /\ Len(fifo) > Readable
  /\ LET p == fifo[Readable + 1].tag IN
       /\ tag' = p
       /\ counter' = p.len
       /\ madr10' = [addr |-> p.addr, k |-> 0]
       /\ tagMode' = p.irq
  /\ fifo' = Drop(fifo, Readable + 1)
  /\ notDone' = TRUE
  /\ UNCHANGED <<iopsifbusy, iopEvt>>

IopWait ==
  /\ Left = 0 /\ ~tagMode
  /\ Len(fifo) = Readable
  /\ counter' = 0
  /\ madr10' = From(madr10, Readable)
  /\ fifo' = Drop(fifo, Readable)
  /\ UNCHANGED <<iopsifbusy, iopEvt, tagMode, notDone, tag>>

IopSide ==
  /\ pc = "iop" /\ iopsifbusy
  /\ IopRead
  /\ IopStore \/ IopStop \/ IopTag \/ IopWait
  /\ pc' = IF notDone' THEN "ee" ELSE "idle"
  /\ UNCHANGED <<eeVars, iopTR>>

SIF1Dma == EeSide \/ IopSide

-----------------------------------------------------------------------------
(* The interrupts, some time after the channels have stopped. *)

sif1Interrupt ==
  /\ pc = "idle"
  /\ iopEvt
  /\ iopEvt' = FALSE
  /\ iopTR' = FALSE
  /\ stored' = <<>>
  /\ UNCHANGED <<pc, notDone, fifo, eeVars, iopsifbusy, counter, madr10, tagMode,
                 tag>>

EEsif1Interrupt ==
  /\ pc = "idle"
  /\ eeEvt
  /\ eeEvt' = FALSE
  /\ eeSTR' = FALSE
  /\ stored' = <<>>
  /\ UNCHANGED <<pc, notDone, fifo, eesifbusy, chain, source, end, iopVars>>

Next == dmaSIF1 \/ psxDma10 \/ SIF1Dma \/ sif1Interrupt \/ EEsif1Interrupt

Spec == Init /\ [][Next]_vars

(* The emulator runs the loop and delivers what is scheduled, and the IOP    *)
(* starts its channel again after each interrupt.  The EE need not send.     *)
FairSpec == Spec /\ WF_vars(SIF1Dma) /\ WF_vars(sif1Interrupt)
                 /\ WF_vars(EEsif1Interrupt) /\ WF_vars(psxDma10)

-----------------------------------------------------------------------------
(* Correctness. *)

(* The two sides stay in step: the IOP side takes a tag in the turn in which *)
(* the EE side has sent it, so that no tag is left in the FIFO for a later   *)
(* turn; what the FIFO holds at the end of a turn belongs to the packet      *)
(* begun; and while the loop runs both sides are busy, so that it is never   *)
(* left with a side that waits for one that has stopped.                     *)
InStep ==
  /\ pc = "idle" => fifo = <<>>
  /\ pc = "ee" => Len(fifo) <= counter /\ iopsifbusy /\ eesifbusy
  /\ pc = "iop" => /\ iopsifbusy
                   /\ eesifbusy \/ Len(fifo) <= counter
                   /\ Len(fifo) > counter =>
                        fifo[counter + 1] = TagItem(fifo[counter + 1].tag)

(* The qwords that the EE has started to send and the IOP has not stored: in *)
(* the FIFO, behind the tag begun, behind those to come.  A tag for the IOP  *)
(* may be ahead of the data in each.                                         *)
Lead(s) == IF s # <<>> /\ s[1].place = Nowhere THEN 1 ELSE 0
DataOf(s) == [i \in 1 .. Len(s) - Lead(s) |-> s[i + Lead(s)].place]
Behind(c) == FlattenSeq([i \in 1 .. Len(c) |-> DataOf(c[i])])
InTransit == DataOf(fifo) \o DataOf(source) \o Behind(chain)

(* What the EE sends is stored in the end. *)
AllStored == (InTransit # <<>>) ~> (InTransit = <<>>)

(* Every qword is stored once, in order and in its place. *)
Channel == INSTANCE SifChannel WITH Qword <- Place, inTransit <- InTransit
ImplementsChannel == Channel!Spec
=============================================================================
