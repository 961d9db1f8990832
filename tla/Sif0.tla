--------------------------------- MODULE Sif0 ---------------------------------
(* SIF0, the transfers from the IOP to the EE (Sif.cpp, and psxDma9 of       *)
(* IopDma.cpp).                                                              *)
(*                                                                           *)
(* Two DMA channels with a FIFO between them.  Each processor starts its own *)
(* channel when it likes; SIF0Dma runs when both have, on the one thread of  *)
(* the emulator, and moves data in a loop with no exit but one of the two    *)
(* channels stopping.  The IOP side walks a chain of tags; behind each it    *)
(* finds a packet, and a tag for the EE that it sends ahead of the packet.   *)
(* The EE side takes that tag out of the FIFO and stores as many qwords as   *)
(* it says.                                                                  *)
(*                                                                           *)
(* The unit is the qword: the code rounds the words of a packet up to four,  *)
(* and a tag has four.  The guest code on both sides is modelled by what it  *)
(* writes to the channels: sifman's SifSetDma on the IOP, SifSetDChain on    *)
(* the EE (fps2bios/kernel).  Not modelled: stall control, the status bits   *)
(* of 0x1000F240, and the cycles after which an interrupt comes.             *)
EXTENDS Integers, SequencesExt

CONSTANTS
  FifoSize,   \* FIFO_SIF0_W, in qwords
  Addr,       \* addresses of packets in EE memory
  MaxQwc,     \* qwords of the longest packet
  TagEnds,    \* values of the END bit in tags for the EE
  MaxChain    \* BOUND on the tags of a chain

(* A packet as its tags describe it: len qwords for addr; irq, the EE is to  *)
(* be interrupted behind it; end, it ends the EE's chain.                    *)
Packet == [addr : Addr, len : 0 .. MaxQwc, irq : BOOLEAN, end : TagEnds]

(* A packet to be interrupted behind has data.  Two empty ones would put the *)
(* EE two tags behind the IOP, and the loop of SIF0Dma need not end then.    *)
Sendable == {p \in Packet : p.irq => p.len > 0}

ASSUME Sif0Assumption ==
  /\ FifoSize \in Nat \ {0}
  /\ Addr # {}
  /\ MaxQwc \in Nat
  /\ TagEnds \subseteq BOOLEAN
  /\ MaxChain \in Nat \ {0}

VARIABLES
  pc,           \* "idle", or the side of the loop in SIF0Dma that is next
  notDone,
  fifo,         \* sif0.fifoData, oldest first
  iopTR,        \* HW_DMA9_CHCR: the channel was started and not interrupted
  iopsifbusy,
  chain,        \* the tags at HW_DMA9_TADR
  stop,         \* sif0.sifData.data & 0xC0000000
  counter,      \* sif0.counter
  madr9,        \* the packet and the qword of it that HW_DMA9_MADR points to
  iopEvt,       \* IopEvt_SIF0 is scheduled
  eeSTR,        \* sif0dma->chcr & 0x100
  eesifbusy,
  qwc,          \* sif0dma->qwc
  madr,         \* where sif0dma->madr points to
  chcrIRQ,      \* sif0dma->chcr & 0x80000000
  end,          \* sif0.end
  eeEvt,        \* CPU_INT(5) is scheduled
  stored,       \* history: qwords the last step stored, and where
  tag           \* history: the tag the EE read last, since it was started

iopVars == <<iopTR, iopsifbusy, chain, stop, counter, madr9, iopEvt>>
eeVars == <<eeSTR, eesifbusy, qwc, madr, chcrIRQ, end, eeEvt, tag>>
vars == <<pc, notDone, fifo, iopVars, eeVars, stored>>

(* A qword of a packet: packet contents are told apart by their places. *)
Place == [addr : Addr, k : 0 .. MaxQwc]
Nowhere == [addr |-> CHOOSE a \in Addr : TRUE, k |-> MaxQwc]
NoTag == [addr |-> Nowhere.addr, len |-> 0, irq |-> FALSE, end |-> FALSE]

(* The FIFO holds tags for the EE, and qwords of data. *)
TagItem(p) == [tag |-> p, place |-> Nowhere]
DataItem(pl) == [tag |-> NoTag, place |-> pl]
Item == [tag : Packet \cup {NoTag}, place : Place]

Least(a, b) == IF a < b THEN a ELSE b
From(pl, i) == [pl EXCEPT !.k = @ + i]
Drop(s, n) == SubSeq(s, n + 1, Len(s))

Init ==
  /\ pc = "idle" /\ notDone = FALSE /\ fifo = <<>>
  /\ iopTR = FALSE /\ iopsifbusy = FALSE /\ chain = <<>> /\ stop = FALSE
  /\ counter = 0 /\ madr9 = Nowhere /\ iopEvt = FALSE
  /\ eeSTR = FALSE /\ eesifbusy = FALSE /\ qwc = 0 /\ madr = Nowhere
  /\ chcrIRQ = FALSE /\ end = FALSE /\ eeEvt = FALSE
  /\ stored = <<>> /\ tag = NoTag

-----------------------------------------------------------------------------
(* The processors start their channels. *)

(* Into SIF0Dma when the other channel is waiting. *)
Kick(otherBusy) ==
  IF otherBusy THEN pc' = "iop" /\ notDone' = TRUE
               ELSE UNCHANGED <<pc, notDone>>

psxDma9 ==
  /\ pc = "idle"
  /\ ~iopTR
  /\ \E n \in 1 .. MaxChain : \E c \in [1 .. n -> Sendable] :
       chain' = c
  /\ iopTR' = TRUE
  /\ iopsifbusy' = TRUE
  /\ Kick(eesifbusy)
  /\ stored' = <<>>
  /\ UNCHANGED <<fifo, stop, counter, madr9, iopEvt, eeVars>>

(* Definitions named ..._Mutant plant a bug in the one that follows, to show *)
(* that the property it is meant to break is not vacuous.                    *)

(* Keeps the interrupt bit of the tag before. *)
dmaSIF0_Mutant ==
  /\ pc = "idle"
  /\ ~eeSTR
  /\ qwc' = 0 /\ eeSTR' = TRUE
  /\ eesifbusy' = TRUE
  /\ tag' = NoTag
  /\ Kick(iopsifbusy)
  /\ stored' = <<>>
  /\ UNCHANGED <<fifo, iopVars, madr, chcrIRQ, end, eeEvt>>

dmaSIF0 ==
  /\ pc = "idle"
  /\ ~eeSTR
  /\ chcrIRQ' = FALSE /\ qwc' = 0 /\ eeSTR' = TRUE
  /\ eesifbusy' = TRUE
  /\ tag' = NoTag
  /\ Kick(iopsifbusy)
  /\ stored' = <<>>
  /\ UNCHANGED <<fifo, iopVars, madr, end, eeEvt>>

-----------------------------------------------------------------------------
(* The loop of SIF0Dma: the IOP side...  Inside the loop both channels are  *)
(* busy all the time (InStep), so that no step skips one that is not.       *)

(* Stops with data to send. *)
IopStop_Mutant ==
  /\ stop
  /\ iopsifbusy' = FALSE
  /\ iopEvt' = TRUE
  /\ stop' = FALSE
  /\ notDone' = FALSE
  /\ UNCHANGED <<fifo, iopTR, chain, counter, madr9>>

(* Schedules the interrupt, but does not stop. *)
IopStopLoops_Mutant ==
  /\ counter = 0 /\ stop
  /\ iopEvt' = TRUE
  /\ UNCHANGED <<fifo, iopTR, iopsifbusy, chain, stop, counter, madr9, notDone>>

IopStop ==
  /\ counter = 0 /\ stop
  /\ iopsifbusy' = FALSE
  /\ iopEvt' = TRUE
  /\ stop' = FALSE
  /\ notDone' = FALSE
  /\ UNCHANGED <<fifo, iopTR, chain, counter, madr9>>

IopTag ==
  /\ counter = 0 /\ ~stop
  /\ LET p == Head(chain) IN
       /\ fifo' = Append(fifo, TagItem(p))
       /\ counter' = p.len
       /\ madr9' = [addr |-> p.addr, k |-> 0]
  /\ stop' = (Len(chain) = 1)
  /\ chain' = Tail(chain)
  /\ notDone' = TRUE
  /\ UNCHANGED <<iopTR, iopsifbusy, iopEvt>>

(* Does not look for room. *)
IopData_Mutant ==
  /\ counter > 0
  /\ LET n == counter IN
       /\ fifo' = fifo \o [i \in 1 .. n |-> DataItem(From(madr9, i - 1))]
       /\ madr9' = From(madr9, n)
       /\ counter' = counter - n
  /\ UNCHANGED <<iopTR, iopsifbusy, chain, stop, iopEvt, notDone>>

(* Sends the first qwords of a long packet again. *)
IopDataAgain_Mutant ==
  /\ counter > 0
  /\ LET n == Least(counter, FifoSize - Len(fifo)) IN
       /\ fifo' = fifo \o [i \in 1 .. n |-> DataItem(From(madr9, i - 1))]
       /\ counter' = counter - n
  /\ UNCHANGED <<iopTR, iopsifbusy, chain, stop, madr9, iopEvt, notDone>>

IopData ==
  /\ counter > 0
  /\ LET n == Least(counter, FifoSize - Len(fifo)) IN
       /\ fifo' = fifo \o [i \in 1 .. n |-> DataItem(From(madr9, i - 1))]
       /\ madr9' = From(madr9, n)
       /\ counter' = counter - n
  /\ UNCHANGED <<iopTR, iopsifbusy, chain, stop, iopEvt, notDone>>

IopSide ==
  /\ pc = "iop" /\ iopsifbusy
  /\ IopStop \/ IopTag \/ IopData
  /\ pc' = "ee"
  /\ stored' = <<>>
  /\ UNCHANGED eeVars

(* ... and the EE side, which first stores what it can of the packet. *)
Readable == Least(qwc, Len(fifo))
Left == qwc - Readable

EeRead ==
  stored' = [i \in 1 .. Readable |-> [place |-> From(madr, i - 1),
                                      qword |-> fifo[i].place]]

EeStore ==
  /\ Left > 0
  /\ qwc' = Left
  /\ madr' = From(madr, Readable)
  /\ fifo' = Drop(fifo, Readable)
  /\ UNCHANGED <<eesifbusy, eeEvt, notDone, chcrIRQ, end, tag>>

EeStop ==
  /\ Left = 0 /\ (chcrIRQ \/ end)
  /\ eesifbusy' = FALSE
  /\ eeEvt' = TRUE
  /\ notDone' = FALSE
  /\ qwc' = 0
  /\ madr' = From(madr, Readable)
  /\ fifo' = Drop(fifo, Readable)
  /\ UNCHANGED <<chcrIRQ, end, tag>>

EeTag ==
  /\ Left = 0 /\ ~chcrIRQ /\ ~end
  /\ Len(fifo) > Readable
  /\ LET p == fifo[Readable + 1].tag IN
       /\ tag' = p
       /\ qwc' = p.len
       /\ madr' = [addr |-> p.addr, k |-> 0]
       /\ chcrIRQ' = p.irq
       /\ end' = (end \/ p.end)
  /\ fifo' = Drop(fifo, Readable + 1)
  /\ notDone' = TRUE
  /\ UNCHANGED <<eesifbusy, eeEvt>>

EeWait ==
  /\ Left = 0 /\ ~chcrIRQ /\ ~end
  /\ Len(fifo) = Readable
  /\ qwc' = 0
  /\ madr' = From(madr, Readable)
  /\ fifo' = Drop(fifo, Readable)
  /\ UNCHANGED <<eesifbusy, eeEvt, notDone, chcrIRQ, end, tag>>

EeSide ==
  /\ pc = "ee" /\ eesifbusy
  /\ EeRead
  /\ EeStore \/ EeStop \/ EeTag \/ EeWait
  /\ pc' = IF notDone' THEN "iop" ELSE "idle"
  /\ UNCHANGED <<iopVars, eeSTR>>

SIF0Dma == IopSide \/ EeSide

-----------------------------------------------------------------------------
(* The interrupts, some time after the channels have stopped. *)

sif0Interrupt ==
  /\ pc = "idle"
  /\ iopEvt
  /\ iopEvt' = FALSE
  /\ iopTR' = FALSE
  /\ stored' = <<>>
  /\ UNCHANGED <<pc, notDone, fifo, iopsifbusy, chain, stop, counter, madr9,
                 eeVars>>

EEsif0Interrupt ==
  /\ pc = "idle"
  /\ eeEvt
  /\ eeEvt' = FALSE
  /\ eeSTR' = FALSE
  /\ stored' = <<>>
  /\ UNCHANGED <<pc, notDone, fifo, iopVars, eesifbusy, qwc, madr, chcrIRQ, end,
                 tag>>

Next == psxDma9 \/ dmaSIF0 \/ SIF0Dma \/ sif0Interrupt \/ EEsif0Interrupt

Spec == Init /\ [][Next]_vars

(* The emulator runs the loop and delivers what is scheduled, and the EE     *)
(* starts its channel again after each interrupt.  The IOP need not send.    *)
FairSpec == Spec /\ WF_vars(SIF0Dma) /\ WF_vars(sif0Interrupt)
                 /\ WF_vars(EEsif0Interrupt) /\ WF_vars(dmaSIF0)

-----------------------------------------------------------------------------
(* Correctness. *)

(* Every variable stays in its domain, and the FIFO within its array.        *)
TypeOK ==
  /\ pc \in {"idle", "iop", "ee"} /\ notDone \in BOOLEAN
  /\ fifo \in Seq(Item) /\ Len(fifo) <= FifoSize
  /\ iopTR \in BOOLEAN /\ iopsifbusy \in BOOLEAN /\ iopEvt \in BOOLEAN
  /\ chain \in Seq(Sendable) /\ stop \in BOOLEAN
  /\ counter \in 0 .. MaxQwc /\ madr9 \in Place
  /\ eeSTR \in BOOLEAN /\ eesifbusy \in BOOLEAN /\ eeEvt \in BOOLEAN
  /\ qwc \in 0 .. MaxQwc /\ madr \in Place
  /\ chcrIRQ \in BOOLEAN /\ end \in BOOLEAN
  /\ stored \in Seq([place : Place, qword : Place])
  /\ tag \in Packet \cup {NoTag}

(* The two sides stay in step, although neither looks at the other: behind   *)
(* each turn of the EE side the FIFO is empty and what is left of the packet *)
(* is the same on both sides; and while the loop runs both are busy.  So the *)
(* tag that the IOP side writes without looking for room always finds some,  *)
(* and the loop, which ends only by a side stopping, is never left with a    *)
(* side that waits for one that has stopped.                                 *)
InStep ==
  /\ pc = "idle" => fifo = <<>>
  /\ pc = "iop" => fifo = <<>> /\ qwc = counter /\ iopsifbusy /\ eesifbusy
  /\ pc = "ee" => /\ eesifbusy
                  /\ \/ qwc = counter + Len(fifo)
                     \/ qwc = 0 /\ Len(fifo) = 1 /\ counter = fifo[1].tag.len

(* When SIF0Dma schedules the end of the IOP's transfer, the EE has all of   *)
(* it.                                                                       *)
DoneMeansStored == iopEvt => chain = <<>> /\ counter = 0 /\ fifo = <<>>

(* The EE is interrupted behind a packet that asks for it, with all of its   *)
(* data stored.                                                              *)
InterruptBehindPacket ==
  eeEvt => tag.irq /\ madr = [addr |-> tag.addr, k |-> tag.len]

(* What the EE stores goes where it is meant to go, whatever the packets, the *)
(* turns in which they came through the FIFO and the stops in between.       *)
StoredInPlace == \A i \in 1 .. Len(stored) : stored[i].place = stored[i].qword

(* The inductive invariant, for tags without END. *)

(* A channel that is busy was started and not interrupted.  The chain of the *)
(* IOP side ends with stop; one that is not busy has nothing left.           *)
IopChannel ==
  /\ iopsifbusy => iopTR /\ ~iopEvt /\ (stop <=> chain = <<>>)
  /\ ~iopsifbusy => counter = 0 /\ ~stop /\ chain = <<>>
  /\ iopEvt => iopTR
  /\ madr9.k + counter <= MaxQwc

EeChannel ==
  /\ eesifbusy => eeSTR /\ ~eeEvt /\ (chcrIRQ => qwc > 0)
  /\ ~eesifbusy => qwc = 0
  /\ eeEvt => eeSTR
  /\ ~end
  /\ madr.k + qwc <= MaxQwc

(* The EE side knows of the packet what its tag said. *)
TagTaken ==
  /\ chcrIRQ = tag.irq
  /\ tag.irq => madr.addr = tag.addr /\ madr.k + qwc = tag.len

(* Where the loop stands: the IOP side has sent a tag, or data that fits     *)
(* what the EE side waits for, or has stopped with nothing to be waited for. *)
LoopState ==
  /\ pc = "idle" => qwc = 0 /\ counter = 0
  /\ pc = "iop" => notDone /\ (qwc > 0 => madr9 = madr)
  /\ pc = "ee" =>
       /\ notDone <=> iopsifbusy
       /\ ~notDone => qwc = 0 /\ fifo = <<>>
       /\ IF qwc = 0
          THEN fifo # <<>> =>
                 /\ fifo[1].tag \in Sendable /\ fifo[1] = TagItem(fifo[1].tag)
                 /\ madr9 = [addr |-> fifo[1].tag.addr, k |-> 0]
          ELSE /\ \A i \in 1 .. Len(fifo) : fifo[i].place = From(madr, i - 1)
               /\ madr9 = From(madr, Len(fifo))

SifInv == /\ TypeOK /\ InStep /\ DoneMeansStored /\ InterruptBehindPacket
          /\ StoredInPlace
          /\ IopChannel /\ EeChannel /\ TagTaken /\ LoopState

(* SIF0Dma returns. *)
LoopEnds == (pc # "idle") ~> (pc = "idle")

(* The qwords that the IOP has started to send and the EE has not stored: in *)
(* the FIFO, where a tag may be ahead of them, in the packet begun, and in    *)
(* those behind the tags to come.                                            *)
Lead(s) == IF s # <<>> /\ s[1].place = Nowhere THEN 1 ELSE 0
DataOf(s) == [i \in 1 .. Len(s) - Lead(s) |-> s[i + Lead(s)].place]
Data(pl, n) == [i \in 1 .. n |-> From(pl, i - 1)]
DataBehind(c) ==
  FlattenSeq([i \in 1 .. Len(c) |-> Data([addr |-> c[i].addr, k |-> 0], c[i].len)])
InTransit == DataOf(fifo) \o Data(madr9, counter) \o DataBehind(chain)

(* Every qword is stored once, in order and in its place. *)
Channel == INSTANCE SifChannel WITH Qword <- Place, inTransit <- InTransit
ImplementsChannel == Channel!Spec
=============================================================================
