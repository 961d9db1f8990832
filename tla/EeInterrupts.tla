----------------------------- MODULE EeInterrupts -----------------------------
(* The EE's interrupt lines, and how they become exceptions.  A device sets  *)
(* a bit of INTC_STAT or DMAC_STAT; an enabled line asks for event 30 or 31  *)
(* four cycles ahead; the end of the event test that finds the event due     *)
(* throws the exception, whose handler returns with ERET.  Software may      *)
(* change every register in between, and lines are level sensitive: what     *)
(* the masks hid must come through when they are lifted.                     *)
(*                                                                           *)
(* One bit stands for the sixteen causes of each line.  The four cycles are  *)
(* a pending event that is fresh, then due.  The COP0 timer interrupt has no *)
(* event: the event test throws it, and every write of Status that enables   *)
(* it.  Not modelled: error level (ERL), the performance counters, the       *)
(* bus error bit of DMAC_STAT, where the handlers are.                       *)
EXTENDS Integers

VARIABLES
  status,    \* the bits of COP0 Status: IE, EIE, EXL and the masks IM2, IM3, IM7
  intc,      \* INTC_STAT and INTC_MASK
  dmac,      \* DMAC_STAT, its mask, and DMAE of DMAC_CTRL
  timer,     \* Count is at Compare, or less than 1000 past it
  event30, event31,   \* "none", "fresh" or "due"
  pc,        \* "run": guest code; "branch": a block ends; else the event test: its
             \* devices, then 30 and 31
  thrown     \* history: the interrupt the last step threw

vars == <<status, intc, dmac, timer, event30, event31, pc, thrown>>

Bits == {"IE", "EIE", "EXL", "IM2", "IM3", "IM7"}

(* The lines, as the guards of the code see them. *)
IntcLine == {"stat", "mask"} \subseteq intc
DmacLine == {"stat", "mask"} \subseteq dmac

cpuIntsEnabled(s) == {"IE", "EIE"} \subseteq s /\ "EXL" \notin s
IntcWaits(s) == cpuIntsEnabled(s) /\ "IM2" \in s /\ IntcLine
DmacWaits(s) == cpuIntsEnabled(s) /\ "IM3" \in s /\ DmacLine
TimrWaits(s) == cpuIntsEnabled(s) /\ "IM7" \in s /\ timer

(* cpuReset: BEV and ERL apart, nothing is enabled and nothing waits. *)
Init ==
  /\ status = {} /\ intc = {} /\ dmac = {} /\ timer = FALSE
  /\ event30 = "none" /\ event31 = "none"
  /\ pc = "run" /\ thrown = "none"

-----------------------------------------------------------------------------
(* Event 30 is asked for by any enabled line, event 31 also minds IM3.  The *)
(* value of Status is given: an exception may follow in the same step.      *)
cpuTestINTCInts(s) ==
  event30' = IF event30 = "none" /\ cpuIntsEnabled(s) /\ IntcLine' THEN "fresh" ELSE event30

cpuTestDMACInts(s) ==
  event31' = IF event31 = "none" /\ cpuIntsEnabled(s) /\ "IM3" \in s /\ DmacLine' THEN "fresh" ELSE event31

(* cpuException, which tests the lines again (and finds them disabled). *)
cpuException(s, cause) ==
  /\ status' = s \union {"EXL"}
  /\ thrown' = cause

(* A new value of Status: both lines are tested, and then the timer, which is *)
(* thrown at once (cpuTestHwInts).                                            *)
UpdateCP0Status(s) ==
  /\ cpuTestINTCInts(s) /\ cpuTestDMACInts(s)
  /\ IF TimrWaits(s) THEN cpuException(s, "timer") ELSE status' = s /\ thrown' = "none"

-----------------------------------------------------------------------------
(* The guest: a write of Status, the instructions that change it, and the *)
(* hardware registers.                                                    *)

Guest == pc = "run" /\ UNCHANGED timer

(* recBranchCall forces an event test; other code goes on. *)
GoesOn == Guest /\ UNCHANGED pc
Branches == Guest /\ pc' = "branch"

WriteStatus(value) == UNCHANGED <<intc, dmac>> /\ UpdateCP0Status(value)

(* Mutant: the return from an exception tests nothing. *)
ERET_Mutant ==
  /\ Branches
  /\ "EXL" \in status
  /\ status' = status \ {"EXL"} /\ thrown' = "none"
  /\ UNCHANGED <<intc, dmac, event30, event31>>

MTC0 == GoesOn /\ \E value \in SUBSET Bits : WriteStatus(value)
EI == Branches /\ WriteStatus(status \union {"EIE"})
ERET == Branches /\ "EXL" \in status /\ WriteStatus(status \ {"EXL"})
Syscall == Branches /\ WriteStatus(status \union {"EXL"})

DI ==
  /\ GoesOn /\ thrown' = "none"
  /\ status' = status \ {"EIE"}
  /\ UNCHANGED <<intc, dmac, event30, event31>>

Flip(set, bit) == (set \union {bit}) \ (set \intersect {bit})

(* INTC_STAT clears the bits written, without a test. *)
WriteIntcStat ==
  /\ GoesOn /\ thrown' = "none"
  /\ intc' = intc \ {"stat"}
  /\ UNCHANGED <<status, dmac, event30, event31>>

(* Mutant: the mask is stored, without a test. *)
WriteIntcMask_Mutant ==
  /\ GoesOn /\ thrown' = "none"
  /\ intc' = Flip(intc, "mask")
  /\ UNCHANGED <<status, dmac, event30, event31>>

WriteIntcMask ==
  /\ GoesOn /\ thrown' = "none"
  /\ intc' = Flip(intc, "mask")
  /\ UNCHANGED <<status, dmac, event31>>
  /\ cpuTestINTCInts(status)

(* DMAC_STAT holds the mask too: one write may clear bits and flip masks. *)
WriteDmacStat ==
  /\ GoesOn /\ thrown' = "none"
  /\ \E clear, flip \in BOOLEAN :
       LET d == IF clear THEN dmac \ {"stat"} ELSE dmac
       IN dmac' = IF flip THEN Flip(d, "mask") ELSE d
  /\ UNCHANGED <<status, intc, event30>>
  /\ cpuTestDMACInts(status)

(* DMAC_CTRL is stored, without a test. *)
WriteDmacCtrl ==
  /\ GoesOn /\ thrown' = "none"
  /\ dmac' = Flip(dmac, "DMAE")
  /\ UNCHANGED <<status, intc, event30, event31>>

-----------------------------------------------------------------------------
(* Devices raise lines from guest code and from the event test. *)

hwIntcIrq ==
  /\ pc \in {"run", "test"}
  /\ intc' = intc \union {"stat"}
  /\ thrown' = "none"
  /\ UNCHANGED <<status, dmac, timer, event31, pc>>
  /\ cpuTestINTCInts(status)

hwDmacIrq ==
  /\ pc \in {"run", "test"}
  /\ dmac' = dmac \union {"stat"}
  /\ thrown' = "none"
  /\ UNCHANGED <<status, intc, timer, event30, pc>>
  /\ cpuTestDMACInts(status)

(* Time passes: an event that was asked for falls due, Count passes Compare. *)
Ripen(event) == IF event = "fresh" THEN "due" ELSE event

Elapse ==
  /\ pc = "run"
  /\ event30' = Ripen(event30) /\ event31' = Ripen(event31)
  /\ timer' \in BOOLEAN
  /\ thrown' = "none"
  /\ UNCHANGED <<status, intc, dmac, pc>>

-----------------------------------------------------------------------------
(* The event test. *)

Throw(throws, cause) ==
  IF throws THEN cpuException(status, cause) ELSE thrown' = "none" /\ UNCHANGED status

_cpuTestTIMR ==
  /\ pc \in {"run", "branch"}
  /\ Throw("IM7" \in status /\ timer, "timer")
  /\ pc' = "test"
  /\ UNCHANGED <<intc, dmac, timer, event30, event31>>

EventTestEnds ==
  /\ pc = "test"
  /\ pc' = IF cpuIntsEnabled(status) THEN "int30" ELSE "run"
  /\ thrown' = "none"
  /\ UNCHANGED <<status, intc, dmac, timer, event30, event31>>

(* A due event is cleared whether its handler throws or not. *)
Serve(event) == IF event = "due" THEN "none" ELSE event

intcInterrupt ==
  /\ pc = "int30" /\ pc' = "int31"
  /\ event30' = Serve(event30)
  /\ Throw(event30 = "due" /\ "IM2" \in status /\ IntcLine, "intc")
  /\ UNCHANGED <<intc, dmac, timer, event31>>

(* Mutant: the handler trusts the test that was made before event 30. *)
dmacInterrupt_Mutant ==
  /\ pc = "int31" /\ pc' = "run"
  /\ event31' = Serve(event31)
  /\ Throw(event31 = "due" /\ "IM3" \in status /\ DmacLine /\ "DMAE" \in dmac, "dmac")
  /\ UNCHANGED <<intc, dmac, timer, event30>>

dmacInterrupt ==
  /\ pc = "int31" /\ pc' = "run"
  /\ event31' = Serve(event31)
  /\ Throw(event31 = "due" /\ DmacWaits(status) /\ "DMAE" \in dmac, "dmac")
  /\ UNCHANGED <<intc, dmac, timer, event30>>

-----------------------------------------------------------------------------
EventTest == _cpuTestTIMR \/ EventTestEnds \/ intcInterrupt \/ dmacInterrupt

Next ==
  \/ MTC0 \/ EI \/ ERET \/ Syscall \/ DI
  \/ WriteIntcStat \/ WriteIntcMask \/ WriteDmacStat \/ WriteDmacCtrl
  \/ hwIntcIrq \/ hwDmacIrq \/ Elapse
  \/ EventTest

Spec == Init /\ [][Next]_vars

(* Blocks end and event tests are made, time passes between them, and the *)
(* guest's handlers return.                                               *)
FairSpec == Spec /\ WF_vars(EventTest) /\ SF_vars(Elapse) /\ SF_vars(ERET)

-----------------------------------------------------------------------------
TypeOK ==
  /\ status \subseteq Bits
  /\ intc \subseteq {"stat", "mask"}
  /\ dmac \subseteq {"stat", "mask", "DMAE"}
  /\ timer \in BOOLEAN
  /\ {event30, event31} \subseteq {"none", "fresh", "due"}
  /\ pc \in {"run", "branch", "test", "int30", "int31"}
  /\ thrown \in {"none", "timer", "intc", "dmac"}

(* What _cpuTestMissingINTC looks for and reports as an error: an INTC line  *)
(* that is up and enabled is always on its way to an exception, whatever     *)
(* order status, mask and line were written in.                              *)
NoMissingINTC == IntcWaits(status) => event30 # "none"

(* An interrupt is never thrown on top of an exception that has not returned: *)
(* not even when both events are due in one event test.                       *)
NeverNested == [][thrown' \in {"intc", "dmac"} => cpuIntsEnabled(status)]_vars

(* A line that stays up and enabled is served again and again, if nothing    *)
(* with a higher priority stays up too; the timer is taken to be masked.  Of *)
(* the DMAC it holds for guests that keep DMAE set while the line is up: an  *)
(* event that finds it clear is dropped, and setting it asks for no other.   *)
Steady(bits) == bits \subseteq status /\ "IM7" \notin status
LinesServed ==
  /\ <>[](Steady({"IE", "EIE", "IM2"}) /\ IntcLine) => []<>(thrown = "intc")
  /\ [](DmacLine => "DMAE" \in dmac)
       /\ <>[](Steady({"IE", "EIE", "IM3"}) /\ DmacLine /\ ~IntcLine)
     => []<>(thrown = "dmac")
===============================================================================
