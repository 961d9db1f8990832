------------------------- MODULE EeInterruptsProofs -------------------------
(* Proofs about the EE's interrupt lines.  An enabled INTC line is never      *)
(* without its event because every write that could enable one asks for the   *)
(* event, and because event 30 is only tested while interrupts are enabled:   *)
(* a due event then throws, or its line is down.  That last fact is the       *)
(* strengthening below.  The DMAC line has no such test, and is never without *)
(* its event as long as DMAE is set while it is up.                           *)
EXTENDS EeInterrupts, TLAPS

(* _cpuTestInterrupts goes on to event 30 only while interrupts are enabled. *)
TestedEnabled == pc = "int30" => cpuIntsEnabled(status)

LinesInv == TypeOK /\ NoMissingINTC /\ TestedEnabled

USE DEF cpuIntsEnabled, IntcLine, IntcWaits

(* The actions that are made of a write of Status. *)
StatusWrites == MTC0 \/ EI \/ ERET \/ Syscall

LEMMA InitLines == Init => LinesInv
  BY DEF Init, LinesInv, TypeOK, NoMissingINTC, TestedEnabled, Bits

(* No step leaves the types. *)
LEMMA TypeStep ==
  ASSUME TypeOK, [Next]_vars
  PROVE  TypeOK'
<1>1. CASE StatusWrites
  BY <1>1 DEF StatusWrites, MTC0, EI, ERET, Syscall, cpuException, TimrWaits, GoesOn, Branches, Guest, WriteStatus,
              UpdateCP0Status, cpuTestINTCInts, cpuTestDMACInts, TypeOK, Bits
<1>2. CASE DI
  BY <1>2 DEF DI, GoesOn, Guest, TypeOK
<1>3. CASE WriteIntcStat \/ WriteIntcMask
  BY <1>3 DEF WriteIntcStat, WriteIntcMask, GoesOn, Guest, Flip, cpuTestINTCInts, TypeOK
<1>4. CASE WriteDmacStat \/ WriteDmacCtrl
  BY <1>4 DEF WriteDmacStat, WriteDmacCtrl, GoesOn, Guest, Flip, cpuTestDMACInts, TypeOK
<1>5. CASE hwIntcIrq \/ hwDmacIrq
  BY <1>5 DEF hwIntcIrq, hwDmacIrq, cpuTestINTCInts, cpuTestDMACInts, TypeOK
<1>6. CASE Elapse
  BY <1>6 DEF Elapse, Ripen, TypeOK
<1>7. CASE EventTest
  BY <1>7 DEF EventTest, _cpuTestTIMR, EventTestEnds, intcInterrupt, dmacInterrupt,
              Throw, cpuException, Serve, TypeOK, Bits
<1>8. CASE UNCHANGED vars
  BY <1>8 DEF vars, TypeOK
<1> QED BY <1>1, <1>2, <1>3, <1>4, <1>5, <1>6, <1>7, <1>8 DEF Next, StatusWrites

(* No step takes its event from an enabled line. *)
LEMMA EventStep ==
  ASSUME LinesInv, [Next]_vars
  PROVE  NoMissingINTC' /\ TestedEnabled'
<1> USE DEF NoMissingINTC, TestedEnabled
<1>0. TypeOK /\ NoMissingINTC /\ TestedEnabled
  BY DEF LinesInv
<1>1. CASE StatusWrites
  BY <1>0, <1>1 DEF StatusWrites, MTC0, EI, ERET, Syscall, cpuException, TimrWaits, GoesOn, Branches, Guest,
                    WriteStatus, UpdateCP0Status, cpuTestINTCInts
<1>2. CASE DI
  BY <1>0, <1>2 DEF DI, GoesOn, Guest
<1>3. CASE WriteIntcStat \/ WriteIntcMask
  BY <1>0, <1>3 DEF WriteIntcStat, WriteIntcMask, GoesOn, Guest, cpuTestINTCInts
<1>4. CASE WriteDmacStat \/ WriteDmacCtrl
  BY <1>0, <1>4 DEF WriteDmacStat, WriteDmacCtrl, GoesOn, Guest
<1>5. CASE hwIntcIrq \/ hwDmacIrq
  BY <1>0, <1>5 DEF hwIntcIrq, hwDmacIrq, cpuTestINTCInts
<1>6. CASE Elapse
  BY <1>0, <1>6 DEF Elapse, Ripen
<1>7. CASE EventTest
  <2>1. CASE _cpuTestTIMR \/ EventTestEnds
    BY <1>0, <2>1 DEF _cpuTestTIMR, EventTestEnds, Throw, cpuException
  <2>2. CASE intcInterrupt
    BY <1>0, <2>2 DEF intcInterrupt, Throw, cpuException, Serve, TypeOK
  <2>3. CASE dmacInterrupt
    BY <1>0, <2>3 DEF dmacInterrupt, Throw, cpuException
  <2> QED BY <1>7, <2>1, <2>2, <2>3 DEF EventTest
<1>8. CASE UNCHANGED vars
  BY <1>0, <1>8 DEF vars
<1> QED BY <1>1, <1>2, <1>3, <1>4, <1>5, <1>6, <1>7, <1>8 DEF Next, StatusWrites

(* The lines, their events and the place of the event test stay consistent *)
(* in every behaviour.                                                     *)
THEOREM LinesInvariant == Spec => []LinesInv
<1>1. LinesInv /\ [Next]_vars => LinesInv'
  BY TypeStep, EventStep DEF LinesInv
<1> QED BY InitLines, <1>1, PTL DEF Spec

(* The type invariant. *)
THEOREM TypeCorrect == Spec => []TypeOK
<1>1. LinesInv => TypeOK
  BY DEF LinesInv
<1> QED BY LinesInvariant, <1>1, PTL

(* An enabled INTC line always has its event pending: the condition that *)
(* _cpuTestMissingINTC reports as an error never arises.                 *)
THEOREM NoLineIsMissed == Spec => []NoMissingINTC
<1>1. LinesInv => NoMissingINTC
  BY DEF LinesInv
<1> QED BY LinesInvariant, <1>1, PTL

(* No interrupt is thrown inside an exception: event 30 is tested with *)
(* interrupts enabled, and event 31 looks again after event 30.        *)
THEOREM NothingNests == Spec => NeverNested
<1>1. LinesInv /\ [Next]_vars
        => [thrown' \in {"intc", "dmac"} => cpuIntsEnabled(status)]_vars
  <2> SUFFICES ASSUME LinesInv, Next, thrown' \in {"intc", "dmac"}
               PROVE  cpuIntsEnabled(status)
    OBVIOUS
  <2>1. CASE EventTest
    BY <2>1 DEF EventTest, _cpuTestTIMR, EventTestEnds, intcInterrupt, dmacInterrupt,
                Throw, cpuException, DmacWaits, LinesInv, TestedEnabled
  <2>2. CASE ~EventTest
    BY <2>2 DEF Next, MTC0, EI, ERET, Syscall, DI, WriteIntcStat, WriteIntcMask, WriteDmacStat,
                WriteDmacCtrl, hwIntcIrq, hwDmacIrq, Elapse, WriteStatus, UpdateCP0Status, cpuException
  <2> QED BY <2>1, <2>2
<1> QED BY LinesInvariant, <1>1, PTL DEF NeverNested, Spec

-----------------------------------------------------------------------------
(* How a line that is up comes to its exception. *)

(* While an INTC line stays enabled its event only goes forward: it is never *)
(* dropped, a due one stays due, and time makes a fresh one due.  Only the   *)
(* exception, which disables interrupts, ends it.                            *)
IntcComes ==
  [][IntcWaits(status) /\ IntcWaits(status)' =>
       /\ event30' # "none"
       /\ event30 = "due" \/ Elapse => event30' = "due"]_vars

(* What the premise of LinesServed asks of the guest: DMAE is not clear while *)
(* the line is up.                                                            *)
DmaeHeld == DmacLine => "DMAE" \in dmac

(* The same of a DMAC line, and that it has an event at all, which TLC finds *)
(* violated by guests that clear DMAE.                                       *)
NoMissingDMAC == DmacWaits(status) => event31 # "none"

DmacComes ==
  [][DmacWaits(status) /\ DmacWaits(status)' =>
       /\ event31' # "none"
       /\ event31 = "due" \/ Elapse => event31' = "due"]_vars

(* No step takes its event from an enabled DMAC line: a due event that finds *)
(* interrupts disabled is asked for again by what enables them.              *)
LEMMA DmacEventStep ==
  ASSUME TypeOK, DmaeHeld, NoMissingDMAC, [Next]_vars
  PROVE  NoMissingDMAC'
<1> USE DEF NoMissingDMAC, DmacWaits, DmacLine
<1>1. CASE StatusWrites
  BY <1>1 DEF StatusWrites, MTC0, EI, ERET, Syscall, cpuException, TimrWaits, GoesOn, Branches, Guest,
              WriteStatus, UpdateCP0Status, cpuTestDMACInts
<1>2. CASE DI
  BY <1>2 DEF DI, GoesOn, Guest
<1>3. CASE WriteIntcStat \/ WriteIntcMask
  BY <1>3 DEF WriteIntcStat, WriteIntcMask, GoesOn, Guest
<1>4. CASE WriteDmacStat
  BY <1>4 DEF WriteDmacStat, GoesOn, Guest, cpuTestDMACInts
<1>5. CASE WriteDmacCtrl
  BY <1>5 DEF WriteDmacCtrl, GoesOn, Guest, Flip
<1>6. CASE hwIntcIrq \/ hwDmacIrq
  BY <1>6 DEF hwIntcIrq, hwDmacIrq, cpuTestDMACInts
<1>7. CASE Elapse
  BY <1>7 DEF Elapse, Ripen
<1>8. CASE EventTest
  <2>1. CASE _cpuTestTIMR \/ EventTestEnds \/ intcInterrupt
    BY <2>1 DEF _cpuTestTIMR, EventTestEnds, intcInterrupt, Throw, cpuException
  <2>2. CASE dmacInterrupt
    BY <2>2 DEF dmacInterrupt, Throw, cpuException, Serve, DmaeHeld
  <2> QED BY <1>8, <2>1, <2>2 DEF EventTest
<1>9. CASE UNCHANGED vars
  BY <1>9 DEF vars
<1> QED BY <1>1, <1>2, <1>3, <1>4, <1>5, <1>6, <1>7, <1>8, <1>9 DEF Next, StatusWrites

(* Only serving it takes a due event away, and time makes any event due. *)
LEMMA DueStaysDue ==
  ASSUME TypeOK, [Next]_vars
  PROVE  /\ event30 = "due" /\ ~intcInterrupt => event30' = "due"
         /\ event31 = "due" /\ ~dmacInterrupt => event31' = "due"
         /\ Elapse /\ event30 # "none" => event30' = "due"
         /\ Elapse /\ event31 # "none" => event31' = "due"
<1> DEFINE Stays == /\ event30 = "due" /\ ~intcInterrupt => event30' = "due"
                    /\ event31 = "due" /\ ~dmacInterrupt => event31' = "due"
<1>1. Elapse => /\ event30 # "none" => event30' = "due"
                /\ event31 # "none" => event31' = "due"
  BY DEF Elapse, Ripen, TypeOK
<1>2. (StatusWrites \/ hwIntcIrq \/ hwDmacIrq) => Stays
  BY DEF StatusWrites, MTC0, EI, ERET, Syscall, cpuException, TimrWaits, WriteStatus, UpdateCP0Status,
              hwIntcIrq, hwDmacIrq, cpuTestINTCInts, cpuTestDMACInts
<1>3. (DI \/ WriteIntcStat \/ WriteIntcMask \/ WriteDmacStat \/ WriteDmacCtrl) => Stays
  BY DEF DI, WriteIntcStat, WriteIntcMask, WriteDmacStat, WriteDmacCtrl,
              cpuTestINTCInts, cpuTestDMACInts
<1>4. Elapse => Stays
  BY <1>1
<1>5. EventTest => Stays
  BY DEF EventTest, _cpuTestTIMR, EventTestEnds, intcInterrupt, dmacInterrupt
<1>6. UNCHANGED vars => Stays
  BY DEF vars
<1>7. Stays
  BY <1>2, <1>3, <1>4, <1>5, <1>6 DEF Next, StatusWrites
<1> QED BY <1>1, <1>7

(* An INTC line that stays enabled goes on to its exception, whatever guest, *)
(* devices and event test do meanwhile.                                      *)
THEOREM IntcComesThrough == Spec => IntcComes
<1>1. ASSUME LinesInv, [Next]_vars, IntcWaits(status), IntcWaits(status)'
      PROVE  /\ event30' # "none"
             /\ event30 = "due" \/ Elapse => event30' = "due"
  <2>1. TypeOK /\ event30 # "none"
    BY <1>1 DEF LinesInv, NoMissingINTC
  <2>2. event30' # "none"
    BY <1>1, EventStep DEF NoMissingINTC
  <2>3. event30 = "due" => ~intcInterrupt
    BY <1>1, <2>2 DEF intcInterrupt, Serve
  <2> QED BY <1>1, <2>1, <2>2, <2>3, DueStaysDue
<1>2. LinesInv /\ [Next]_vars
      => [IntcWaits(status) /\ IntcWaits(status)' =>
            /\ event30' # "none"
            /\ event30 = "due" \/ Elapse => event30' = "due"]_vars
  BY <1>1
<1> QED BY <1>2, LinesInvariant, PTL DEF Spec, IntcComes

(* A DMAC line that is enabled has its event, and goes on to its exception,  *)
(* for guests that keep DMAE set while the line is up.                       *)
THEOREM DmacComesThrough ==
  Spec => ([]DmaeHeld => []NoMissingDMAC /\ DmacComes)
<1>1. Init => NoMissingDMAC
  BY DEF Init, NoMissingDMAC, DmacWaits
<1>2. TypeOK /\ DmaeHeld /\ NoMissingDMAC /\ [Next]_vars => NoMissingDMAC'
  BY DmacEventStep
<1>3. ASSUME TypeOK, DmaeHeld, NoMissingDMAC, [Next]_vars,
             DmacWaits(status), DmacWaits(status)'
      PROVE  /\ event31' # "none"
             /\ event31 = "due" \/ Elapse => event31' = "due"
  <2>1. event31 # "none"
    BY <1>3 DEF NoMissingDMAC
  <2>2. event31' # "none"
    BY <1>2, <1>3 DEF NoMissingDMAC
  <2>3. event31 = "due" => ~dmacInterrupt
    BY <2>2 DEF dmacInterrupt, Serve
  <2> QED BY <1>3, <2>1, <2>2, <2>3, DueStaysDue
<1>4. TypeOK /\ DmaeHeld /\ NoMissingDMAC /\ [Next]_vars
      => [DmacWaits(status) /\ DmacWaits(status)' =>
            /\ event31' # "none"
            /\ event31 = "due" \/ Elapse => event31' = "due"]_vars
  BY <1>3
<1> QED BY <1>1, <1>2, <1>4, TypeCorrect, PTL DEF Spec, DmacComes
===============================================================================
