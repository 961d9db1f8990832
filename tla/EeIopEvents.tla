----------------------------- MODULE EeIopEvents -----------------------------
(* How the two processors of the emulator share one host thread (R5900.cpp,  *)
(* R3000A.cpp and the block ends the recompilers emit).  The EE runs blocks  *)
(* of instructions until its clock reaches g_nextBranchCycle; the event test *)
(* then delivers the EE's events that are due, tests the IOP's, runs the IOP *)
(* for the time it owes, and works out the next branch.  Devices ask for     *)
(* events with CPU_INT and PSX_INT from anywhere: EE code, IOP code and the  *)
(* callbacks of other events.                                                *)
(*                                                                           *)
(* One EE cycle is the unit of time, the IOP's cycle is Ratio of them, and   *)
(* both clocks are words that wrap at 2 * Half.  What runs inside a block or *)
(* a callback is any sequence of the calls below.  The counters of the two   *)
(* processors are abstracted to the bound they put on the next branch,       *)
(* VU0's slices to nothing but the same bound.  Not modelled: the events 30  *)
(* and 31 (EeInterrupts has them), the INTC_STAT speed hack, the interpreter.*)
EXTENDS Integers, Sequences
LOCAL INSTANCE Functions

CONSTANTS
  EeOrder,        \* the EE's events, in the order _cpuTestInterrupts tests them
  IopOrder,       \* the IOP's, in the order of _psxTestInterrupts
  Half,           \* half of 2^32
  Ratio,          \* 8
  eeWaitCycles,   \* 768
  Soon,           \* 28
  IntcDelta,      \* 16
  AheadLimit,     \* 192
  Rapid,          \* 48
  MaxEeBlock, MaxIopBlock,   \* the longest blocks, in cycles of their processor
  Delays,         \* the delays events are asked for with
  CounterDelays,  \* when a counter of either processor wants its next update
  MaxBehind, MaxAhead   \* bounds of the model on how far the IOP falls behind the EE, or
                        \* is run ahead of it, before the EE runs on

EeEvents == {EeOrder[i] : i \in DOMAIN EeOrder}
IopEvents == {IopOrder[i] : i \in DOMAIN IopOrder}

ASSUME EeIopEventsAssumption ==
  /\ EeOrder \in Seq(EeEvents) /\ IopOrder \in Seq(IopEvents)
  /\ IsInjective(EeOrder) /\ IsInjective(IopOrder)
  /\ {Half, Ratio, eeWaitCycles, Soon, IntcDelta, Rapid, MaxBehind, MaxAhead} \subseteq Nat \ {0}
  /\ {MaxEeBlock, MaxIopBlock} \subseteq Nat \ {0}
  /\ AheadLimit \in Nat
  /\ Delays \subseteq Nat /\ CounterDelays \subseteq Nat \ {0}

(* Half a clock is long: whatever is compared on it, two or three of these *)
(* delays and blocks apart, is less than that apart.  In the code Half is  *)
(* 2^31 and the longest delay is a fraction of a second, 2^28 cycles.      *)
ASSUME HorizonAssumption ==
  /\ 4 <= eeWaitCycles
  /\ Ratio * MaxIopBlock + MaxBehind + MaxEeBlock < Half
  /\ \A d \in Delays \union {0} : eeWaitCycles + MaxEeBlock + d <= Half
  /\ \A d \in Delays \union {0}, c \in CounterDelays \union {4} : d + c + MaxIopBlock < Half

VARIABLES
  cycle, g_nextBranchCycle,          \* cpuRegs.cycle
  interrupt,                         \* cpuRegs: a record for each pending event of EeOrder
  EEsCycle, EEoCycle,
  psxCycle, g_psxNextBranchCycle,    \* psxRegs.cycle
  psxInterrupt,                      \* psxRegs, the same for IopOrder
  psxCycleEE, psxBreak, iopBranchAction,
  pc,        \* what runs: EE code, a loop of tests, a callback, IOP code, the end of the test
  ix,        \* next event of the loop of tests
  inBlock,   \* psxBranchTest was called by an IOP block, not by the event test
  lag        \* history: time the EE has run minus time the IOP has run

sync == <<EEsCycle, EEoCycle, lag>>
slice == <<psxCycleEE, psxBreak>>
control == <<pc, ix, inBlock>>
vars == <<cycle, g_nextBranchCycle, interrupt, psxCycle, g_psxNextBranchCycle, psxInterrupt,
          sync, slice, iopBranchAction, control>>

Word == 0 .. 2 * Half - 1

(* Addition of a small number to a word, and the difference of two words as *)
(* the signed number the casts to int make of it.                           *)
Plus(w, d) ==
  LET x == w + d
  IN IF x >= 2 * Half THEN x - 2 * Half ELSE IF x < 0 THEN x + 2 * Half ELSE x

Minus(w, v) ==
  LET x == w - v
  IN IF x >= Half THEN x - 2 * Half ELSE IF x < -Half THEN x + 2 * Half ELSE x

(* Mutant: the cycles are compared, not their difference. *)
SetNextBranch_Mutant(next, startCycle, delta) ==
  IF next > startCycle + delta THEN Plus(startCycle, delta) ELSE next

(* cpuSetNextBranch and psxSetNextBranch: the branch moves, never away. *)
SetNextBranch(next, startCycle, delta) ==
  IF Minus(next, startCycle) > delta THEN Plus(startCycle, delta) ELSE next

(* cpuTestCycle and psxTestCycle. *)
TestCycle(now, startCycle, delta) == Minus(now, startCycle) >= delta

(* The pending events of a processor (a bit of the word interrupt, with      *)
(* sCycle[n] and eCycle[n]), and as history the time until each is due.      *)
NoEvents == [n \in {} |-> 0]
Ask(events, n, now, ecycle) ==
  [m \in DOMAIN events \union {n} |->
     IF m = n THEN [sCycle |-> now, eCycle |-> ecycle, left |-> ecycle] ELSE events[m]]
Clear(events, n) == [m \in DOMAIN events \ {n} |-> events[m]]
Elapse(events, b) == [n \in DOMAIN events |-> [events[n] EXCEPT !.left = @ - b]]

IsDue(events, n, now) ==
  n \in DOMAIN events /\ TestCycle(now, events[n].sCycle, events[n].eCycle)
(* Mutant: an event that is not due leaves the branch alone. *)
SetEventBranch_Mutant(next, events, n) == next

SetEventBranch(next, events, n) ==
  IF n \in DOMAIN events THEN SetNextBranch(next, events[n].sCycle, events[n].eCycle) ELSE next

Init ==
  /\ cycle = 0 /\ g_nextBranchCycle = Plus(0, 4)
  /\ interrupt = NoEvents
  /\ EEsCycle = 0 /\ EEoCycle = 0
  /\ psxCycle = 0 /\ g_psxNextBranchCycle = Plus(0, 4)
  /\ psxInterrupt = NoEvents
  /\ psxCycleEE = -1 /\ psxBreak = 0 /\ iopBranchAction = FALSE
  /\ pc = "ee" /\ ix = 1 /\ inBlock = FALSE
  /\ lag = 0

-----------------------------------------------------------------------------
(* What code and callbacks may do. *)

Running == pc \in {"ee", "eecall", "iop", "iopcall"}
eeEventTestIsActive == pc # "ee"
iopEventTestIsActive == pc \in {"iopints", "iopcall"}

(* Mutant: what the IOP did not run is forgotten. *)
BreakIop_Mutant ==
  /\ psxCycleEE' = 0
  /\ UNCHANGED psxBreak

(* The IOP is told to give control back: what it did not run is recorded. *)
BreakIop ==
  /\ psxBreak' = psxBreak + psxCycleEE
  /\ psxCycleEE' = 0

CPU_INT(n, ecycle) ==
  /\ Running
  /\ interrupt' = Ask(interrupt, n, cycle, ecycle)
  /\ IF ecycle <= Soon /\ psxCycleEE > 0 THEN BreakIop ELSE UNCHANGED slice
  /\ g_nextBranchCycle' = SetNextBranch(g_nextBranchCycle, cycle, ecycle)
  /\ UNCHANGED <<cycle, psxCycle, g_psxNextBranchCycle, psxInterrupt, sync, iopBranchAction, control>>

PSX_INT(n, ecycle) ==
  /\ Running
  /\ psxInterrupt' = Ask(psxInterrupt, n, psxCycle, ecycle)
  /\ g_psxNextBranchCycle' = SetNextBranch(g_psxNextBranchCycle, psxCycle, ecycle)
  /\ g_nextBranchCycle' =
       IF psxCycleEE < 0
       THEN SetNextBranch(g_nextBranchCycle, cycle, Ratio * Minus(g_psxNextBranchCycle', psxCycle))
       ELSE g_nextBranchCycle
  /\ UNCHANGED <<cycle, psxCycle, interrupt, sync, slice, iopBranchAction, control>>

(* An interrupt line of the IOP is raised. *)
iopTestIntc ==
  /\ Running
  /\ IF ~eeEventTestIsActive
     THEN /\ g_nextBranchCycle' = SetNextBranch(g_nextBranchCycle, cycle, IntcDelta)
          /\ iopBranchAction' = TRUE
          /\ lag > -MaxAhead
          /\ UNCHANGED g_psxNextBranchCycle
     ELSE /\ ~iopEventTestIsActive
          /\ g_psxNextBranchCycle' = SetNextBranch(g_psxNextBranchCycle, psxCycle, 2)
          /\ UNCHANGED <<g_nextBranchCycle, iopBranchAction>>
  /\ UNCHANGED <<cycle, psxCycle, interrupt, psxInterrupt, sync, slice, control>>

(* The IOP, or an event, raises an exception of the EE (cpuTestINTCInts). *)
cpuTestINTCInts ==
  /\ Running /\ eeEventTestIsActive
  /\ psxCycleEE > 0
  /\ BreakIop
  /\ UNCHANGED <<cycle, g_nextBranchCycle, psxCycle, g_psxNextBranchCycle, interrupt, psxInterrupt,
                 sync, iopBranchAction, control>>

(* Instructions that force an event test at the end of their block. *)
recBranchCall ==
  /\ pc = "ee"
  /\ g_nextBranchCycle' = cycle
  /\ UNCHANGED <<cycle, psxCycle, g_psxNextBranchCycle, interrupt, psxInterrupt,
                 sync, slice, iopBranchAction, control>>

-----------------------------------------------------------------------------
(* The EE's side. *)

(* A block of b cycles ends; at or past the next branch, the event test    *)
(* begins: iBranchTest, then _cpuBranchTest_Shared as far as the interrupts. *)
EeBlock(b) ==
  /\ pc = "ee"
  /\ lag + b <= MaxBehind
  /\ cycle' = Plus(cycle, b)
  /\ interrupt' = Elapse(interrupt, b)
  /\ lag' = lag + b
  /\ IF Minus(cycle', g_nextBranchCycle) >= 0
     THEN /\ g_nextBranchCycle' = Plus(cycle', eeWaitCycles)
          /\ EEsCycle' = EEsCycle + Minus(cycle', EEoCycle)
          /\ EEoCycle' = cycle'
          /\ iopBranchAction' = (iopBranchAction \/ EEsCycle' > 0)
          /\ pc' = "eeints" /\ ix' = 1
     ELSE UNCHANGED <<g_nextBranchCycle, EEsCycle, EEoCycle, iopBranchAction, pc, ix>>
  /\ UNCHANGED <<psxCycle, g_psxNextBranchCycle, psxInterrupt, slice, inBlock>>

(* _cpuTestInterrupts: the event of place ix. *)
TESTINT ==
  /\ pc = "eeints" /\ ix <= Len(EeOrder)
  /\ ix' = ix + 1
  /\ LET n == EeOrder[ix] IN
     IF IsDue(interrupt, n, cycle)
     THEN /\ interrupt' = Clear(interrupt, n)
          /\ pc' = "eecall"
          /\ UNCHANGED g_nextBranchCycle
     ELSE /\ g_nextBranchCycle' = SetEventBranch(g_nextBranchCycle, interrupt, n)
          /\ UNCHANGED <<interrupt, pc>>
  /\ UNCHANGED <<cycle, psxCycle, g_psxNextBranchCycle, psxInterrupt, sync, slice,
                 iopBranchAction, inBlock>>

CallbackReturns ==
  /\ \/ pc = "eecall" /\ pc' = "eeints"
     \/ pc = "iopcall" /\ pc' = "iopints"
  /\ UNCHANGED <<cycle, g_nextBranchCycle, psxCycle, g_psxNextBranchCycle, interrupt, psxInterrupt,
                 sync, slice, iopBranchAction, ix, inBlock>>

-----------------------------------------------------------------------------
(* The IOP's side. *)

(* psxBranchTest begins: the counters set the branch, and may want the IOP. *)
psxBranchTest(c) ==
  /\ g_psxNextBranchCycle' = Plus(psxCycle, c)
  /\ pc' = "iopints" /\ ix' = 1

CallPsxBranchTest ==
  /\ pc = "eeints" /\ ix > Len(EeOrder)
  /\ \E c \in CounterDelays : psxBranchTest(c)
  /\ inBlock' = FALSE
  /\ UNCHANGED <<cycle, g_nextBranchCycle, psxCycle, interrupt, psxInterrupt, sync, slice,
                 iopBranchAction>>

(* Mutant: after a callback, the events are tested from the first again. *)
IopTestEvent_Mutant ==
  /\ pc = "iopints" /\ ix <= Len(IopOrder)
  /\ LET n == IopOrder[ix]
         due == IsDue(psxInterrupt, n, psxCycle) IN
     /\ psxInterrupt' = IF due THEN Clear(psxInterrupt, n) ELSE psxInterrupt
     /\ ix' = IF due THEN 1 ELSE ix + 1
     /\ pc' = IF due THEN "iopcall" ELSE pc
     /\ g_psxNextBranchCycle' =
          IF due THEN g_psxNextBranchCycle ELSE SetEventBranch(g_psxNextBranchCycle, psxInterrupt, n)
  /\ UNCHANGED <<cycle, g_nextBranchCycle, psxCycle, interrupt, sync, slice,
                 iopBranchAction, inBlock>>

IopTestEvent ==
  /\ pc = "iopints" /\ ix <= Len(IopOrder)
  /\ ix' = ix + 1
  /\ LET n == IopOrder[ix] IN
     IF IsDue(psxInterrupt, n, psxCycle)
     THEN /\ psxInterrupt' = Clear(psxInterrupt, n)
          /\ pc' = "iopcall"
          /\ UNCHANGED g_psxNextBranchCycle
     ELSE /\ g_psxNextBranchCycle' = SetEventBranch(g_psxNextBranchCycle, psxInterrupt, n)
          /\ UNCHANGED <<psxInterrupt, pc>>
  /\ UNCHANGED <<cycle, g_nextBranchCycle, psxCycle, interrupt, sync, slice,
                 iopBranchAction, inBlock>>

(* The end of psxBranchTest.  An update of the counters or an exception of *)
(* the IOP may have set the action flag.  An event test goes on to         *)
(* ExecuteBlock when the flag is up; a block goes on to the next one.      *)
IopTested ==
  /\ pc = "iopints" /\ ix > Len(IopOrder)
  /\ \E wanted \in BOOLEAN :
       LET action == iopBranchAction \/ wanted IN
       /\ wanted => lag > -MaxAhead
       /\ iopBranchAction' = action
       /\ IF inBlock \/ action
          THEN /\ pc' = "iop"
               /\ inBlock' = TRUE
               /\ IF inBlock THEN UNCHANGED slice
                             ELSE psxBreak' = 0 /\ psxCycleEE' = EEsCycle
          ELSE pc' = "resched" /\ UNCHANGED <<inBlock, slice>>
  /\ UNCHANGED <<cycle, g_nextBranchCycle, psxCycle, g_psxNextBranchCycle, interrupt, psxInterrupt,
                 sync, ix>>

(* A block of b IOP cycles ends (iPsxBranchTest): out of time, ExecuteBlock *)
(* returns with no test made; otherwise the test is made when it is due.    *)
IopBlock(b) ==
  /\ pc = "iop"
  /\ psxCycle' = Plus(psxCycle, b)
  /\ psxInterrupt' = Elapse(psxInterrupt, b)
  /\ lag' = lag - Ratio * b
  /\ LET owed == psxCycleEE - Ratio * b IN
     /\ psxCycleEE' = owed
     /\ IF owed <= 0
        THEN /\ EEsCycle' = psxBreak + owed
             /\ iopBranchAction' = FALSE
             /\ pc' = "resched" /\ inBlock' = FALSE
             /\ UNCHANGED <<g_psxNextBranchCycle, ix>>
        ELSE /\ IF Minus(psxCycle', g_psxNextBranchCycle) >= 0
                THEN \E c \in CounterDelays :
                       /\ g_psxNextBranchCycle' = Plus(psxCycle', c)
                       /\ pc' = "iopints" /\ ix' = 1
                ELSE UNCHANGED <<g_psxNextBranchCycle, pc, ix>>
             /\ UNCHANGED <<EEsCycle, iopBranchAction, inBlock>>
  /\ UNCHANGED <<cycle, g_nextBranchCycle, interrupt, EEoCycle, psxBreak>>

(* The end of _cpuBranchTest_Shared: the next branch comes soon when the EE *)
(* is far ahead, with the IOP's next branch, and with the counters.         *)
Reschedule(c) ==
  /\ pc = "resched"
  /\ LET n0 == IF EEsCycle > AheadLimit
               THEN SetNextBranch(g_nextBranchCycle, cycle, Rapid) ELSE g_nextBranchCycle
         n1 == SetNextBranch(n0, cycle,
                 Ratio * Minus(g_psxNextBranchCycle, psxCycle) - EEsCycle)
     IN g_nextBranchCycle' = SetNextBranch(n1, cycle, c)
  /\ pc' = "ee"
  /\ UNCHANGED <<cycle, psxCycle, g_psxNextBranchCycle, interrupt, psxInterrupt, sync, slice,
                 iopBranchAction, ix, inBlock>>

-----------------------------------------------------------------------------
Device ==
  \/ \E n \in EeEvents, d \in Delays : CPU_INT(n, d)
  \/ \E n \in IopEvents, d \in Delays : PSX_INT(n, d)
  \/ iopTestIntc \/ cpuTestINTCInts \/ recBranchCall

Step ==
  \/ \E b \in 1 .. MaxEeBlock : EeBlock(b)
  \/ TESTINT \/ CallbackReturns \/ CallPsxBranchTest \/ IopTestEvent \/ IopTested
  \/ \E b \in 1 .. MaxIopBlock : IopBlock(b)
  \/ \E c \in CounterDelays : Reschedule(c)

Next == Device \/ Step

Spec == Init /\ [][Next]_vars

(* Both processors go on running blocks. *)
FairSpec == Spec /\ WF_vars(Step)

-----------------------------------------------------------------------------
(* The emulator never loses or invents time of the IOP: what EEsCycle (and, *)
(* while the IOP runs, psxCycleEE and psxBreak) say the IOP owes is what it *)
(* owes, however often a slice is broken off and however the clocks wrap.   *)
ClocksAgree ==
  lag = IF inBlock THEN psxCycleEE + psxBreak
                   ELSE EEsCycle + Minus(cycle, EEoCycle)

Due(events) == [n \in DOMAIN events |-> events[n].left]

EeAgenda == INSTANCE EventAgenda
  WITH Events <- EeEvents, Slack <- MaxEeBlock, agenda <- Due(interrupt)

IopAgenda == INSTANCE EventAgenda
  WITH Events <- IopEvents, Slack <- MaxIopBlock, agenda <- Due(psxInterrupt)

(* Every event of the EE is delivered once, never early and no later than    *)
(* the end of the block in which it falls due, whoever asks for it: a        *)
(* device, IOP code, or the callback of an event tested before or after it.  *)
EeKeepsAgenda == EeAgenda!Spec

(* The same of the IOP's events, in the IOP's time: a slice that ends between *)
(* an event's time and its test leaves it to the next event test.             *)
IopKeepsAgenda == IopAgenda!Spec

(* The event test always ends: control comes back to the EE, whatever the *)
(* IOP and the callbacks ask for meanwhile.                               *)
ControlReturns == []<>(pc = "ee")
===============================================================================
