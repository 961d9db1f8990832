------------------------------ MODULE EeCounters ------------------------------
(* The timers of the EE, its hblank and vblank, and the schedule of their     *)
(* updates (Counters.cpp, and the branch test of R5900.cpp that calls it).    *)
(*                                                                           *)
(* One thread: blocks of EE code run, which read and write timers, and        *)
(* between two of them the branch test runs when g_nextBranchCycle has come.  *)
(* It takes one step of the hblank, and an update of everything else if       *)
(* nextCounter says that one is due.  All cycles are kept as ages, so the     *)
(* model has no clock that could run out.                                     *)
EXTENDS EeTimer

CONSTANTS
  Timers,        \* how many (4 in the code)
  hRender, hBlank, Render, Blank,   \* vSyncInfo: lengths in cycles
  hSyncError,    \* vSyncInfo: cycles the scanlines of half a frame are short
  eeWaitCycles,
  Soon,          \* the 4 cycles of _rcntSet for an overdue update, and of cpuReset
  MaxBlock,      \* BOUND on the cycles of a block
  MaxCount,      \* BOUND on the counts of timers, and on interrupts they owe
  OtherEvents,   \* cycles to the next branch test wanted by the IOP and others
  Modes, Counts, Targets   \* what software writes

ASSUME EeCountersAssumption ==
  /\ {Timers, hRender, hBlank, Render, Blank, eeWaitCycles, Soon, MaxBlock, MaxCount} \subseteq Nat \ {0}
  /\ hSyncError \in Int
  /\ OtherEvents \subseteq Int
  /\ Modes \subseteq Mode
  /\ Counts \subseteq 0 .. Wrap - 1
  /\ Targets \subseteq 0 .. Wrap - 1

(* What keeps the edges on time.  In cycles: PAL has parts of 9438 and 9437   *)
(* in a scanline, an error of -196 and parts of 2949121 and 2949120 in half   *)
(* a frame; NTSC 9372, 9371, 84, 2460061 and 2460060.                         *)
ASSUME TimingAssumption ==
  /\ hBlank <= hRender /\ Soon <= hRender
  /\ MaxBlock <= hBlank /\ MaxBlock - hSyncError <= hBlank
  /\ MaxBlock + Soon <= Render /\ MaxBlock + Soon <= Blank

(* What keeps a timer from counting round twice between two updates: in the   *)
(* code 4, at most 4096, and the cycles of a block are far below 65536.       *)
ASSUME LapAssumption ==
  /\ Soon <= eeWaitCycles
  /\ eeWaitCycles + Soon + MaxBlock <= Wrap

(* The targets that a timer returns to zero from are a block away, as an       *)
(* update has it return once.  Software may write others, and such a timer    *)
(* falls behind the exact one: CountsExactly needs this.                      *)
LongTargets ==
  \A m \in Modes, t \in Targets :
    m.zeroReturn /\ m.targetInt /\ m.clock # External /\ t # 0
      => MaxBlock + Soon <= t * RateOf[m.clock] + 1

VARIABLES
  timer,        \* counters[0 .. 3]
  gates,        \* the timers that wait for a gate
  hsync,        \* counters[4]: the part of the scanline, its start and length
  vsync,        \* counters[5]: the part of the frame, its start and length
  nextsAge,     \* cycles since nextsCounter
  nextCounter,
  branchIn,     \* cycles to g_nextBranchCycle
  cpu           \* "block", "tested" behind it, or "stopped": Execute has returned

vars == <<timer, gates, hsync, vsync, nextsAge, nextCounter, branchIn, cpu>>

Index == 1 .. Timers
Part == [blank : BOOLEAN, age : Int, length : Nat]

Starting(length) == [blank |-> FALSE, age |-> 0, length |-> length]

(* The part is over. *)
Over(part) == part.age >= part.length

(* The part after this one: it started when this one was to end. *)
Following(part, length, next) ==
  [blank |-> ~part.blank, age |-> part.age - length, length |-> next]

-----------------------------------------------------------------------------
(* The schedule.  Definitions named ..._Mutant plant a bug in the one that      *)
(* follows, to show that the properties see it.                               *)

(* The cycles a timer has not counted yet are not taken off. *)
rcntSet_Mutant(c, age, next) ==
  LET in(count) == (count - c.count) * Rate(c) + age
  IN CASE ~Ticking(c) -> next
       [] Ticking(c) /\ (c.count > Wrap \/ (~c.future /\ c.count > c.target)) -> Soon
       [] OTHER -> Min({next, in(Wrap)} \cup IF c.future THEN {} ELSE {in(c.target)})

(* nextCounter after _rcntSet for a timer, age cycles after nextsCounter. *)
rcntSet(c, age, next) ==
  LET in(count) == (count - c.count) * Rate(c) - c.age + age
  IN CASE ~Ticking(c) -> next
       [] Ticking(c) /\ (c.count > Wrap \/ (~c.future /\ c.count > c.target)) -> Soon
       [] OTHER -> Min({next, in(Wrap)} \cup IF c.future THEN {} ELSE {in(c.target)})

(* ... and after it for the vsync and one timer after the other. *)
NextsOf(timers, v) ==
  LET next[i \in 0 .. Timers] ==
        IF i = 0 THEN v.length - v.age ELSE rcntSet(timers[i], 0, next[i - 1])
  IN next

cpuRcntSet(timers, v) == Max({0, NextsOf(timers, v)[Timers]})

-----------------------------------------------------------------------------
(* The branch test. *)

AtGate(i, source) == i \in gates /\ timer[i].mode.source = source

(* rcntStartGate and rcntEndGate for the gate of hblank.  They come first in *)
(* a branch test, and are told the start of the part that is over.           *)
HGates(i) ==
  LET c == IF hsync.blank THEN HblankTick(timer[i]) ELSE timer[i]
  IN CASE ~Over(hsync) -> timer[i]
       [] Over(hsync) /\ ~AtGate(i, "hblank") -> c
       [] Over(hsync) /\ AtGate(i, "hblank") /\ hsync.blank -> StartGate(c, hsync.age)
       [] Over(hsync) /\ AtGate(i, "hblank") /\ ~hsync.blank -> EndGate(c, hsync.age)

NextHsync ==
  CASE ~Over(hsync) -> hsync
    [] Over(hsync) /\ hsync.blank -> Following(hsync, hBlank, hRender)
    [] Over(hsync) /\ ~hsync.blank -> Following(hsync, hRender, hBlank)

(* The same for the gate of vblank. *)
VGates(i) ==
  CASE ~Over(vsync) \/ ~AtGate(i, "vblank") -> HGates(i)
    [] Over(vsync) /\ AtGate(i, "vblank") /\ ~vsync.blank -> StartGate(HGates(i), vsync.age)
    [] Over(vsync) /\ AtGate(i, "vblank") /\ vsync.blank -> EndGate(HGates(i), vsync.age)

NextVsync ==
  CASE ~Over(vsync) -> vsync
    [] Over(vsync) /\ vsync.blank -> Following(vsync, Blank, Render)
    [] Over(vsync) /\ ~vsync.blank -> Following(vsync, Render, Blank)

(* At the start of vblank, hblanks are moved by the error of the frame. *)
Corrected(h) == IF Over(vsync) /\ ~vsync.blank THEN [h EXCEPT !.age = @ - hSyncError] ELSE h

rcntUpdate ==
  /\ nextsAge >= nextCounter
  /\ cpu' = IF Over(vsync) /\ vsync.blank THEN "stopped" ELSE "tested"
  /\ vsync' = NextVsync
  /\ hsync' = Corrected(NextHsync)
  /\ timer' = [i \in Index |-> Update(VGates(i))]
  /\ nextsAge' = 0
  /\ nextCounter' = cpuRcntSet(timer', vsync')

NoUpdate ==
  /\ nextsAge < nextCounter
  /\ cpu' = "tested"
  /\ hsync' = NextHsync
  /\ timer' = [i \in Index |-> HGates(i)]
  /\ UNCHANGED <<vsync, nextsAge, nextCounter>>

(* The next branch test does not look at hblank. *)
cpuBranchTest_Mutant ==
  /\ cpu = "block"
  /\ rcntUpdate \/ NoUpdate
  /\ \E other \in OtherEvents : branchIn' = Min({eeWaitCycles, other, nextCounter' - nextsAge'})
  /\ UNCHANGED gates

cpuBranchTest ==
  /\ cpu = "block"
  /\ rcntUpdate \/ NoUpdate
  /\ \E other \in OtherEvents :
       branchIn' = Min({eeWaitCycles, other, hsync'.length - hsync'.age, nextCounter' - nextsAge'})
  /\ UNCHANGED gates

-----------------------------------------------------------------------------
(* Everything else. *)

(* A block of EE code runs for d cycles. *)
RunBlock ==
  /\ cpu = "block" => branchIn > 0
  /\ \A i \in Index : {timer[i].count, timer[i].exact.target, timer[i].exact.overflow}
                       \subseteq -MaxCount .. MaxCount
  /\ cpu' = "block"
  /\ UNCHANGED <<gates, nextCounter>>
  /\ \E d \in 1 .. MaxBlock :
       /\ branchIn' = branchIn - d
       /\ nextsAge' = nextsAge + d
       /\ hsync' = [hsync EXCEPT !.age = @ + d]
       /\ vsync' = [vsync EXCEPT !.age = @ + d]
       /\ timer' = [i \in Index |-> Pass(timer[i], d)]

(* Software writes a register of a timer, which is then c. *)
Written(i, c) ==
  /\ timer' = [timer EXCEPT ![i] = c]
  /\ nextCounter' = rcntSet(c, nextsAge, nextCounter)
  /\ UNCHANGED <<hsync, vsync, nextsAge, branchIn, cpu>>

WriteMode(i) ==
  \E m \in Modes :
    /\ Written(i, rcntWmode(timer[i], m))
    /\ gates' = IF Gated(m) THEN gates \cup {i} ELSE gates \ {i}

WriteCount(i) == UNCHANGED gates /\ \E v \in Counts : Written(i, rcntWcount(timer[i], v))

WriteTarget(i) == UNCHANGED gates /\ \E v \in Targets : Written(i, rcntWtarget(timer[i], v))

(* While Execute has returned: the user's settings set the rate of the vsync. *)
UpdateVSyncRate ==
  /\ cpu = "stopped"
  /\ hsync' = [hsync EXCEPT !.length = hRender]
  /\ vsync' = [vsync EXCEPT !.length = Render]
  /\ nextsAge' = 0
  /\ nextCounter' = cpuRcntSet(timer, vsync')
  /\ UNCHANGED <<branchIn, cpu>>

(* A state is loaded.  What it holds are the variables as they were saved:   *)
(* the step is what rcntFreeze does to them, UpdateVSyncRate first.          *)
LoadState ==
  /\ UpdateVSyncRate
  /\ timer' = [i \in Index |-> rcntSetGate(timer[i])]
  /\ gates' = {i \in Index : Gated(timer[i].mode)}

(* The part of Init that cpuReset and rcntInit set; they leave gates alone. *)
Cleared ==
  [timer |-> [i \in Index |-> NewTimer], hsync |-> Starting(hRender), vsync |-> Starting(Render)]

cpuReset ==
  /\ cpu = "stopped"
  /\ timer' = Cleared.timer
  /\ hsync' = Cleared.hsync
  /\ vsync' = Cleared.vsync
  /\ nextsAge' = 0
  /\ nextCounter' = cpuRcntSet(Cleared.timer, Cleared.vsync)
  /\ branchIn' = Soon
  /\ UNCHANGED <<gates, cpu>>

Init ==
  /\ timer = Cleared.timer
  /\ gates = {}
  /\ hsync = Cleared.hsync
  /\ vsync = Cleared.vsync
  /\ nextsAge = 0
  /\ nextCounter = cpuRcntSet(Cleared.timer, Cleared.vsync)
  /\ branchIn = Soon
  /\ cpu = "block"

Writes == \E i \in Index : WriteMode(i) \/ WriteCount(i) \/ WriteTarget(i)

RateSet == UpdateVSyncRate /\ UNCHANGED <<timer, gates>>

Next == cpuBranchTest \/ RunBlock \/ Writes \/ RateSet \/ LoadState \/ cpuReset

Spec == Init /\ [][Next]_vars

-----------------------------------------------------------------------------
(* Properties. *)

(* However late the updates are, a timer that has caught up reads what a      *)
(* counter reads that was never late, to the cycle, and has raised all of its *)
(* interrupts (_cpuTestTarget and _cpuTestOverflow, in their order); and it   *)
(* never raises one that the exact counter does not owe.                      *)
CountsExactly ==
  \A i \in Index : LET c == timer[i] IN
    /\ c.exact.target >= 0 /\ c.exact.overflow >= 0
    /\ c.exact.on /\ rcntRcount(c) < Wrap /\ (c.future \/ rcntRcount(c) < c.target)
       => /\ c.exact.count = rcntRcount(c)
          /\ c.exact.phase = c.age % Rate(c)
          /\ c.exact.target = 0 /\ c.exact.overflow = 0

(* Cycles from nextsCounter, age cycles ago, to the next event of a timer. *)
DueIn(c, age) ==
  LET in(count) == (count - c.count) * Rate(c) - c.age + age
  IN Min({in(Wrap)} \cup IF c.future THEN {} ELSE {in(c.target)})

(* The next update is scheduled no later than the next target or overflow of  *)
(* any timer, and the next edge of vblank, or at most the Soon cycles of       *)
(* _rcntSet later.  Not for the gate of hblank: see GateScheduled.            *)
Scheduled ==
  /\ nextCounter <= Max({Soon, vsync.length - vsync.age + nextsAge})
  /\ \A i \in Index : Ticking(timer[i]) /\ ~AtGate(i, "hblank")
       => nextCounter <= Max({Soon, DueIn(timer[i], nextsAge)})

(* No edge of vblank is taken later than one block, and what nextCounter may  *)
(* be late, after its time, and none of hblank later than one block and the   *)
(* cycles by which a frame that is too short (hSyncError below 0) moves it.   *)
EdgesOnTime ==
  /\ hsync.age < hsync.length + MaxBlock + Max({0, -hSyncError})
  /\ vsync.age < vsync.length + MaxBlock + Soon

(* The part of its source in which the code lets a timer of gate mode 0       *)
(* count.  Counters.h:38-41 has one rule for both sources: count while the    *)
(* signal is low, where its rising edge is the blank's end, so inside the     *)
(* blank.  vblank follows it: VSyncStart calls rcntStartGate (412).  hblank   *)
(* does the opposite: rcntStartGate is called where hblank ends and the       *)
(* render part begins, under a comment that says "HBLANK Start" (474), and    *)
(* rcntEndGate where hblank begins, under "HBLANK END" (483).                 *)
GateOpen(source) == IF source = "vblank" THEN vsync.blank ELSE ~hsync.blank

(* A timer that its gate lets count in one part only never counts in the      *)
(* other, through writes, late updates, loads and resets.  Which part that is *)
(* is taken from the code, GateOpen, and for hblank it is not the header's.   *)
GateKept ==
  \A i \in gates : timer[i].mode.gateMode = 0 /\ timer[i].mode.counting
    => GateOpen(timer[i].mode.source)

-----------------------------------------------------------------------------
(* What comments say, and the code does not do. *)

(* Counters.cpp:692 and 696: no counts and no schedule are needed when a gate  *)
(* starts a timer, they get set when control returns to rcntUpdate.           *)
GateScheduled ==
  \A i \in Index : Ticking(timer[i]) /\ AtGate(i, "hblank")
    => nextCounter <= Max({Soon, DueIn(timer[i], nextsAge)})
=============================================================================
