-------------------------------- MODULE EeTimer --------------------------------
(* One of the four timers of the EE (the Counter of Counters.h and the       *)
(* operations of Counters.cpp on it), and the exact counter it stands for.   *)
(*                                                                           *)
(* A timer is not advanced when time passes.  It keeps the count and the     *)
(* cycle of its last update, works out from them what a read returns, and    *)
(* tests for target and overflow when an update comes, which may be late.    *)
(* A recorded cycle is modelled by its age, cpuRegs.cycle minus the record,  *)
(* the only use the code makes of it.  FUTURE_TARGET, a bit beside the       *)
(* target, is the field future.                                              *)
(*                                                                           *)
(* The field exact is history: a counter that ticks cycle by cycle, started  *)
(* from the timer when software writes to it, with the interrupts it has     *)
(* raised and the timer has not.  Not modelled: the two status bits, set     *)
(* with the interrupts, and hold, which nothing here reads.                  *)
EXTENDS Integers, SequencesExt

CONSTANTS
  Wrap,    \* 0x10000
  RateOf   \* cycles of a tick, for each clock but the external one

ASSUME EeTimerAssumption ==
  /\ Wrap \in Nat \ {0}
  /\ RateOf \in [0 .. 2 -> Nat \ {0}]

External == 3   \* ClockSource: hblanks

Mode == [clock : 0 .. External, gate : BOOLEAN, source : {"hblank", "vblank"},
         gateMode : 0 .. 3, zeroReturn : BOOLEAN, counting : BOOLEAN,
         targetInt : BOOLEAN, overflowInt : BOOLEAN]

(* A mode of zero. *)
NoMode == [clock |-> 0, gate |-> FALSE, source |-> "hblank", gateMode |-> 0,
           zeroReturn |-> FALSE, counting |-> FALSE, targetInt |-> FALSE, overflowInt |-> FALSE]

Off == [on |-> FALSE, count |-> 0, phase |-> 0, target |-> 0, overflow |-> 0]

Timer == [count : Nat, target : 0 .. Wrap - 1, future : BOOLEAN, mode : Mode, age : Nat,
          exact : [on : BOOLEAN, count : 0 .. Wrap - 1, phase : Nat,
                   target : Int, overflow : Int]]

NewTimer == [count |-> 0, target |-> Wrap - 1, future |-> FALSE, mode |-> NoMode,
             age |-> 0, exact |-> Off]

Ticking(c) == c.mode.counting /\ c.mode.clock # External
Rate(c) == RateOf[c.mode.clock]

rcntRcount(c) == IF Ticking(c) THEN c.count + c.age \div Rate(c) ELSE c.count

-----------------------------------------------------------------------------
(* The exact counter. *)

One(p) == IF p THEN 1 ELSE 0

ExactTick(c, e) ==
  LET n == (e.count + 1) % Wrap
      hit == n = c.target /\ c.mode.targetInt
  IN [e EXCEPT !.count = IF hit /\ c.mode.zeroReturn THEN 0 ELSE n,
               !.phase = 0,
               !.target = @ + One(hit),
               !.overflow = @ + One(e.count + 1 = Wrap /\ c.mode.overflowInt)]

ExactCycle(c, e) == IF e.phase + 1 = Rate(c) THEN ExactTick(c, e) ELSE [e EXCEPT !.phase = @ + 1]

(* The exact counter of a timer, so many cycles from now. *)
ExactAfter(c, d) ==
  LET after[k \in 0 .. d] == IF k = 0 THEN c.exact ELSE ExactCycle(c, after[k - 1])
  IN after[d]

(* d cycles pass. *)
Pass(c, d) ==
  IF ~c.mode.counting THEN c
  ELSE [c EXCEPT !.age = @ + d, !.exact = IF c.exact.on THEN ExactAfter(c, d) ELSE @]

(* The timer has no event of the past in hand: it has not overflowed, and    *)
(* its target is ahead, just reached, or set aside until it overflows.       *)
UpToDate(c) ==
  /\ rcntRcount(c) < Wrap
  /\ IF c.future THEN rcntRcount(c) >= c.target ELSE rcntRcount(c) <= c.target

(* Returning to zero from a target of zero is no return. *)
Endless(c) == c.target = 0 /\ c.mode.zeroReturn /\ c.mode.targetInt

(* The exact counter goes on from what software has just written. *)
Follow(c) ==
  LET hit == ~c.future /\ rcntRcount(c) = c.target /\ c.mode.targetInt
  IN [c EXCEPT !.exact =
        IF Ticking(c) /\ UpToDate(c) /\ ~Endless(c)
        THEN [on |-> TRUE, phase |-> c.age % Rate(c), target |-> One(hit), overflow |-> 0,
              count |-> IF hit /\ c.mode.zeroReturn THEN 0 ELSE rcntRcount(c)]
        ELSE Off]

-----------------------------------------------------------------------------
(* Updates.  Definitions named ..._Mutant and the like plant a bug in the one   *)
(* that follows, to show that the properties see it.                          *)

(* The part of a tick that has passed is forgotten. *)
CatchUp_Mutant(c) == [c EXCEPT !.count = rcntRcount(c), !.age = 0]

(* The count takes in the whole ticks since the last update. *)
CatchUp(c) == [c EXCEPT !.count = rcntRcount(c), !.age = @ % Rate(c)]

(* A target that was set aside is tested as well. *)
cpuTestTarget_Mutant(c) ==
  IF c.count < c.target THEN c
  ELSE [c EXCEPT !.exact.target = @ - One(c.mode.targetInt /\ c.exact.on),
                 !.count = IF c.mode.targetInt /\ c.mode.zeroReturn THEN @ - c.target ELSE @,
                 !.future = ~(c.mode.targetInt /\ c.mode.zeroReturn)]

cpuTestTarget(c) ==
  IF c.future \/ c.count < c.target THEN c
  ELSE [c EXCEPT !.exact.target = @ - One(c.mode.targetInt /\ c.exact.on),
                 !.count = IF c.mode.targetInt /\ c.mode.zeroReturn THEN @ - c.target ELSE @,
                 !.future = ~(c.mode.targetInt /\ c.mode.zeroReturn)]

cpuTestOverflow(c) ==
  IF c.count < Wrap THEN c
  ELSE [c EXCEPT !.exact.overflow = @ - One(c.mode.overflowInt /\ c.exact.on),
                 !.count = @ - Wrap,
                 !.future = FALSE]

Update(c) ==
  CASE ~c.mode.counting -> c
    [] c.mode.counting /\ c.mode.clock = External -> [c EXCEPT !.age = 0]
    [] Ticking(c) -> cpuTestOverflow(cpuTestTarget(CatchUp(c)))

-----------------------------------------------------------------------------
(* Gates: edge is the age of the cycle they are told.  A timer that a gate    *)
(* starts or stops is not followed.                                          *)

HblankTick(c) ==
  IF c.mode.counting /\ c.mode.clock = External
  THEN cpuTestOverflow(cpuTestTarget([c EXCEPT !.count = @ + 1]))
  ELSE c

Restart(c, edge) ==
  [c EXCEPT !.mode.counting = TRUE, !.count = 0, !.future = FALSE, !.age = edge, !.exact = Off]

StartGate(c, edge) ==
  CASE c.mode.gateMode = 0 -> [c EXCEPT !.mode.counting = TRUE, !.age = edge, !.exact = Off]
    [] c.mode.gateMode = 2 -> c
    [] c.mode.gateMode \in {1, 3} -> Restart(c, edge)

EndGate(c, edge) ==
  CASE c.mode.gateMode = 0 ->
         [c EXCEPT !.count = rcntRcount(c), !.mode.counting = FALSE, !.age = edge, !.exact = Off]
    [] c.mode.gateMode = 1 -> c
    [] c.mode.gateMode \in {2, 3} -> Restart(c, edge)

(* The gate is used: not with hblank for both gate and clock. *)
Gated(m) == m.gate /\ ~(m.source = "hblank" /\ m.clock = External)

(* The timer goes on counting until its gate closes. *)
rcntSetGate_Mutant(c) ==
  IF Gated(c.mode) THEN [c EXCEPT !.count = 0, !.age = 0, !.exact = Off] ELSE c

rcntSetGate(c) ==
  IF Gated(c.mode) THEN [c EXCEPT !.mode.counting = FALSE, !.count = 0, !.age = 0, !.exact = Off]
  ELSE c

-----------------------------------------------------------------------------
(* Writes of software to the registers. *)

rcntWmode(c, m) ==
  LET synced == CASE ~c.mode.counting -> [c EXCEPT !.age = 0]
                  [] Ticking(c) -> CatchUp(c)
                  [] OTHER -> c
  IN Follow(rcntSetGate([synced EXCEPT !.mode = m]))

rcntWcount(c, v) ==
  Follow([c EXCEPT !.count = v,
                   !.future = v > c.target,
                   !.age = CASE ~c.mode.counting -> 0
                             [] Ticking(c) -> @ % Rate(c)
                             [] OTHER -> @])

rcntWtarget(c, v) == Follow([c EXCEPT !.target = v, !.future = v <= rcntRcount(c)])
=============================================================================
