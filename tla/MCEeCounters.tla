----------------------------- MODULE MCEeCounters -----------------------------
(* EeCounters with the constants of its runs: a timer that overflows after    *)
(* four ticks, and modes by what they exercise.                               *)
EXTENDS EeCounters

(* A tick of the second clock is longer than a cycle and shorter than a block. *)
Rates == [k \in 0 .. 2 |-> <<1, 2, 4>>[k + 1]]

(* Half a PAL frame is shorter than its scanlines. *)
PalError == -1

(* A timer without gate that raises both interrupts. *)
Free(clock, zero) ==
  [NoMode EXCEPT !.clock = clock, !.counting = TRUE, !.zeroReturn = zero,
                 !.targetInt = TRUE, !.overflowInt = TRUE]

FreeModes == {Free(0, TRUE), Free(1, FALSE), Free(1, TRUE),
              [Free(0, TRUE) EXCEPT !.targetInt = FALSE]}

(* Such a timer with a gate, and one that counts hblanks. *)
AtGateOf(source, gateMode) ==
  [Free(1, FALSE) EXCEPT !.gate = TRUE, !.source = source, !.gateMode = gateMode]

Hblanks == Free(External, FALSE)

GateModes == {AtGateOf(s, k) : s \in {"hblank", "vblank"}, k \in 0 .. 3}
               \cup {Hblanks, [Hblanks EXCEPT !.gate = TRUE], NoMode, Free(0, TRUE)}

(* Those, without the gate modes of hblank that do what others do. *)
AllModes == FreeModes \cup (GateModes \ {AtGateOf("hblank", 1), AtGateOf("hblank", 2)})

ASSUME LongTargetsAssumption == LongTargets
=============================================================================
