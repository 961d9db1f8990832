--------------------------- MODULE EeCountersProofs ---------------------------
(* Proof that a timer counts only while its gate is open, that updates are    *)
(* scheduled in time for every event, that edges are taken on time, and that  *)
(* timers that software starts count exactly.                                 *)
(*                                                                           *)
(* The first needs no arithmetic: only how the handlers change the modes      *)
(* of timers, and that a part of the frame or of the scanline ends in the     *)
(* same step that opens and closes its gates.  So the shape of a timer is all *)
(* that is said there of its other fields.  The others rest on it, and on     *)
(* what the schedule, the branch test and the block that runs behind it add   *)
(* up to.                                                                    *)
EXTENDS EeCounters, FiniteSetTheorems, WellFoundedInduction, TLAPS

Fields == {"count", "target", "future", "mode", "age", "exact"}

IsTimer(c) ==
  /\ DOMAIN c = Fields /\ c = [x \in Fields |-> c[x]]
  /\ c.mode \in Mode

IsPart(p) ==
  /\ DOMAIN p = {"blank", "age", "length"} /\ p = [x \in {"blank", "age", "length"} |-> p[x]]
  /\ p.blank \in BOOLEAN

(* d is the timer c with the same mode. *)
SameMode(c, d) == IsTimer(d) /\ d.mode = c.mode

GateInv ==
  /\ gates \subseteq Index
  /\ timer = [i \in Index |-> timer[i]]
  /\ \A i \in Index : IsTimer(timer[i])
  /\ IsPart(hsync) /\ IsPart(vsync)
  /\ GateKept

(* Setting fields of a timer leaves a timer. *)
LEMMA SettingKeeps ==
  ASSUME NEW c, IsTimer(c), NEW a, NEW b, NEW f, NEW e, NEW t
  PROVE  /\ SameMode(c, [c EXCEPT !.count = a])
         /\ SameMode(c, [c EXCEPT !.age = a])
         /\ SameMode(c, [c EXCEPT !.exact = e])
         /\ SameMode(c, [c EXCEPT !.count = a, !.age = b])
         /\ SameMode(c, [c EXCEPT !.age = b, !.exact = e])
         /\ SameMode(c, [c EXCEPT !.target = t, !.future = f])
         /\ SameMode(c, [c EXCEPT !.count = a, !.future = f, !.age = b])
         /\ SameMode(c, [c EXCEPT !.exact.target = e, !.count = a, !.future = f])
         /\ SameMode(c, [c EXCEPT !.exact.overflow = e, !.count = a, !.future = f])
<1>1. SameMode(c, [c EXCEPT !.count = a])
  BY DEF IsTimer, SameMode, Fields
<1>2. SameMode(c, [c EXCEPT !.age = a])
  BY DEF IsTimer, SameMode, Fields
<1>3. SameMode(c, [c EXCEPT !.exact = e])
  BY DEF IsTimer, SameMode, Fields
<1>4. SameMode(c, [c EXCEPT !.count = a, !.age = b])
  BY DEF IsTimer, SameMode, Fields
<1>5. SameMode(c, [c EXCEPT !.age = b, !.exact = e])
  BY DEF IsTimer, SameMode, Fields
<1>6. SameMode(c, [c EXCEPT !.target = t, !.future = f])
  BY DEF IsTimer, SameMode, Fields
<1>7. SameMode(c, [c EXCEPT !.count = a, !.future = f, !.age = b])
  BY DEF IsTimer, SameMode, Fields
<1>8. SameMode(c, [c EXCEPT !.exact.target = e, !.count = a, !.future = f])
  BY DEF IsTimer, SameMode, Fields
<1>9. SameMode(c, [c EXCEPT !.exact.overflow = e, !.count = a, !.future = f])
  BY DEF IsTimer, SameMode, Fields
<1> QED
  BY <1>1, <1>2, <1>3, <1>4, <1>5, <1>6, <1>7, <1>8, <1>9

(* Tests, updates and counted hblanks leave the mode of a timer alone. *)
LEMMA UpdatesKeep ==
  ASSUME NEW c, IsTimer(c)
  PROVE  /\ SameMode(c, cpuTestTarget(c))
         /\ SameMode(c, cpuTestOverflow(c))
         /\ SameMode(c, CatchUp(c))
<1>1. SameMode(c, c)
  BY DEF SameMode
<1>2. SameMode(c, cpuTestTarget(c))
  BY <1>1, SettingKeeps, ZenonT(40) DEF cpuTestTarget
<1>3. SameMode(c, cpuTestOverflow(c))
  BY <1>1, SettingKeeps, ZenonT(40) DEF cpuTestOverflow
<1>4. SameMode(c, CatchUp(c))
  BY SettingKeeps, ZenonT(40) DEF CatchUp
<1> QED
  BY <1>2, <1>3, <1>4

(* So do an update, a counted hblank, and time. *)
LEMMA TimeKeeps ==
  ASSUME NEW c, IsTimer(c), NEW d
  PROVE  SameMode(c, Update(c)) /\ SameMode(c, HblankTick(c)) /\ SameMode(c, Pass(c, d))
<1>1. SameMode(c, c)
  BY DEF SameMode
<1>2. SameMode(c, Update(c))
  <2>1. CASE Ticking(c)
    <3>1. SameMode(c, CatchUp(c))
      BY UpdatesKeep
    <3>2. SameMode(c, cpuTestTarget(CatchUp(c)))
      BY <3>1, UpdatesKeep DEF SameMode
    <3>3. SameMode(c, cpuTestOverflow(cpuTestTarget(CatchUp(c))))
      BY <3>2, UpdatesKeep DEF SameMode
    <3> QED
      BY <2>1, <3>3 DEF Update, Ticking
  <2>2. CASE ~c.mode.counting
    BY <2>2, <1>1 DEF Update, Ticking
  <2>3. CASE c.mode.counting /\ c.mode.clock = External
    BY <2>3, SettingKeeps, ZenonT(40) DEF Update, Ticking
  <2> QED
    BY <2>1, <2>2, <2>3 DEF Ticking
<1>3. SameMode(c, HblankTick(c))
  <2> DEFINE d1 == [c EXCEPT !.count = @ + 1]
  <2>1. SameMode(c, d1)
    BY SettingKeeps, ZenonT(40)
  <2> HIDE DEF d1
  <2>2. SameMode(c, cpuTestTarget(d1))
    BY <2>1, UpdatesKeep DEF SameMode
  <2>3. SameMode(c, cpuTestOverflow(cpuTestTarget(d1)))
    BY <2>2, UpdatesKeep DEF SameMode
  <2> QED
    BY <1>1, <2>3 DEF HblankTick, d1
<1>4. SameMode(c, Pass(c, d))
  BY <1>1, SettingKeeps, ZenonT(40) DEF Pass
<1> QED
  BY <1>2, <1>3, <1>4

(* A timer at a gate keeps what its gate is. *)
SameGate(c, d) ==
  IsTimer(d) /\ d.mode.source = c.mode.source /\ d.mode.gateMode = c.mode.gateMode

(* Gates start and stop a timer, and change nothing else of its mode. *)
LEMMA GatesKeep ==
  ASSUME NEW c, IsTimer(c), NEW edge
  PROVE  /\ SameGate(c, StartGate(c, edge))
         /\ SameGate(c, EndGate(c, edge))
         /\ c.mode.gateMode = 0 => ~EndGate(c, edge).mode.counting
<1>1. c.mode.gateMode \in 0 .. 3
  BY DEF IsTimer, Mode
<1>2. SameGate(c, c)
  BY DEF SameGate
<1>3. SameGate(c, Restart(c, edge))
  BY DEF SameGate, Restart, IsTimer, Fields, Mode
<1>4. SameGate(c, StartGate(c, edge))
  <2>1. CASE c.mode.gateMode = 0
    <3>1. StartGate(c, edge) = [c EXCEPT !.mode.counting = TRUE, !.age = edge, !.exact = Off]
      BY <2>1 DEF StartGate
    <3>2. SameGate(c, [c EXCEPT !.mode.counting = TRUE, !.age = edge, !.exact = Off])
      BY DEF SameGate, IsTimer, Fields, Mode
    <3> QED
      BY <3>1, <3>2
  <2>2. CASE c.mode.gateMode = 2
    BY <2>2, <1>2 DEF StartGate
  <2>3. CASE c.mode.gateMode \in {1, 3}
    BY <2>3, <1>3 DEF StartGate
  <2> QED
    BY <1>1, <2>1, <2>2, <2>3
<1>5. SameGate(c, EndGate(c, edge)) /\ (c.mode.gateMode = 0 => ~EndGate(c, edge).mode.counting)
  <2>1. CASE c.mode.gateMode = 0
    <3> DEFINE d == [c EXCEPT !.count = rcntRcount(c), !.mode.counting = FALSE,
                              !.age = edge, !.exact = Off]
    <3>1. EndGate(c, edge) = d
      BY <2>1 DEF EndGate
    <3>2. SameGate(c, d) /\ ~d.mode.counting
      BY DEF SameGate, IsTimer, Fields, Mode
    <3> QED
      BY <3>1, <3>2
  <2>2. CASE c.mode.gateMode = 1
    BY <2>2, <1>2 DEF EndGate
  <2>3. CASE c.mode.gateMode \in {2, 3}
    BY <2>3, <1>3 DEF EndGate
  <2> QED
    BY <1>1, <2>1, <2>2, <2>3
<1> QED
  BY <1>4, <1>5

(* A timer whose mode says that it waits for a gate is stopped by _rcntSetGate. *)
LEMMA SetGateStops ==
  ASSUME NEW c, IsTimer(c)
  PROVE  /\ SameGate(c, rcntSetGate(c))
         /\ Gated(c.mode) => ~rcntSetGate(c).mode.counting
<1>1. CASE Gated(c.mode)
  <2> DEFINE d == [c EXCEPT !.mode.counting = FALSE, !.count = 0, !.age = 0, !.exact = Off]
  <2>1. rcntSetGate(c) = d
    BY <1>1 DEF rcntSetGate
  <2>2. SameGate(c, d) /\ ~d.mode.counting
    BY DEF SameGate, IsTimer, Fields, Mode
  <2> QED
    BY <2>1, <2>2
<1>2. CASE ~Gated(c.mode)
  BY <1>2 DEF rcntSetGate, SameGate
<1> QED
  BY <1>1, <1>2

(* Writes of software: only a write of the mode changes the mode, and it       *)
(* stops a timer with a gate.                                                 *)
LEMMA WritesKeep ==
  ASSUME NEW c, IsTimer(c), NEW v, NEW m \in Mode
  PROVE  /\ SameMode(c, rcntWcount(c, v))
         /\ SameMode(c, rcntWtarget(c, v))
         /\ IsTimer(rcntWmode(c, m))
         /\ Gated(m) => ~rcntWmode(c, m).mode.counting
<1>1. ASSUME NEW d, IsTimer(d)
      PROVE  SameMode(d, Follow(d))
  BY <1>1, SettingKeeps, ZenonT(40) DEF Follow
<1>2. SameMode(c, rcntWcount(c, v))
  <2> DEFINE f == v > c.target
             a == CASE ~c.mode.counting -> 0
                    [] Ticking(c) -> c.age % Rate(c)
                    [] OTHER -> c.age
             d == [c EXCEPT !.count = v, !.future = f, !.age = a]
  <2>1. rcntWcount(c, v) = Follow(d)
    BY DEF rcntWcount
  <2>2. SameMode(c, d)
    BY SettingKeeps, ZenonT(40)
  <2> QED
    BY <2>1, <2>2, <1>1 DEF SameMode
<1>3. SameMode(c, rcntWtarget(c, v))
  <2> DEFINE f == v <= rcntRcount(c)
             d == [c EXCEPT !.target = v, !.future = f]
  <2>1. rcntWtarget(c, v) = Follow(d)
    BY DEF rcntWtarget
  <2>2. SameMode(c, d)
    BY SettingKeeps, ZenonT(40)
  <2> QED
    BY <2>1, <2>2, <1>1 DEF SameMode
<1>4. IsTimer(rcntWmode(c, m)) /\ (Gated(m) => ~rcntWmode(c, m).mode.counting)
  <2> DEFINE synced == CASE ~c.mode.counting -> [c EXCEPT !.age = 0]
                         [] Ticking(c) -> CatchUp(c)
                         [] OTHER -> c
             d == [synced EXCEPT !.mode = m]
  <2>1. SameMode(c, synced)
    <3>1. SameMode(c, c) /\ SameMode(c, CatchUp(c)) /\ SameMode(c, [c EXCEPT !.age = 0])
      BY SettingKeeps, UpdatesKeep, ZenonT(40) DEF SameMode
    <3>2. synced = [c EXCEPT !.age = 0] \/ synced = CatchUp(c) \/ synced = c
      BY DEF Ticking
    <3> QED
      BY <3>1, <3>2
  <2>2. rcntWmode(c, m) = Follow(rcntSetGate(d))
    BY DEF rcntWmode
  <2> HIDE DEF synced
  <2>3. IsTimer(d) /\ d.mode = m
    BY <2>1 DEF SameMode, IsTimer, Fields
  <2> HIDE DEF d
  <2>4. IsTimer(rcntSetGate(d)) /\ (Gated(m) => ~rcntSetGate(d).mode.counting)
    BY <2>3, SetGateStops DEF SameGate
  <2>5. SameMode(rcntSetGate(d), Follow(rcntSetGate(d)))
    BY <2>4, <1>1
  <2> QED
    BY <2>2, <2>4, <2>5 DEF SameMode
<1> QED
  BY <1>2, <1>3, <1>4, SMTT(40)

LEMMA NewTimerStopped == IsTimer(NewTimer) /\ NewTimer.mode = NoMode /\ ~NoMode.counting
BY DEF NewTimer, IsTimer, Fields, NoMode, Mode, External

-----------------------------------------------------------------------------
(* The gates of hblank, at the start of a branch test. *)
LEMMA HGatesKeep ==
  ASSUME GateInv, NEW i \in Index
  PROVE  /\ SameGate(timer[i], HGates(i))
         /\ ~Over(hsync) => HGates(i) = timer[i]
         /\ ~AtGate(i, "hblank") => SameMode(timer[i], HGates(i))
         /\ Over(hsync) /\ AtGate(i, "hblank") /\ ~hsync.blank /\ timer[i].mode.gateMode = 0
              => ~HGates(i).mode.counting
<1> DEFINE c == IF hsync.blank THEN HblankTick(timer[i]) ELSE timer[i]
<1>1. IsTimer(timer[i])
  BY DEF GateInv
<1>2. SameMode(timer[i], timer[i])
  BY <1>1 DEF SameMode
<1>3. SameMode(timer[i], HblankTick(timer[i]))
  BY <1>1, TimeKeeps
<1>4. SameMode(timer[i], c)
  BY <1>2, <1>3
<1>5. /\ ~Over(hsync) => HGates(i) = timer[i]
      /\ Over(hsync) /\ ~AtGate(i, "hblank") => HGates(i) = c
      /\ Over(hsync) /\ AtGate(i, "hblank") /\ hsync.blank => HGates(i) = StartGate(c, hsync.age)
      /\ Over(hsync) /\ AtGate(i, "hblank") /\ ~hsync.blank => HGates(i) = EndGate(c, hsync.age)
  BY DEF HGates
<1> HIDE DEF c
<1>6. /\ SameGate(c, StartGate(c, hsync.age))
      /\ SameGate(c, EndGate(c, hsync.age))
      /\ c.mode.gateMode = 0 => ~EndGate(c, hsync.age).mode.counting
  BY <1>4, GatesKeep DEF SameMode
<1>7. SameGate(timer[i], timer[i]) /\ SameGate(timer[i], c)
  BY <1>2, <1>4 DEF SameMode, SameGate
<1>8. SameGate(timer[i], HGates(i))
  BY <1>5, <1>6, <1>7, <1>4 DEF SameGate, SameMode
<1>9. ~AtGate(i, "hblank") => SameMode(timer[i], HGates(i))
  BY <1>5, <1>2, <1>4
<1>10. Over(hsync) /\ AtGate(i, "hblank") /\ ~hsync.blank /\ timer[i].mode.gateMode = 0
         => ~HGates(i).mode.counting
  BY <1>5, <1>6, <1>4 DEF SameMode
<1> QED
  BY <1>5, <1>8, <1>9, <1>10

(* The gates of vblank, after those of hblank. *)
LEMMA VGatesKeep ==
  ASSUME GateInv, NEW i \in Index
  PROVE  /\ SameGate(timer[i], VGates(i))
         /\ ~Over(vsync) \/ ~AtGate(i, "vblank") => VGates(i) = HGates(i)
         /\ Over(vsync) /\ AtGate(i, "vblank") /\ vsync.blank /\ timer[i].mode.gateMode = 0
              => ~VGates(i).mode.counting
<1> DEFINE c == HGates(i)
<1>1. SameGate(timer[i], c)
  BY HGatesKeep
<1>2. /\ ~Over(vsync) \/ ~AtGate(i, "vblank") => VGates(i) = c
      /\ Over(vsync) /\ AtGate(i, "vblank") /\ ~vsync.blank => VGates(i) = StartGate(c, vsync.age)
      /\ Over(vsync) /\ AtGate(i, "vblank") /\ vsync.blank => VGates(i) = EndGate(c, vsync.age)
  BY DEF VGates
<1> HIDE DEF c
<1>3. /\ SameGate(c, StartGate(c, vsync.age))
      /\ SameGate(c, EndGate(c, vsync.age))
      /\ c.mode.gateMode = 0 => ~EndGate(c, vsync.age).mode.counting
  BY <1>1, GatesKeep DEF SameGate
<1>4. SameGate(timer[i], VGates(i))
  BY <1>1, <1>2, <1>3 DEF SameGate
<1>5. Over(vsync) /\ AtGate(i, "vblank") /\ vsync.blank /\ timer[i].mode.gateMode = 0
        => ~VGates(i).mode.counting
  BY <1>1, <1>2, <1>3 DEF SameGate
<1> QED
  BY <1>2, <1>4, <1>5 DEF c

(* A part that is over is followed by the other one, and only then. *)
LEMMA PartsFollow ==
  ASSUME GateInv
  PROVE  /\ IsPart(NextHsync) /\ IsPart(NextVsync) /\ IsPart(Corrected(NextHsync))
         /\ NextHsync.blank = (IF Over(hsync) THEN ~hsync.blank ELSE hsync.blank)
         /\ Corrected(NextHsync).blank = NextHsync.blank
         /\ NextVsync.blank = (IF Over(vsync) THEN ~vsync.blank ELSE vsync.blank)
<1>1. IsPart(hsync) /\ IsPart(vsync)
  BY DEF GateInv
<1>2. hsync.blank \in BOOLEAN /\ vsync.blank \in BOOLEAN
  BY <1>1 DEF IsPart
<1>3. IsPart(NextHsync) /\ NextHsync.blank = (IF Over(hsync) THEN ~hsync.blank ELSE hsync.blank)
  BY <1>1, <1>2 DEF NextHsync, Following, IsPart
<1>4. IsPart(NextVsync) /\ NextVsync.blank = (IF Over(vsync) THEN ~vsync.blank ELSE vsync.blank)
  BY <1>1, <1>2 DEF NextVsync, Following, IsPart
<1>5. IsPart(Corrected(NextHsync)) /\ Corrected(NextHsync).blank = NextHsync.blank
  BY <1>3 DEF Corrected, IsPart
<1> QED
  BY <1>3, <1>4, <1>5

-----------------------------------------------------------------------------
(* What GateKept says of one timer. *)
Kept(c, v, h) ==
  c.mode.gateMode = 0 /\ c.mode.counting
    => IF c.mode.source = "vblank" THEN v.blank ELSE ~h.blank

LEMMA KeptByEach ==
  GateKept <=> \A i \in gates : Kept(timer[i], vsync, hsync)
BY DEF GateKept, GateOpen, Kept

(* Timers that are timers, and gates that are kept, make the invariant. *)
LEMMA GateInvNext ==
  ASSUME gates' \subseteq Index,
         timer' = [i \in Index |-> timer'[i]],
         \A i \in Index : IsTimer(timer'[i]),
         IsPart(hsync') /\ IsPart(vsync'),
         \A i \in gates' : Kept(timer'[i], vsync', hsync')
  PROVE  GateInv'
BY DEF GateInv, GateKept, GateOpen, Kept

LEMMA GateInvInit == Init => GateInv
<1> SUFFICES ASSUME Init PROVE GateInv
  OBVIOUS
<1>1. timer = [i \in Index |-> NewTimer] /\ gates = {}
  BY DEF Init, Cleared
<1>2. \A i \in Index : IsTimer(timer[i])
  BY <1>1, NewTimerStopped
<1>3. IsPart(hsync) /\ IsPart(vsync)
  BY DEF Init, Cleared, Starting, IsPart
<1>4. GateKept
  BY <1>1 DEF GateKept, GateOpen
<1> QED
  BY <1>1, <1>2, <1>3, <1>4 DEF GateInv

LEMMA BranchTestKeepsGates ==
  ASSUME GateInv, cpuBranchTest
  PROVE  GateInv'
<1>1. gates' = gates /\ gates \subseteq Index
  BY DEF cpuBranchTest, GateInv
<1>2. \A i \in gates : Kept(timer[i], vsync, hsync)
  BY KeptByEach DEF GateInv
<1>3. hsync.blank \in BOOLEAN /\ vsync.blank \in BOOLEAN
  BY DEF GateInv, IsPart
<1>4. \A i \in Index : timer[i].mode.source \in {"hblank", "vblank"}
  BY DEF GateInv, IsTimer, Mode
<1>5. CASE rcntUpdate
  <2>1. /\ timer' = [i \in Index |-> Update(VGates(i))]
        /\ vsync' = NextVsync /\ hsync' = Corrected(NextHsync)
    BY <1>5 DEF rcntUpdate
  <2>2. IsPart(hsync') /\ IsPart(vsync')
    BY <2>1, PartsFollow
  <2>3. ASSUME NEW i \in Index
        PROVE  IsTimer(timer'[i]) /\ timer'[i].mode = VGates(i).mode
    <3>1. IsTimer(VGates(i))
      BY VGatesKeep DEF SameGate
    <3>2. SameMode(VGates(i), Update(VGates(i)))
      BY <3>1, TimeKeeps
    <3> QED
      BY <2>1, <3>2 DEF SameMode
  <2>4. ASSUME NEW i \in gates
        PROVE  Kept(timer'[i], vsync', hsync')
    <3>1. i \in Index
      BY <1>1
    <3>2. SUFFICES Kept(VGates(i), NextVsync, NextHsync)
      BY <2>1, <2>3, <3>1, PartsFollow DEF Kept
    <3>3. Kept(timer[i], vsync, hsync)
      BY <1>2
    <3>4. CASE timer[i].mode.source = "vblank"
      <4>1. AtGate(i, "vblank") /\ ~AtGate(i, "hblank")
        BY <3>4 DEF AtGate
      <4>2. HGates(i).mode = timer[i].mode
        BY <3>1, <4>1, HGatesKeep DEF SameMode
      <4>3. SameGate(timer[i], VGates(i))
        BY <3>1, VGatesKeep
      <4>4. CASE ~Over(vsync)
        <5>1. VGates(i).mode = timer[i].mode
          BY <3>1, <4>2, <4>4, VGatesKeep
        <5> QED
          BY <3>3, <3>4, <4>4, <5>1, PartsFollow DEF Kept
      <4>5. CASE Over(vsync) /\ vsync.blank
        BY <3>1, <4>1, <4>3, <4>5, VGatesKeep DEF Kept, SameGate
      <4>6. CASE Over(vsync) /\ ~vsync.blank
        BY <3>4, <4>3, <4>6, <1>3, PartsFollow DEF Kept, SameGate
      <4> QED
        BY <4>4, <4>5, <4>6
    <3>5. CASE timer[i].mode.source = "hblank"
      <4>1. AtGate(i, "hblank") /\ ~AtGate(i, "vblank")
        BY <3>5 DEF AtGate
      <4>2. VGates(i) = HGates(i)
        BY <3>1, <4>1, VGatesKeep
      <4>3. SameGate(timer[i], HGates(i))
        BY <3>1, HGatesKeep
      <4>4. CASE ~Over(hsync)
        <5>1. HGates(i) = timer[i]
          BY <3>1, <4>4, HGatesKeep
        <5> QED
          BY <3>3, <3>5, <4>2, <4>4, <5>1, PartsFollow DEF Kept
      <4>5. CASE Over(hsync) /\ ~hsync.blank
        BY <3>1, <4>1, <4>2, <4>3, <4>5, HGatesKeep DEF Kept, SameGate
      <4>6. CASE Over(hsync) /\ hsync.blank
        BY <3>5, <4>2, <4>3, <4>6, <1>3, PartsFollow DEF Kept, SameGate
      <4> QED
        BY <4>4, <4>5, <4>6
    <3> QED
      BY <3>1, <3>4, <3>5, <1>4
  <2> QED
    BY <1>1, <2>1, <2>2, <2>3, <2>4, GateInvNext
<1>6. CASE NoUpdate
  <2>1. /\ timer' = [i \in Index |-> HGates(i)]
        /\ vsync' = vsync /\ hsync' = NextHsync
    BY <1>6 DEF NoUpdate
  <2>2. IsPart(hsync') /\ IsPart(vsync')
    BY <2>1, PartsFollow DEF GateInv
  <2>3. ASSUME NEW i \in Index
        PROVE  IsTimer(timer'[i])
    BY <2>1, HGatesKeep DEF SameGate
  <2>4. ASSUME NEW i \in gates
        PROVE  Kept(timer'[i], vsync', hsync')
    <3>1. i \in Index
      BY <1>1
    <3>2. SUFFICES Kept(HGates(i), vsync, NextHsync)
      BY <2>1, <3>1
    <3>3. Kept(timer[i], vsync, hsync)
      BY <1>2
    <3>4. CASE timer[i].mode.source = "vblank"
      <4>1. ~AtGate(i, "hblank")
        BY <3>4 DEF AtGate
      <4>2. HGates(i).mode = timer[i].mode
        BY <3>1, <4>1, HGatesKeep DEF SameMode
      <4> QED
        BY <3>3, <3>4, <4>2 DEF Kept
    <3>5. CASE timer[i].mode.source = "hblank"
      <4>1. AtGate(i, "hblank")
        BY <3>5 DEF AtGate
      <4>2. SameGate(timer[i], HGates(i))
        BY <3>1, HGatesKeep
      <4>3. CASE ~Over(hsync)
        <5>1. HGates(i) = timer[i]
          BY <3>1, <4>3, HGatesKeep
        <5> QED
          BY <3>3, <3>5, <4>3, <5>1, PartsFollow DEF Kept
      <4>4. CASE Over(hsync) /\ ~hsync.blank
        BY <3>1, <4>1, <4>2, <4>4, HGatesKeep DEF Kept, SameGate
      <4>5. CASE Over(hsync) /\ hsync.blank
        BY <3>5, <4>2, <4>5, <1>3, PartsFollow DEF Kept, SameGate
      <4> QED
        BY <4>3, <4>4, <4>5
    <3> QED
      BY <3>1, <3>4, <3>5, <1>4
  <2> QED
    BY <1>1, <2>1, <2>2, <2>3, <2>4, GateInvNext
<1> QED
  BY <1>5, <1>6 DEF cpuBranchTest

LEMMA RunBlockKeepsGates ==
  ASSUME GateInv, RunBlock
  PROVE  GateInv'
<1>1. gates' = gates /\ gates \subseteq Index
  BY DEF RunBlock, GateInv
<1>2. PICK d \in 1 .. MaxBlock :
        /\ timer' = [i \in Index |-> Pass(timer[i], d)]
        /\ hsync' = [hsync EXCEPT !.age = @ + d]
        /\ vsync' = [vsync EXCEPT !.age = @ + d]
  BY DEF RunBlock
<1>3. IsPart(hsync') /\ IsPart(vsync') /\ hsync'.blank = hsync.blank /\ vsync'.blank = vsync.blank
  BY <1>2 DEF GateInv, IsPart
<1>4. ASSUME NEW i \in Index
      PROVE  IsTimer(timer'[i]) /\ timer'[i].mode = timer[i].mode
  <2>1. SameMode(timer[i], Pass(timer[i], d))
    BY TimeKeeps DEF GateInv
  <2> QED
    BY <1>2, <2>1 DEF SameMode
<1>5. \A i \in gates : Kept(timer'[i], vsync', hsync')
  BY <1>1, <1>3, <1>4, KeptByEach DEF Kept, GateInv
<1> QED
  BY <1>1, <1>2, <1>3, <1>4, <1>5, GateInvNext

(* Software's write of register i keeps the invariant if it keeps the gate of  *)
(* that timer.                                                                *)
LEMMA WrittenKeepsGates ==
  ASSUME GateInv, NEW i \in Index, NEW c, Written(i, c), IsTimer(c),
         gates' \subseteq gates \cup {i},
         i \in gates' => Kept(c, vsync, hsync)
  PROVE  GateInv'
<1>1. timer' = [timer EXCEPT ![i] = c] /\ hsync' = hsync /\ vsync' = vsync
  BY DEF Written
<1>2. timer' = [j \in Index |-> IF j = i THEN c ELSE timer[j]]
  BY <1>1 DEF GateInv
<1>3. gates' \subseteq Index /\ IsPart(hsync') /\ IsPart(vsync')
  BY <1>1 DEF GateInv
<1>4. \A j \in Index : IsTimer(timer'[j])
  BY <1>2 DEF GateInv
<1>5. \A j \in gates' : Kept(timer'[j], vsync', hsync')
  BY <1>1, <1>2, <1>3, KeptByEach DEF GateInv
<1> QED
  BY <1>2, <1>3, <1>4, <1>5, GateInvNext

LEMMA WritesKeepGates ==
  ASSUME GateInv, Writes
  PROVE  GateInv'
<1>1. PICK i \in Index : WriteMode(i) \/ WriteCount(i) \/ WriteTarget(i)
  BY DEF Writes
<1>2. IsTimer(timer[i])
  BY DEF GateInv
<1>3. i \in gates => Kept(timer[i], vsync, hsync)
  BY KeptByEach DEF GateInv
<1>4. CASE WriteMode(i)
  <2>1. PICK m \in Modes :
          /\ Written(i, rcntWmode(timer[i], m))
          /\ gates' = IF Gated(m) THEN gates \cup {i} ELSE gates \ {i}
    BY <1>4 DEF WriteMode
  <2>2. m \in Mode
    BY EeCountersAssumption
  <2>3. /\ IsTimer(rcntWmode(timer[i], m))
        /\ Gated(m) => ~rcntWmode(timer[i], m).mode.counting
    BY <1>2, <2>2, WritesKeep
  <2>4. gates' \subseteq gates \cup {i} /\ (i \in gates' => Gated(m))
    BY <2>1
  <2>5. i \in gates' => Kept(rcntWmode(timer[i], m), vsync, hsync)
    BY <2>3, <2>4 DEF Kept
  <2> QED
    BY <2>1, <2>3, <2>4, <2>5, WrittenKeepsGates
<1>5. CASE WriteCount(i)
  <2>1. PICK v \in Counts : Written(i, rcntWcount(timer[i], v))
    BY <1>5 DEF WriteCount
  <2>2. gates' = gates
    BY <1>5 DEF WriteCount
  <2>3. SameMode(timer[i], rcntWcount(timer[i], v))
    <3>1. NoMode \in Mode
      BY NewTimerStopped DEF IsTimer
    <3> QED
      BY <1>2, <3>1, WritesKeep
  <2>4. IsTimer(rcntWcount(timer[i], v)) /\ (i \in gates' => Kept(rcntWcount(timer[i], v), vsync, hsync))
    BY <1>3, <2>2, <2>3 DEF SameMode, Kept
  <2> QED
    BY <2>1, <2>2, <2>4, WrittenKeepsGates
<1>6. CASE WriteTarget(i)
  <2>1. PICK v \in Targets : Written(i, rcntWtarget(timer[i], v))
    BY <1>6 DEF WriteTarget
  <2>2. gates' = gates
    BY <1>6 DEF WriteTarget
  <2>3. SameMode(timer[i], rcntWtarget(timer[i], v))
    <3>1. NoMode \in Mode
      BY NewTimerStopped DEF IsTimer
    <3> QED
      BY <1>2, <3>1, WritesKeep
  <2>4. IsTimer(rcntWtarget(timer[i], v)) /\ (i \in gates' => Kept(rcntWtarget(timer[i], v), vsync, hsync))
    BY <1>3, <2>2, <2>3 DEF SameMode, Kept
  <2> QED
    BY <2>1, <2>2, <2>4, WrittenKeepsGates
<1> QED
  BY <1>1, <1>4, <1>5, <1>6

(* Lengths of parts may be set anew at any moment. *)
LEMMA LengthsKeepParts ==
  ASSUME GateInv, UpdateVSyncRate
  PROVE  IsPart(hsync') /\ IsPart(vsync') /\ hsync'.blank = hsync.blank /\ vsync'.blank = vsync.blank
BY DEF GateInv, UpdateVSyncRate, IsPart

LEMMA RateSetKeepsGates ==
  ASSUME GateInv, RateSet
  PROVE  GateInv'
<1>1. timer' = timer /\ gates' = gates
  BY DEF RateSet
<1>2. IsPart(hsync') /\ IsPart(vsync') /\ hsync'.blank = hsync.blank /\ vsync'.blank = vsync.blank
  BY LengthsKeepParts DEF RateSet
<1>3. \A i \in gates : Kept(timer[i], vsync', hsync')
  BY <1>2, KeptByEach DEF GateInv, Kept
<1> QED
  BY <1>1, <1>2, <1>3, GateInvNext DEF GateInv

LEMMA LoadStateKeepsGates ==
  ASSUME GateInv, LoadState
  PROVE  GateInv'
<1>1. /\ timer' = [i \in Index |-> rcntSetGate(timer[i])]
      /\ gates' = {i \in Index : Gated(timer[i].mode)}
  BY DEF LoadState
<1>2. IsPart(hsync') /\ IsPart(vsync')
  BY LengthsKeepParts DEF LoadState
<1>3. ASSUME NEW i \in Index
      PROVE  IsTimer(timer'[i]) /\ (Gated(timer[i].mode) => ~timer'[i].mode.counting)
  BY <1>1, SetGateStops DEF GateInv, SameGate
<1>4. \A i \in gates' : Kept(timer'[i], vsync', hsync')
  BY <1>1, <1>3 DEF Kept
<1> QED
  BY <1>1, <1>2, <1>3, <1>4, GateInvNext

LEMMA ResetKeepsGates ==
  ASSUME GateInv, cpuReset
  PROVE  GateInv'
<1>1. timer' = [i \in Index |-> NewTimer] /\ gates' = gates
  BY DEF cpuReset, Cleared
<1>2. IsPart(hsync') /\ IsPart(vsync')
  BY DEF cpuReset, Cleared, Starting, IsPart
<1>3. \A i \in Index : IsTimer(timer'[i]) /\ ~timer'[i].mode.counting
  BY <1>1, NewTimerStopped
<1>4. \A i \in gates' : Kept(timer'[i], vsync', hsync')
  BY <1>1, <1>3 DEF Kept, GateInv
<1> QED
  BY <1>1, <1>2, <1>3, <1>4, GateInvNext DEF GateInv

-----------------------------------------------------------------------------
(* The invariant behind GateKept: timers have the fields of a timer and a      *)
(* mode, and one whose gate lets it count in one part counts in no other.     *)
THEOREM GateInvariant == Spec => []GateInv
<1>1. Init => GateInv
  BY GateInvInit
<1>2. GateInv /\ [Next]_vars => GateInv'
  <2> SUFFICES ASSUME GateInv, [Next]_vars PROVE GateInv'
    OBVIOUS
  <2>1. CASE cpuBranchTest
    BY <2>1, BranchTestKeepsGates
  <2>2. CASE RunBlock
    BY <2>2, RunBlockKeepsGates
  <2>3. CASE Writes
    BY <2>3, WritesKeepGates
  <2>4. CASE RateSet
    BY <2>4, RateSetKeepsGates
  <2>5. CASE LoadState
    BY <2>5, LoadStateKeepsGates
  <2>6. CASE cpuReset
    BY <2>6, ResetKeepsGates
  <2>7. CASE UNCHANGED vars
    BY <2>7 DEF vars, GateInv, GateKept, GateOpen
  <2> QED
    BY <2>1, <2>2, <2>3, <2>4, <2>5, <2>6, <2>7 DEF Next
<1> QED
  BY <1>1, <1>2, PTL DEF Spec

(* A timer with a gate of mode 0 counts only where the code opens its gate     *)
(* (GateOpen: inside vblank, outside hblank), whatever software writes when,   *)
(* and through loads and resets (rcntStartGate, rcntEndGate, _rcntSetGate).    *)
THEOREM GatesAreKept == Spec => []GateKept
<1>1. GateInv => GateKept
  BY DEF GateInv
<1> QED
  BY <1>1, GateInvariant, PTL

-----------------------------------------------------------------------------
(* A remainder holds no whole part. *)
LEMMA RemainderIsLess ==
  ASSUME NEW a \in Nat, NEW r \in Nat \ {0}
  PROVE  a % r \in Nat /\ (a % r) \div r = 0
<1>1. a % r \in 0 .. r - 1
  OBVIOUS
<1>2. ASSUME NEW b \in 0 .. r - 1
      PROVE  b \div r = 0
  OBVIOUS
<1> QED
  BY <1>1, <1>2

(* Bringing a timer up to date, in rcntUpdate and in a write of its mode,      *)
(* does not change what software reads from it: no tick is lost, and none is   *)
(* counted twice, however often updates come.                                 *)
THEOREM CatchUpKeepsReads ==
  ASSUME NEW c, IsTimer(c), Ticking(c), c.count \in Int, c.age \in Nat
  PROVE  rcntRcount(CatchUp(c)) = rcntRcount(c)
<1> DEFINE d == CatchUp(c)
           r == Rate(c)
<1>1. r \in Nat \ {0}
  BY EeTimerAssumption DEF Ticking, IsTimer, Mode, External, Rate
<1>2. /\ d.mode = c.mode
      /\ d.count = c.count + c.age \div r
      /\ d.age = c.age % r
  BY DEF CatchUp, rcntRcount, IsTimer, Fields
<1>3. c.age \div r \in Int /\ (c.age % r) \div r = 0
  BY <1>1, RemainderIsLess
<1>4. rcntRcount(d) = d.count + d.age \div r
  BY <1>2 DEF rcntRcount, Ticking, Rate
<1> QED
  BY <1>2, <1>3, <1>4 DEF rcntRcount
-----------------------------------------------------------------------------
(* Proof that the schedule holds and edges are on time.                      *)
(*                                                                           *)
(* What makes the time of an edge hard to see is that three things may put    *)
(* off the update that takes it: a write of software, which schedules anew    *)
(* from nextsCounter and not from now; the block that runs when the branch    *)
(* test comes due; and the one that runs behind a test whatever it found.     *)

(* The numbers a timer is scheduled by. *)
Numbers(c) == c.count \in Int /\ c.age \in Int /\ c.target \in Int

(* The cycle of the next edge of vblank, from nextsCounter; and the last one   *)
(* the update that takes it may be scheduled for.                             *)
VsyncDue == vsync.length - vsync.age + nextsAge
Latest == IF VsyncDue > Soon THEN VsyncDue ELSE Soon

(* How late the error of the frame makes an hblank. *)
Early == IF hSyncError < 0 THEN -hSyncError ELSE 0

Typed ==
  /\ hsync.age \in Int /\ vsync.age \in Int
  /\ nextsAge \in Int /\ nextCounter \in Int /\ branchIn \in Int
  /\ \A i \in Index : Numbers(timer[i])

(* The lengths of the parts.  UpdateVSyncRate gives hblank that of the render  *)
(* part as well.                                                              *)
Lengths ==
  /\ hsync.length \in {hRender, hBlank}
  /\ ~hsync.blank => hsync.length = hRender
  /\ vsync.length = IF vsync.blank THEN Blank ELSE Render

(* The branch test comes before the edge of hblank, or one block behind it... *)
HsyncOnTime ==
  /\ hsync.age < hsync.length + MaxBlock + Early
  /\ branchIn <= hsync.length - hsync.age
  /\ cpu # "block" => hsync.age < hsync.length + Early

(* ... and before the latest time of the update, or one block behind it. *)
VsyncOnTime ==
  /\ VsyncDue >= 0
  /\ nextsAge < Latest + MaxBlock
  /\ branchIn <= Latest - nextsAge
  /\ cpu # "block" => nextsAge < Latest
  /\ cpu = "stopped" => ~vsync.blank /\ nextsAge = 0

EdgeInv == Typed /\ Lengths /\ Scheduled /\ HsyncOnTime /\ VsyncOnTime

-----------------------------------------------------------------------------
(* Least and greatest elements. *)
LEMMA MaxOfTwo ==
  ASSUME NEW a \in Int, NEW b \in Int
  PROVE  Max({a, b}) = IF a >= b THEN a ELSE b
BY DEF Max

LEMMA MinIsLeast ==
  ASSUME NEW S \in SUBSET Int, NEW m \in S, \A y \in S : m <= y
  PROVE  Min(S) \in S /\ \A y \in S : Min(S) <= y
BY DEF Min

(* A set of naturals that is not empty has a least element: what induction    *)
(* over the timers rests on.  It is the one whose predecessors are the least  *)
(* in the order of finite sets by inclusion.                                  *)
LEMMA LeastNatural ==
  ASSUME NEW S \in SUBSET Nat, S # {}
  PROVE  \E m \in S : \A k \in S : m <= k
<1> DEFINE T == {0 .. k : k \in S}
<1>1. T \subseteq FiniteSubsetsOf(Nat) /\ T # {}
  <2>1. \A k \in S : 0 .. k \in SUBSET Nat /\ IsFiniteSet(0 .. k)
    BY FS_Interval
  <2> QED BY <2>1 DEF FiniteSubsetsOf
<1>2. IsWellFoundedOn(StrictSubsetOrdering(Nat), FiniteSubsetsOf(Nat))
  BY FS_StrictSubsetOrderingWellFounded
<1> HIDE DEF T
<1>3. PICK x \in T : \A y \in T : ~(<<y, x>> \in StrictSubsetOrdering(Nat))
  BY <1>1, <1>2, WFMin
<1>4. PICK m \in S : x = 0 .. m
  BY <1>3 DEF T
<1>5. ASSUME NEW k \in S, ~(m <= k)
      PROVE  FALSE
  <2>1. k \in Nat /\ m \in Nat /\ k < m
    BY <1>5
  <2>2. 0 .. k \subseteq 0 .. m /\ 0 .. k \subseteq Nat /\ 0 .. m \subseteq Nat
    BY <2>1
  <2>3. m \in 0 .. m /\ m \notin 0 .. k
    BY <2>1
  <2>4. <<0 .. k, 0 .. m>> \in StrictSubsetOrdering(Nat)
    BY <2>2, <2>3, Zenon DEF StrictSubsetOrdering
  <2>5. 0 .. k \in T
    BY DEF T
  <2> QED BY <1>3, <1>4, <2>4, <2>5
<1> QED BY <1>5

-----------------------------------------------------------------------------
(* The next counter. *)

(* nextCounter is no later than due, or than the Soon cycles of _rcntSet. *)
Meets(next, due) == next <= Soon \/ next <= due

LEMMA MeetsMax ==
  ASSUME NEW next \in Int, NEW due \in Int
  PROVE  next <= Max({Soon, due}) <=> Meets(next, due)
<1>1. Soon \in Int
  BY EeCountersAssumption
<1>2. Max({Soon, due}) = IF Soon >= due THEN Soon ELSE due
  BY <1>1, MaxOfTwo
<1> QED BY <1>1, <1>2 DEF Meets

LEMMA RateIsPositive ==
  ASSUME NEW c, IsTimer(c), Ticking(c)
  PROVE  Rate(c) \in Nat \ {0}
BY EeTimerAssumption DEF Ticking, IsTimer, Mode, External, Rate

(* The next event of a timer is its overflow or its target. *)
LEMMA DueIsNext ==
  ASSUME NEW c, IsTimer(c), Numbers(c), Ticking(c), NEW age \in Int
  PROVE  /\ DueIn(c, age) \in Int
         /\ \A next \in Int :
              /\ next <= (Wrap - c.count) * Rate(c) - c.age + age
              /\ c.future \/ next <= (c.target - c.count) * Rate(c) - c.age + age
              => next <= DueIn(c, age)
<1> DEFINE w == (Wrap - c.count) * Rate(c) - c.age + age
           t == (c.target - c.count) * Rate(c) - c.age + age
           S == {w} \cup IF c.future THEN {} ELSE {t}
<1>1. w \in Int /\ t \in Int
  BY EeTimerAssumption, RateIsPositive DEF Numbers
<1>2. DueIn(c, age) = Min(S)
  BY DEF DueIn
<1> HIDE DEF w, t
<1>3. S \in SUBSET Int
  BY <1>1
<1>4. \E m \in S : \A y \in S : m <= y
  BY <1>1
<1>5. Min(S) \in S
  BY <1>3, <1>4, MinIsLeast
<1>6. Min(S) = w \/ (~c.future /\ Min(S) = t)
  BY <1>5
<1> QED BY <1>1, <1>2, <1>6 DEF w, t

(* _rcntSet for one timer puts nextCounter off to Soon at most, and has it     *)
(* meet the next event of the timer.                                          *)
LEMMA SetMeets ==
  ASSUME NEW c, IsTimer(c), Numbers(c), NEW age \in Int, NEW next \in Int
  PROVE  /\ rcntSet(c, age, next) \in Int
         /\ Meets(rcntSet(c, age, next), next)
         /\ Ticking(c) => Meets(rcntSet(c, age, next), DueIn(c, age))
<1> DEFINE w == (Wrap - c.count) * Rate(c) - c.age + age
           t == (c.target - c.count) * Rate(c) - c.age + age
           S == {next, w} \cup IF c.future THEN {} ELSE {t}
           over == c.count > Wrap \/ (~c.future /\ c.count > c.target)
<1>1. Soon \in Int
  BY EeCountersAssumption
<1>2. /\ ~Ticking(c) => rcntSet(c, age, next) = next
      /\ Ticking(c) /\ over => rcntSet(c, age, next) = Soon
      /\ Ticking(c) /\ ~over => rcntSet(c, age, next) = Min(S)
  BY DEF rcntSet
<1>3. CASE ~Ticking(c)
  BY <1>2, <1>3 DEF Meets
<1>4. CASE Ticking(c) /\ over
  BY <1>1, <1>2, <1>4 DEF Meets
<1>5. CASE Ticking(c) /\ ~over
  <2>1. w \in Int /\ t \in Int
    BY <1>5, EeTimerAssumption, RateIsPositive DEF Numbers
  <2>2. \A x \in Int : x <= w /\ (c.future \/ x <= t) => x <= DueIn(c, age)
    BY <1>5, DueIsNext
  <2> HIDE DEF w, t
  <2>3. S \in SUBSET Int
    BY <2>1
  <2>4. \E m \in S : \A y \in S : m <= y
    <3>1. CASE c.future
      <4>1. S = {next, w}
        BY <3>1
      <4> QED BY <4>1, <2>1
    <3>2. CASE ~c.future
      <4>1. S = {next, w, t}
        BY <3>2
      <4> QED BY <4>1, <2>1
    <3> QED BY <3>1, <3>2
  <2>5. Min(S) \in S /\ \A y \in S : Min(S) <= y
    BY <2>3, <2>4, MinIsLeast
  <2>6. Min(S) \in Int /\ Min(S) <= next /\ Min(S) <= w /\ (c.future \/ Min(S) <= t)
    BY <2>3, <2>5
  <2> QED BY <1>2, <1>5, <2>2, <2>6 DEF Meets
<1> QED BY <1>3, <1>4, <1>5

LEMMA MeetsTransitive ==
  ASSUME NEW a \in Int, NEW b \in Int, NEW due \in Int, Meets(a, b), Meets(b, due)
  PROVE  Meets(a, due)
<1>1. Soon \in Int
  BY EeCountersAssumption
<1> QED BY <1>1 DEF Meets

(* The function of the nextCounters of cpuRcntSet, one timer after the other,  *)
(* exists.                                                                    *)
LEMMA NextsExist ==
  ASSUME NEW timers, NEW v
  PROVE  \E f : f = [i \in 0 .. Timers |-> IF i = 0 THEN v.length - v.age
                                           ELSE rcntSet(timers[i], 0, f[i - 1])]
<1> DEFINE first == v.length - v.age
           after(i, next) == rcntSet(timers[i], 0, next)
           Is(f, n) == f = [i \in 0 .. n |-> IF i = 0 THEN first ELSE after(i, f[i - 1])]
           bad == {n \in 0 .. Timers : ~ \E f : Is(f, n)}
<1>1. Timers \in Nat
  BY EeCountersAssumption
<1> HIDE DEF first, after
<1>2. ASSUME bad # {} PROVE FALSE
  <2>1. bad \in SUBSET Nat
    BY <1>1
  <2>2. PICK m \in bad : \A k \in bad : m <= k
    BY <1>2, <2>1, LeastNatural
  <2>3. m \in 0 .. Timers /\ m \in Nat /\ ~ \E f : Is(f, m)
    BY <1>1, <2>2
  <2>4. CASE m = 0
    <3>1. Is([i \in 0 .. 0 |-> first], 0)
      OBVIOUS
    <3> QED BY <2>3, <2>4, <3>1
  <2>5. CASE m # 0
    <3>1. m - 1 \in 0 .. Timers /\ m - 1 \notin bad
      <4>1. m - 1 \in 0 .. Timers /\ ~(m <= m - 1)
        BY <1>1, <2>3, <2>5
      <4> QED BY <2>2, <4>1
    <3>2. PICK f : Is(f, m - 1)
      BY <3>1
    <3> DEFINE g == [i \in 0 .. m |-> IF i = m THEN after(m, f[m - 1]) ELSE f[i]]
    <3>3. ASSUME NEW i \in 0 .. m
          PROVE  g[i] = IF i = 0 THEN first ELSE after(i, g[i - 1])
      <4>1. CASE i = m
        <5>1. m - 1 \in 0 .. m /\ m - 1 # m
          BY <2>3, <2>5
        <5> QED BY <2>5, <4>1, <5>1
      <4>2. CASE i # m
        <5>1. i \in 0 .. m - 1 /\ (i # 0 => i - 1 \in 0 .. m /\ i - 1 # m)
          BY <2>3, <4>2
        <5> QED BY <3>2, <4>2, <5>1
      <4> QED BY <4>1, <4>2
    <3>4. Is(g, m)
      BY <3>3
    <3> QED BY <2>3, <3>4
  <2> QED BY <2>4, <2>5
<1>3. Timers \in 0 .. Timers
  BY <1>1
<1>4. \E f : Is(f, Timers)
  BY <1>2, <1>3
<1> QED BY <1>4 DEF first, after

LEMMA NextsAre ==
  ASSUME NEW timers, NEW v
  PROVE  /\ NextsOf(timers, v)[0] = v.length - v.age
         /\ \A i \in Index : NextsOf(timers, v)[i] = rcntSet(timers[i], 0, NextsOf(timers, v)[i - 1])
<1> DEFINE N == NextsOf(timers, v)
       Is(f) == f = [i \in 0 .. Timers |-> IF i = 0 THEN v.length - v.age
                                          ELSE rcntSet(timers[i], 0, f[i - 1])]
<1>1. Is(N)
  <2>1. N = CHOOSE f : Is(f)
    BY DEF NextsOf
  <2>2. \E f : Is(f)
    BY NextsExist, ZenonT(40)
  <2> HIDE DEF N, Is
  <2> QED BY <2>1, <2>2
<1>2. Timers \in Nat
  BY EeCountersAssumption
<1>3. 0 \in 0 .. Timers /\ \A i \in Index : i \in 0 .. Timers /\ i # 0
  BY <1>2 DEF Index
<1> HIDE DEF N
<1>4. N[0] = v.length - v.age /\ \A i \in Index : N[i] = rcntSet(timers[i], 0, N[i - 1])
  BY <1>1, <1>3
<1> QED BY <1>4 DEF N

(* cpuRcntSet schedules the update for the vsync and for every timer. *)
LEMMA SchedulesAll ==
  ASSUME NEW timers, \A i \in Index : IsTimer(timers[i]) /\ Numbers(timers[i]),
         NEW v, v.length - v.age \in Int
  PROVE  /\ cpuRcntSet(timers, v) \in Nat
         /\ Meets(cpuRcntSet(timers, v), v.length - v.age)
         /\ \A i \in Index : Ticking(timers[i]) => Meets(cpuRcntSet(timers, v), DueIn(timers[i], 0))
<1> DEFINE N == NextsOf(timers, v)
           first == v.length - v.age
           Good(i) == /\ N[i] \in Int
                      /\ Meets(N[i], first)
                      /\ \A j \in 1 .. i : Ticking(timers[j]) => Meets(N[i], DueIn(timers[j], 0))
           bad == {i \in 0 .. Timers : ~Good(i)}
<1>1. Timers \in Nat /\ Soon \in Nat
  BY EeCountersAssumption
<1>2. first \in Int /\ N[0] = first /\ \A i \in Index : N[i] = rcntSet(timers[i], 0, N[i - 1])
  BY NextsAre
<1>3. \A i \in Index : Ticking(timers[i]) => DueIn(timers[i], 0) \in Int
  BY DueIsNext
<1> HIDE DEF N, first
<1>4. ASSUME bad # {} PROVE FALSE
  <2>1. bad \in SUBSET Nat
    BY <1>1
  <2>2. PICK m \in bad : \A k \in bad : m <= k
    BY <1>4, <2>1, LeastNatural
  <2>3. m \in 0 .. Timers /\ m \in Nat /\ ~Good(m)
    BY <1>1, <2>2
  <2>4. CASE m = 0
    <3>1. Good(0)
      BY <1>2 DEF Meets
    <3> QED BY <2>3, <2>4, <3>1
  <2>5. CASE m # 0
    <3>1. m - 1 \in 0 .. Timers /\ m \in Index /\ ~(m <= m - 1)
      BY <1>1, <2>3, <2>5 DEF Index
    <3>2. Good(m - 1)
      BY <2>2, <3>1
    <3>3. /\ N[m] \in Int
          /\ Meets(N[m], N[m - 1])
          /\ Ticking(timers[m]) => Meets(N[m], DueIn(timers[m], 0))
      BY <1>2, <3>1, <3>2, SetMeets
    <3>4. Meets(N[m], first)
      BY <1>2, <3>2, <3>3, MeetsTransitive
    <3>5. ASSUME NEW j \in 1 .. m, Ticking(timers[j])
          PROVE  Meets(N[m], DueIn(timers[j], 0))
      <4>1. CASE j = m
        BY <3>3, <3>5, <4>1
      <4>2. CASE j # m
        <5>1. j \in 1 .. m - 1 /\ j \in Index
          BY <1>1, <2>3, <4>2 DEF Index
        <5> QED BY <1>3, <3>2, <3>3, <3>5, <5>1, MeetsTransitive
      <4> QED BY <4>1, <4>2
    <3> QED BY <2>3, <3>3, <3>4, <3>5
  <2> QED BY <2>4, <2>5
<1>5. Good(Timers)
  BY <1>1, <1>4
<1>6. cpuRcntSet(timers, v) = IF 0 >= N[Timers] THEN 0 ELSE N[Timers]
  <2>1. N[Timers] \in Int
    BY <1>5
  <2>2. Max({0, N[Timers]}) = IF 0 >= N[Timers] THEN 0 ELSE N[Timers]
    BY <2>1, MaxOfTwo
  <2> QED BY <2>2 DEF cpuRcntSet, N
<1>7. \A due \in Int : Meets(N[Timers], due) => Meets(cpuRcntSet(timers, v), due)
  BY <1>1, <1>5, <1>6 DEF Meets
<1>8. Index = 1 .. Timers
  BY DEF Index
<1>9. Meets(cpuRcntSet(timers, v), first)
  BY <1>2, <1>5, <1>7
<1>10. \A i \in Index : Ticking(timers[i]) => Meets(cpuRcntSet(timers, v), DueIn(timers[i], 0))
  BY <1>3, <1>5, <1>7, <1>8
<1>11. cpuRcntSet(timers, v) \in Nat
  BY <1>5, <1>6
<1> QED BY <1>9, <1>10, <1>11 DEF first

-----------------------------------------------------------------------------
(* The operations on timers keep their numbers numbers. *)
LEMMA ReadIsNumber ==
  ASSUME NEW c, IsTimer(c), Numbers(c)
  PROVE  /\ rcntRcount(c) \in Int
         /\ Ticking(c) => c.age % Rate(c) \in Int
<1>1. CASE Ticking(c)
  <2>1. Rate(c) \in Nat \ {0} /\ c.age \in Int /\ c.count \in Int
    BY <1>1, RateIsPositive DEF Numbers
  <2>2. c.age \div Rate(c) \in Int /\ c.age % Rate(c) \in Int
    BY <2>1
  <2> QED BY <1>1, <2>1, <2>2 DEF rcntRcount
<1>2. CASE ~Ticking(c)
  BY <1>2 DEF rcntRcount, Numbers
<1> QED BY <1>1, <1>2

LEMMA UpdatesKeepNumbers ==
  ASSUME NEW c, IsTimer(c), Numbers(c)
  PROVE  /\ Numbers(cpuTestTarget(c))
         /\ Numbers(cpuTestOverflow(c))
         /\ Ticking(c) => Numbers(CatchUp(c))
         /\ Numbers(Update(c))
         /\ Numbers(HblankTick(c))
<1>1. ASSUME NEW d, IsTimer(d), Numbers(d)
      PROVE  /\ IsTimer(cpuTestTarget(d)) /\ Numbers(cpuTestTarget(d))
             /\ IsTimer(cpuTestOverflow(d)) /\ Numbers(cpuTestOverflow(d))
  <2>1. /\ d.count - d.target \in Int /\ d.count \in Int
        /\ d.count - Wrap \in Int
    BY <1>1, EeTimerAssumption DEF Numbers
  <2>2. Numbers(cpuTestTarget(d))
    <3> DEFINE e == d.exact.target - One(d.mode.targetInt /\ d.exact.on)
               a == IF d.mode.targetInt /\ d.mode.zeroReturn THEN d.count - d.target ELSE d.count
               f == ~(d.mode.targetInt /\ d.mode.zeroReturn)
    <3>1. cpuTestTarget(d) = d \/ cpuTestTarget(d) = [d EXCEPT !.exact.target = e, !.count = a, !.future = f]
      BY DEF cpuTestTarget
    <3>2. a \in Int
      BY <2>1
    <3> HIDE DEF e, a, f
    <3> QED BY <1>1, <3>1, <3>2 DEF IsTimer, Numbers, Fields
  <2>3. Numbers(cpuTestOverflow(d))
    <3> DEFINE e == d.exact.overflow - One(d.mode.overflowInt /\ d.exact.on)
               a == d.count - Wrap
    <3>1. cpuTestOverflow(d) = d \/ cpuTestOverflow(d) = [d EXCEPT !.exact.overflow = e, !.count = a, !.future = FALSE]
      BY DEF cpuTestOverflow
    <3>2. a \in Int
      BY <2>1
    <3> HIDE DEF e, a
    <3> QED BY <1>1, <3>1, <3>2 DEF IsTimer, Numbers, Fields
  <2> QED BY <1>1, <2>2, <2>3, UpdatesKeep DEF SameMode
<1>2. ASSUME Ticking(c)
      PROVE  IsTimer(CatchUp(c)) /\ Numbers(CatchUp(c))
  BY <1>2, ReadIsNumber, UpdatesKeep DEF CatchUp, SameMode, IsTimer, Numbers, Fields
<1>3. Numbers(Update(c))
  <2>1. CASE Ticking(c)
    <3>1. Update(c) = cpuTestOverflow(cpuTestTarget(CatchUp(c)))
      BY <2>1 DEF Update, Ticking
    <3> QED BY <1>1, <1>2, <2>1, <3>1
  <2>2. CASE ~Ticking(c)
    <3>1. Update(c) = c \/ Update(c) = [c EXCEPT !.age = 0]
      BY <2>2 DEF Update, Ticking
    <3> QED BY <3>1 DEF IsTimer, Numbers, Fields
  <2> QED BY <2>1, <2>2
<1>4. Numbers(HblankTick(c))
  <2> DEFINE d == [c EXCEPT !.count = @ + 1]
  <2>1. c.count + 1 \in Int
    BY DEF Numbers
  <2>2. IsTimer(d) /\ Numbers(d)
    BY <2>1, SettingKeeps DEF SameMode, IsTimer, Numbers, Fields
  <2>3. HblankTick(c) = c \/ HblankTick(c) = cpuTestOverflow(cpuTestTarget(d))
    BY DEF HblankTick
  <2> HIDE DEF d
  <2> QED BY <1>1, <2>2, <2>3
<1> QED BY <1>1, <1>2, <1>3, <1>4

LEMMA GatesKeepNumbers ==
  ASSUME NEW c, IsTimer(c), Numbers(c), NEW edge \in Int
  PROVE  /\ Numbers(StartGate(c, edge))
         /\ Numbers(EndGate(c, edge))
         /\ Numbers(rcntSetGate(c))
<1>1. c.mode.gateMode \in 0 .. 3
  BY DEF IsTimer, Mode
<1>2. Numbers(Restart(c, edge))
  BY DEF Restart, Numbers, IsTimer, Fields
<1>3. Numbers(StartGate(c, edge))
  <2>1. CASE c.mode.gateMode = 0
    BY <2>1 DEF StartGate, Numbers, IsTimer, Fields
  <2>2. CASE c.mode.gateMode # 0
    <3>1. StartGate(c, edge) = c \/ StartGate(c, edge) = Restart(c, edge)
      BY <1>1, <2>2 DEF StartGate
    <3> QED BY <1>2, <3>1
  <2> QED BY <2>1, <2>2
<1>4. Numbers(EndGate(c, edge))
  <2>1. CASE c.mode.gateMode = 0
    BY <2>1, ReadIsNumber DEF EndGate, Numbers, IsTimer, Fields
  <2>2. CASE c.mode.gateMode # 0
    <3>1. EndGate(c, edge) = c \/ EndGate(c, edge) = Restart(c, edge)
      BY <1>1, <2>2 DEF EndGate
    <3> QED BY <1>2, <3>1
  <2> QED BY <2>1, <2>2
<1>5. Numbers(rcntSetGate(c))
  BY DEF rcntSetGate, Numbers, IsTimer, Fields
<1> QED BY <1>3, <1>4, <1>5

LEMMA WritesKeepNumbers ==
  ASSUME NEW c, IsTimer(c), Numbers(c), NEW v \in Int, NEW m \in Mode
  PROVE  Numbers(rcntWcount(c, v)) /\ Numbers(rcntWtarget(c, v)) /\ Numbers(rcntWmode(c, m))
<1>1. ASSUME NEW d, IsTimer(d), Numbers(d)
      PROVE  Numbers(Follow(d))
  <2>1. ASSUME NEW e
        PROVE  Numbers([d EXCEPT !.exact = e])
    BY <1>1 DEF IsTimer, Numbers, Fields
  <2>2. \E e : Follow(d) = [d EXCEPT !.exact = e]
    BY Zenon DEF Follow
  <2> QED BY <2>1, <2>2
<1>2. Numbers(rcntWcount(c, v))
  <2> DEFINE f == v > c.target
             a == CASE ~c.mode.counting -> 0
                    [] Ticking(c) -> c.age % Rate(c)
                    [] OTHER -> c.age
             d == [c EXCEPT !.count = v, !.future = f, !.age = a]
  <2>1. rcntWcount(c, v) = Follow(d)
    BY DEF rcntWcount
  <2>2. a \in Int
    <3>1. a = 0 \/ (Ticking(c) /\ a = c.age % Rate(c)) \/ a = c.age
      BY DEF Ticking
    <3> QED BY <3>1, ReadIsNumber DEF Numbers
  <2> HIDE DEF a, f
  <2>3. IsTimer(d) /\ Numbers(d)
    BY <2>2, SettingKeeps DEF SameMode, IsTimer, Numbers, Fields
  <2> QED BY <1>1, <2>1, <2>3
<1>3. Numbers(rcntWtarget(c, v))
  <2> DEFINE f == v <= rcntRcount(c)
             d == [c EXCEPT !.target = v, !.future = f]
  <2>1. rcntWtarget(c, v) = Follow(d)
    BY DEF rcntWtarget
  <2> HIDE DEF f
  <2>2. IsTimer(d) /\ Numbers(d)
    BY SettingKeeps DEF SameMode, IsTimer, Numbers, Fields
  <2> QED BY <1>1, <2>1, <2>2
<1>4. Numbers(rcntWmode(c, m))
  <2> DEFINE synced == CASE ~c.mode.counting -> [c EXCEPT !.age = 0]
                         [] Ticking(c) -> CatchUp(c)
                         [] OTHER -> c
             d == [synced EXCEPT !.mode = m]
  <2>1. IsTimer(synced) /\ Numbers(synced)
    <3>1. Ticking(c) => IsTimer(CatchUp(c)) /\ Numbers(CatchUp(c))
      BY UpdatesKeepNumbers, UpdatesKeep DEF SameMode
    <3>2. IsTimer([c EXCEPT !.age = 0]) /\ Numbers([c EXCEPT !.age = 0])
      <4>1. IsTimer([c EXCEPT !.age = 0])
        BY SettingKeeps, ZenonT(40) DEF SameMode
      <4>2. Numbers([c EXCEPT !.age = 0])
        BY DEF IsTimer, Numbers, Fields
      <4> QED BY <4>1, <4>2, ZenonT(40)
    <3>3. synced = [c EXCEPT !.age = 0] \/ (Ticking(c) /\ synced = CatchUp(c)) \/ synced = c
      BY DEF Ticking
    <3> QED BY <3>1, <3>2, <3>3
  <2>2. rcntWmode(c, m) = Follow(rcntSetGate(d))
    BY DEF rcntWmode
  <2> HIDE DEF synced
  <2>3. Numbers(d) /\ DOMAIN d = Fields /\ d = [x \in Fields |-> d[x]]
    BY <2>1 DEF IsTimer, Numbers, Fields
  <2>4. IsTimer(d)
    BY <2>1, <2>3 DEF IsTimer, Fields
  <2> HIDE DEF d
  <2>5. IsTimer(rcntSetGate(d)) /\ Numbers(rcntSetGate(d))
    BY <2>3, <2>4, SetGateStops, GatesKeepNumbers DEF SameGate
  <2> QED BY <1>1, <2>2, <2>5
<1> QED BY <1>2, <1>3, <1>4

(* Time moves the next event of a timer no further. *)
LEMMA TimeKeepsDue ==
  ASSUME NEW c, IsTimer(c), Numbers(c), NEW d \in Int, NEW age \in Int
  PROVE  /\ Numbers(Pass(c, d))
         /\ Ticking(Pass(c, d)) <=> Ticking(c)
         /\ Ticking(c) => DueIn(Pass(c, d), age + d) = DueIn(c, age)
<1> DEFINE e == Pass(c, d)
<1>1. CASE ~c.mode.counting
  BY <1>1 DEF Pass, Ticking
<1>2. CASE c.mode.counting
  <2>1. \E x : e = [c EXCEPT !.age = @ + d, !.exact = x]
    BY <1>2 DEF Pass
  <2>2. /\ e.count = c.count /\ e.target = c.target /\ e.future = c.future
        /\ e.mode = c.mode /\ e.age = c.age + d
    BY <2>1 DEF IsTimer, Fields
  <2> HIDE DEF e
  <2>3. Rate(e) = Rate(c) /\ (Ticking(e) <=> Ticking(c))
    BY <2>2 DEF Rate, Ticking
  <2>4. Numbers(e)
    BY <2>2 DEF Numbers
  <2>5. ASSUME Ticking(c)
        PROVE  DueIn(e, age + d) = DueIn(c, age)
    <3>1. \A n \in Int : n * Rate(c) \in Int
      BY <2>5, RateIsPositive
    <3>2. ASSUME NEW n \in Int
          PROVE  (n - e.count) * Rate(e) - e.age + (age + d) = (n - c.count) * Rate(c) - c.age + age
      <4>1. (n - e.count) * Rate(e) = (n - c.count) * Rate(c)
        BY <2>2, <2>3
      <4>2. (n - c.count) * Rate(c) \in Int /\ c.age \in Int
        BY <3>1 DEF Numbers
      <4> QED BY <2>2, <4>1, <4>2
    <3>3. Wrap \in Int /\ c.target \in Int
      BY EeTimerAssumption DEF Numbers
    <3> QED BY <2>2, <3>2, <3>3 DEF DueIn
  <2> QED BY <2>3, <2>4, <2>5 DEF e
<1> QED BY <1>1, <1>2

-----------------------------------------------------------------------------
(* The schedule of nextCounter, for the vsync due and the timers tm at gates   *)
(* gs, age cycles after nextsCounter.                                          *)
OnSchedule(next, due, tm, gs, age) ==
  /\ Meets(next, due)
  /\ \A i \in Index : Ticking(tm[i]) /\ ~(i \in gs /\ tm[i].mode.source = "hblank")
       => Meets(next, DueIn(tm[i], age))

LEMMA ScheduledMeets ==
  ASSUME NEW next \in Int, NEW due \in Int, NEW age \in Int, NEW gs,
         NEW tm, \A i \in Index : IsTimer(tm[i]) /\ Numbers(tm[i])
  PROVE  OnSchedule(next, due, tm, gs, age) <=>
           /\ next <= Max({Soon, due})
           /\ \A i \in Index : Ticking(tm[i]) /\ ~(i \in gs /\ tm[i].mode.source = "hblank")
                => next <= Max({Soon, DueIn(tm[i], age)})
<1>1. next <= Max({Soon, due}) <=> Meets(next, due)
  BY MeetsMax
<1>2. ASSUME NEW i \in Index, Ticking(tm[i])
      PROVE  next <= Max({Soon, DueIn(tm[i], age)}) <=> Meets(next, DueIn(tm[i], age))
  BY <1>2, DueIsNext, MeetsMax
<1> QED BY <1>1, <1>2 DEF OnSchedule

LEMMA ScheduledIs ==
  ASSUME GateInv, Typed, VsyncDue \in Int
  PROVE  Scheduled <=> OnSchedule(nextCounter, VsyncDue, timer, gates, nextsAge)
BY ScheduledMeets DEF GateInv, Typed, Scheduled, VsyncDue, AtGate

LEMMA ScheduledNext ==
  ASSUME GateInv', Typed', VsyncDue' \in Int,
         OnSchedule(nextCounter', VsyncDue', timer', gates', nextsAge')
  PROVE  Scheduled'
<1>1. \A i \in Index : IsTimer(timer'[i]) /\ Numbers(timer'[i])
  BY DEF GateInv, Typed
<1>2. nextCounter' \in Int /\ nextsAge' \in Int
  BY DEF Typed
<1> QED BY <1>1, <1>2, ScheduledMeets DEF Scheduled, VsyncDue, AtGate

(* Constants in numbers. *)
LEMMA Constants ==
  /\ hRender \in Nat /\ hBlank \in Nat /\ Render \in Nat /\ Blank \in Nat
  /\ hRender > 0 /\ hBlank > 0
  /\ Soon \in Nat /\ Soon > 0 /\ MaxBlock \in Nat /\ MaxBlock > 0
  /\ eeWaitCycles \in Int /\ hSyncError \in Int
  /\ Early \in Nat /\ MaxBlock + Early <= hBlank /\ hBlank <= hRender /\ Soon <= hRender
  /\ MaxBlock + Soon <= Render /\ MaxBlock + Soon <= Blank
BY EeCountersAssumption, TimingAssumption DEF Early

LEMMA RunBlockEdges ==
  ASSUME GateInv, GateInv', EdgeInv, RunBlock
  PROVE  EdgeInv'
<1>1. PICK d \in 1 .. MaxBlock :
        /\ branchIn' = branchIn - d
        /\ nextsAge' = nextsAge + d
        /\ hsync' = [hsync EXCEPT !.age = @ + d]
        /\ vsync' = [vsync EXCEPT !.age = @ + d]
        /\ timer' = [i \in Index |-> Pass(timer[i], d)]
  BY DEF RunBlock
<1>2. /\ cpu = "block" => branchIn > 0
      /\ cpu' = "block" /\ gates' = gates /\ nextCounter' = nextCounter
  BY DEF RunBlock
<1>3. /\ hsync'.age = hsync.age + d /\ hsync'.length = hsync.length /\ hsync'.blank = hsync.blank
      /\ vsync'.age = vsync.age + d /\ vsync'.length = vsync.length /\ vsync'.blank = vsync.blank
  BY <1>1 DEF GateInv, IsPart
<1>4. d \in Int /\ d >= 1 /\ d <= MaxBlock
  BY <1>1, Constants
<1>5. Typed /\ Lengths /\ HsyncOnTime /\ VsyncOnTime
  BY DEF EdgeInv
<1>6. ASSUME NEW i \in Index
      PROVE  /\ Numbers(timer'[i])
             /\ timer'[i].mode = timer[i].mode
             /\ Ticking(timer'[i]) <=> Ticking(timer[i])
             /\ Ticking(timer[i]) => DueIn(timer'[i], nextsAge') = DueIn(timer[i], nextsAge)
  <2>1. IsTimer(timer[i]) /\ Numbers(timer[i]) /\ nextsAge \in Int
    BY <1>5 DEF GateInv, Typed
  <2>2. timer'[i] = Pass(timer[i], d)
    BY <1>1
  <2> QED BY <1>1, <1>4, <2>1, <2>2, TimeKeepsDue, TimeKeeps DEF SameMode
<1>7. Typed'
  BY <1>1, <1>2, <1>3, <1>4, <1>5, <1>6 DEF Typed
<1>8. Lengths'
  BY <1>3, <1>5 DEF Lengths
<1>9. hsync.length \in Int /\ vsync.length \in Int
  BY <1>5, Constants DEF Lengths
<1>10. VsyncDue' = VsyncDue /\ VsyncDue \in Int
  BY <1>1, <1>3, <1>4, <1>5, <1>9 DEF Typed, VsyncDue
<1>11. Scheduled'
  <2>1. OnSchedule(nextCounter, VsyncDue, timer, gates, nextsAge)
    BY <1>5, <1>10, ScheduledIs DEF EdgeInv
  <2>2. OnSchedule(nextCounter', VsyncDue', timer', gates', nextsAge')
    BY <1>2, <1>6, <1>10, <2>1 DEF OnSchedule
  <2> QED BY <1>7, <1>10, <2>2, ScheduledNext
<1>12. HsyncOnTime'
  BY <1>1, <1>2, <1>3, <1>4, <1>5, <1>9, Constants DEF HsyncOnTime, Typed
<1>13. VsyncOnTime'
  BY <1>1, <1>2, <1>4, <1>5, <1>10, Constants DEF VsyncOnTime, Typed, Latest
<1> QED BY <1>7, <1>8, <1>11, <1>12, <1>13 DEF EdgeInv

(* A write of software schedules the timer written, and puts the update off    *)
(* for none of the others.                                                    *)
LEMMA WrittenEdges ==
  ASSUME GateInv, GateInv', EdgeInv, NEW i \in Index, NEW c, IsTimer(c), Numbers(c), Written(i, c),
         \A j \in gates : j # i => j \in gates'
  PROVE  EdgeInv'
<1>1. /\ timer' = [j \in Index |-> IF j = i THEN c ELSE timer[j]]
      /\ nextCounter' = rcntSet(c, nextsAge, nextCounter)
      /\ hsync' = hsync /\ vsync' = vsync /\ nextsAge' = nextsAge
      /\ branchIn' = branchIn /\ cpu' = cpu
  <2>1. timer' = [timer EXCEPT ![i] = c]
    BY DEF Written
  <2> QED BY <2>1 DEF Written, GateInv
<1>2. Typed /\ Lengths /\ HsyncOnTime /\ VsyncOnTime
  BY DEF EdgeInv
<1>3. /\ nextCounter' \in Int
      /\ Meets(nextCounter', nextCounter)
      /\ Ticking(c) => Meets(nextCounter', DueIn(c, nextsAge))
  BY <1>1, <1>2, SetMeets DEF Typed
<1>4. Typed'
  BY <1>1, <1>2, <1>3 DEF Typed
<1>5. Lengths' /\ HsyncOnTime' /\ VsyncOnTime'
  <2>1. VsyncDue' = VsyncDue /\ Latest' = Latest
    BY <1>1 DEF VsyncDue, Latest
  <2> QED BY <1>1, <1>2, <2>1 DEF Lengths, HsyncOnTime, VsyncOnTime
<1>6. VsyncDue' = VsyncDue /\ VsyncDue \in Int
  <2>1. vsync.length \in Int
    BY <1>2, Constants DEF Lengths
  <2> QED BY <1>1, <1>2, <2>1 DEF Typed, VsyncDue
<1>7. Scheduled'
  <2>1. OnSchedule(nextCounter, VsyncDue, timer, gates, nextsAge)
    BY <1>2, <1>6, ScheduledIs DEF EdgeInv
  <2>2. Meets(nextCounter', VsyncDue)
    BY <1>2, <1>3, <1>6, <2>1, MeetsTransitive DEF OnSchedule, Typed
  <2>3. ASSUME NEW j \in Index, Ticking(timer'[j]),
               ~(j \in gates' /\ timer'[j].mode.source = "hblank")
        PROVE  Meets(nextCounter', DueIn(timer'[j], nextsAge))
    <3>1. CASE j = i
      BY <1>1, <1>3, <2>3, <3>1
    <3>2. CASE j # i
      <4>1. timer'[j] = timer[j]
        BY <1>1, <3>2
      <4>2. Meets(nextCounter, DueIn(timer[j], nextsAge))
        BY <2>1, <2>3, <3>2, <4>1 DEF OnSchedule
      <4>3. DueIn(timer[j], nextsAge) \in Int /\ nextCounter \in Int
        BY <1>2, <2>3, <4>1, DueIsNext DEF GateInv, Typed
      <4> QED BY <1>3, <4>1, <4>2, <4>3, MeetsTransitive
    <3> QED BY <3>1, <3>2
  <2>4. OnSchedule(nextCounter', VsyncDue', timer', gates', nextsAge')
    BY <1>1, <1>6, <2>2, <2>3 DEF OnSchedule
  <2> QED BY <1>4, <1>6, <2>4, ScheduledNext
<1> QED BY <1>4, <1>5, <1>7 DEF EdgeInv

LEMMA WritesEdges ==
  ASSUME GateInv, GateInv', EdgeInv, Writes
  PROVE  EdgeInv'
<1>1. PICK i \in Index : WriteMode(i) \/ WriteCount(i) \/ WriteTarget(i)
  BY DEF Writes
<1>2. IsTimer(timer[i]) /\ Numbers(timer[i])
  BY DEF GateInv, EdgeInv, Typed
<1>3. NoMode \in Mode
  BY NewTimerStopped DEF IsTimer
<1>4. CASE WriteMode(i)
  <2>1. PICK m \in Modes :
          /\ Written(i, rcntWmode(timer[i], m))
          /\ gates' = IF Gated(m) THEN gates \cup {i} ELSE gates \ {i}
    BY <1>4 DEF WriteMode
  <2>2. m \in Mode
    BY EeCountersAssumption
  <2>3. IsTimer(rcntWmode(timer[i], m)) /\ Numbers(rcntWmode(timer[i], m))
    <3>1. 0 \in Int
      OBVIOUS
    <3> QED BY <1>2, <2>2, <3>1, WritesKeep, WritesKeepNumbers
  <2> QED BY <2>1, <2>3, WrittenEdges
<1>5. CASE WriteCount(i)
  <2>1. PICK v \in Counts : Written(i, rcntWcount(timer[i], v))
    BY <1>5 DEF WriteCount
  <2>2. gates' = gates
    BY <1>5 DEF WriteCount
  <2>3. v \in Int
    BY EeCountersAssumption, EeTimerAssumption
  <2>4. IsTimer(rcntWcount(timer[i], v)) /\ Numbers(rcntWcount(timer[i], v))
    BY <1>2, <1>3, <2>3, WritesKeep, WritesKeepNumbers DEF SameMode
  <2> QED BY <2>1, <2>2, <2>4, WrittenEdges
<1>6. CASE WriteTarget(i)
  <2>1. PICK v \in Targets : Written(i, rcntWtarget(timer[i], v))
    BY <1>6 DEF WriteTarget
  <2>2. gates' = gates
    BY <1>6 DEF WriteTarget
  <2>3. v \in Int
    BY EeCountersAssumption, EeTimerAssumption
  <2>4. IsTimer(rcntWtarget(timer[i], v)) /\ Numbers(rcntWtarget(timer[i], v))
    BY <1>2, <1>3, <2>3, WritesKeep, WritesKeepNumbers DEF SameMode
  <2> QED BY <2>1, <2>2, <2>4, WrittenEdges
<1> QED BY <1>1, <1>4, <1>5, <1>6

(* The rate of the vsync is set, perhaps as a part of loading a state: the     *)
(* timers are scheduled as they are, and those that may change stop.          *)
LEMMA RateEdges ==
  ASSUME GateInv, GateInv', EdgeInv, UpdateVSyncRate,
         \A i \in Index : /\ Numbers(timer'[i])
                          /\ timer'[i] = timer[i] \/ ~Ticking(timer'[i])
  PROVE  EdgeInv'
<1>1. /\ cpu = "stopped" /\ cpu' = "stopped" /\ branchIn' = branchIn /\ nextsAge' = 0
      /\ nextCounter' = cpuRcntSet(timer, vsync')
  BY DEF UpdateVSyncRate
<1>2. /\ hsync'.age = hsync.age /\ hsync'.length = hRender /\ hsync'.blank = hsync.blank
      /\ vsync'.age = vsync.age /\ vsync'.length = Render /\ vsync'.blank = vsync.blank
  BY DEF UpdateVSyncRate, GateInv, IsPart
<1>3. Typed /\ Lengths /\ HsyncOnTime /\ VsyncOnTime
  BY DEF EdgeInv
<1>4. ~vsync.blank /\ nextsAge = 0 /\ vsync.length = Render
  BY <1>1, <1>3 DEF VsyncOnTime, Lengths
<1>5. VsyncDue' = VsyncDue /\ Latest' = Latest /\ VsyncDue = vsync'.length - vsync'.age /\ VsyncDue \in Int
  BY <1>1, <1>2, <1>3, <1>4, Constants DEF VsyncDue, Latest, Typed
<1>6. \A i \in Index : IsTimer(timer[i]) /\ Numbers(timer[i])
  BY <1>3 DEF GateInv, Typed
<1>7. /\ nextCounter' \in Int
      /\ Meets(nextCounter', VsyncDue)
      /\ \A i \in Index : Ticking(timer[i]) => Meets(nextCounter', DueIn(timer[i], 0))
  BY <1>1, <1>5, <1>6, SchedulesAll
<1>8. Typed'
  BY <1>1, <1>2, <1>3, <1>7 DEF Typed
<1>9. Lengths'
  BY <1>2, <1>3, <1>4, Constants DEF Lengths
<1>10. HsyncOnTime'
  BY <1>1, <1>2, <1>3, Constants DEF HsyncOnTime, Typed, Lengths
<1>11. VsyncOnTime'
  BY <1>1, <1>2, <1>3, <1>4, <1>5 DEF VsyncOnTime
<1>12. Scheduled'
  <2>1. OnSchedule(nextCounter', VsyncDue', timer', gates', nextsAge')
    BY <1>1, <1>5, <1>7 DEF OnSchedule
  <2> QED BY <1>5, <1>8, <2>1, ScheduledNext
<1> QED BY <1>8, <1>9, <1>10, <1>11, <1>12 DEF EdgeInv

LEMMA LoadStateEdges ==
  ASSUME GateInv, GateInv', EdgeInv, LoadState
  PROVE  EdgeInv'
<1>1. timer' = [i \in Index |-> rcntSetGate(timer[i])] /\ UpdateVSyncRate
  BY DEF LoadState
<1>2. ASSUME NEW i \in Index
      PROVE  Numbers(timer'[i]) /\ (timer'[i] = timer[i] \/ ~Ticking(timer'[i]))
  <2>1. IsTimer(timer[i]) /\ Numbers(timer[i]) /\ timer'[i] = rcntSetGate(timer[i])
    BY <1>1 DEF GateInv, EdgeInv, Typed
  <2>2. Numbers(timer'[i])
    <3>1. 0 \in Int
      OBVIOUS
    <3> QED BY <2>1, <3>1, GatesKeepNumbers
  <2>3. timer'[i] = timer[i] \/ ~Ticking(timer'[i])
    <3>1. CASE Gated(timer[i].mode)
      BY <2>1, <3>1, SetGateStops DEF Ticking
    <3>2. CASE ~Gated(timer[i].mode)
      BY <2>1, <3>2 DEF rcntSetGate
    <3> QED BY <3>1, <3>2
  <2> QED BY <2>2, <2>3
<1> QED BY <1>1, <1>2, RateEdges

LEMMA RateSetEdges ==
  ASSUME GateInv, GateInv', EdgeInv, RateSet
  PROVE  EdgeInv'
BY RateEdges DEF RateSet, EdgeInv, Typed

(* What cpuReset and rcntInit leave: timers that stand, and an update for the  *)
(* first vblank.                                                              *)
LEMMA ClearedIs ==
  /\ Cleared.timer = [i \in Index |-> NewTimer]
  /\ Cleared.hsync = Starting(hRender) /\ Cleared.vsync = Starting(Render)
  /\ IsTimer(NewTimer) /\ Numbers(NewTimer) /\ ~Ticking(NewTimer)
  /\ cpuRcntSet(Cleared.timer, Cleared.vsync) \in Int
  /\ Meets(cpuRcntSet(Cleared.timer, Cleared.vsync), Render)
<1>1. /\ Cleared.timer = [i \in Index |-> NewTimer]
      /\ Cleared.hsync = Starting(hRender) /\ Cleared.vsync = Starting(Render)
  BY DEF Cleared
<1>2. IsTimer(NewTimer) /\ ~Ticking(NewTimer)
  BY NewTimerStopped DEF Ticking
<1>3. Numbers(NewTimer)
  BY EeTimerAssumption DEF NewTimer, Numbers
<1>4. Starting(Render).length - Starting(Render).age = Render /\ Render \in Int
  BY Constants DEF Starting
<1>5. \A i \in Index : Cleared.timer[i] = NewTimer
  BY <1>1
<1> HIDE DEF Cleared
<1>6. /\ cpuRcntSet(Cleared.timer, Cleared.vsync) \in Nat
      /\ Meets(cpuRcntSet(Cleared.timer, Cleared.vsync), Render)
  BY <1>1, <1>2, <1>3, <1>4, <1>5, SchedulesAll
<1> QED BY <1>1, <1>2, <1>3, <1>6

LEMMA EdgesInit == GateInv /\ Init => EdgeInv
<1> SUFFICES ASSUME GateInv, Init PROVE EdgeInv
  OBVIOUS
<1>1. /\ timer = [i \in Index |-> NewTimer] /\ hsync = Starting(hRender) /\ vsync = Starting(Render)
      /\ nextsAge = 0 /\ branchIn = Soon /\ cpu = "block"
      /\ nextCounter \in Int /\ Meets(nextCounter, Render)
  BY ClearedIs DEF Init
<1>2. /\ hsync.age = 0 /\ hsync.length = hRender /\ hsync.blank = FALSE
      /\ vsync.age = 0 /\ vsync.length = Render /\ vsync.blank = FALSE
  BY <1>1 DEF Starting
<1>3. \A i \in Index : Numbers(timer[i]) /\ ~Ticking(timer[i])
  BY <1>1, ClearedIs
<1>4. VsyncDue = Render /\ VsyncDue \in Int
  BY <1>1, <1>2, Constants DEF VsyncDue
<1>5. Typed
  BY <1>1, <1>2, <1>3, Constants DEF Typed
<1>6. Lengths
  BY <1>2 DEF Lengths
<1>7. Scheduled
  <2>1. OnSchedule(nextCounter, VsyncDue, timer, gates, nextsAge)
    BY <1>1, <1>3, <1>4 DEF OnSchedule
  <2> QED BY <1>4, <1>5, <2>1, ScheduledIs
<1>8. HsyncOnTime
  BY <1>1, <1>2, Constants DEF HsyncOnTime
<1>9. VsyncOnTime
  BY <1>1, <1>2, <1>4, Constants DEF VsyncOnTime, Latest
<1> QED BY <1>5, <1>6, <1>7, <1>8, <1>9 DEF EdgeInv

LEMMA ResetEdges ==
  ASSUME GateInv, GateInv', EdgeInv, cpuReset
  PROVE  EdgeInv'
<1>1. /\ timer' = [i \in Index |-> NewTimer] /\ hsync' = Starting(hRender) /\ vsync' = Starting(Render)
      /\ nextsAge' = 0 /\ branchIn' = Soon /\ cpu' = "stopped"
      /\ nextCounter' \in Int /\ Meets(nextCounter', Render)
  BY ClearedIs DEF cpuReset
<1>2. /\ hsync'.age = 0 /\ hsync'.length = hRender /\ hsync'.blank = FALSE
      /\ vsync'.age = 0 /\ vsync'.length = Render /\ vsync'.blank = FALSE
  BY <1>1 DEF Starting
<1>3. \A i \in Index : Numbers(timer'[i]) /\ ~Ticking(timer'[i])
  BY <1>1, ClearedIs
<1>4. VsyncDue' = Render /\ VsyncDue' \in Int
  BY <1>1, <1>2, Constants DEF VsyncDue
<1>5. Typed'
  BY <1>1, <1>2, <1>3, Constants DEF Typed
<1>6. Lengths'
  BY <1>2 DEF Lengths
<1>7. Scheduled'
  <2>1. OnSchedule(nextCounter', VsyncDue', timer', gates', nextsAge')
    BY <1>1, <1>3, <1>4 DEF OnSchedule
  <2> QED BY <1>4, <1>5, <2>1, ScheduledNext
<1>8. HsyncOnTime'
  BY <1>1, <1>2, Constants DEF HsyncOnTime
<1>9. VsyncOnTime'
  BY <1>1, <1>2, <1>4, Constants DEF VsyncOnTime, Latest
<1> QED BY <1>5, <1>6, <1>7, <1>8, <1>9 DEF EdgeInv

-----------------------------------------------------------------------------
(* The branch test takes the gates and edges of hblank, and keeps the timers   *)
(* that tick and do not wait for hblank as they are. *)
LEMMA HGatesOnSchedule ==
  ASSUME GateInv, Typed, NEW i \in Index
  PROVE  /\ IsTimer(HGates(i)) /\ Numbers(HGates(i))
         /\ HGates(i).mode.source = timer[i].mode.source
         /\ Ticking(HGates(i)) /\ ~AtGate(i, "hblank") => HGates(i) = timer[i]
<1> DEFINE c == IF hsync.blank THEN HblankTick(timer[i]) ELSE timer[i]
<1>1. IsTimer(timer[i]) /\ Numbers(timer[i]) /\ hsync.age \in Int
  BY DEF GateInv, Typed
<1>2. SameMode(timer[i], HblankTick(timer[i])) /\ Numbers(HblankTick(timer[i]))
  BY <1>1, TimeKeeps, UpdatesKeepNumbers
<1>3. IsTimer(c) /\ Numbers(c) /\ (Ticking(c) => c = timer[i])
  <2>1. Ticking(timer[i]) => HblankTick(timer[i]) = timer[i]
    BY DEF HblankTick, Ticking
  <2> QED BY <1>1, <1>2, <2>1 DEF SameMode, Ticking
<1>4. /\ ~Over(hsync) => HGates(i) = timer[i]
      /\ Over(hsync) /\ ~AtGate(i, "hblank") => HGates(i) = c
      /\ Over(hsync) /\ AtGate(i, "hblank") /\ hsync.blank => HGates(i) = StartGate(c, hsync.age)
      /\ Over(hsync) /\ AtGate(i, "hblank") /\ ~hsync.blank => HGates(i) = EndGate(c, hsync.age)
  BY DEF HGates
<1> HIDE DEF c
<1>5. Numbers(StartGate(c, hsync.age)) /\ Numbers(EndGate(c, hsync.age))
  BY <1>1, <1>3, GatesKeepNumbers
<1>6. Numbers(HGates(i))
  BY <1>1, <1>3, <1>4, <1>5
<1>7. IsTimer(HGates(i)) /\ HGates(i).mode.source = timer[i].mode.source
  BY HGatesKeep DEF SameGate
<1> QED BY <1>3, <1>4, <1>6, <1>7

LEMMA VGatesNumbers ==
  ASSUME GateInv, Typed, NEW i \in Index
  PROVE  IsTimer(VGates(i)) /\ Numbers(VGates(i))
<1>1. IsTimer(HGates(i)) /\ Numbers(HGates(i)) /\ vsync.age \in Int
  BY HGatesOnSchedule DEF Typed
<1>2. VGates(i) = HGates(i) \/ VGates(i) = StartGate(HGates(i), vsync.age)
        \/ VGates(i) = EndGate(HGates(i), vsync.age)
  BY DEF VGates
<1>3. Numbers(VGates(i))
  BY <1>1, <1>2, GatesKeepNumbers
<1> QED BY <1>3, VGatesKeep DEF SameGate

(* The edge of hblank: a part is over by less than a block and the error.      *)
LEMMA NextHsyncOnTime ==
  ASSUME GateInv, EdgeInv
  PROVE  /\ NextHsync.age \in Int /\ NextHsync.length \in {hRender, hBlank}
         /\ ~NextHsync.blank => NextHsync.length = hRender
         /\ NextHsync.age < NextHsync.length
<1>1. /\ hsync.age \in Int /\ hsync.length \in {hRender, hBlank}
      /\ hsync.blank \in BOOLEAN
      /\ ~hsync.blank => hsync.length = hRender
      /\ hsync.age < hsync.length + MaxBlock + Early
  BY DEF GateInv, IsPart, EdgeInv, Typed, Lengths, HsyncOnTime
<1>2. CASE ~Over(hsync)
  BY <1>1, <1>2, Constants DEF NextHsync, Over
<1>3. CASE Over(hsync) /\ hsync.blank
  <2>1. NextHsync = [blank |-> FALSE, age |-> hsync.age - hBlank, length |-> hRender]
    BY <1>3 DEF NextHsync, Following
  <2> QED BY <1>1, <2>1, Constants
<1>4. CASE Over(hsync) /\ ~hsync.blank
  <2>1. NextHsync = [blank |-> TRUE, age |-> hsync.age - hRender, length |-> hBlank]
    BY <1>4 DEF NextHsync, Following
  <2> QED BY <1>1, <1>4, <2>1, Constants
<1> QED BY <1>2, <1>3, <1>4

LEMMA CorrectedOnTime ==
  ASSUME GateInv, EdgeInv
  PROVE  LET h == Corrected(NextHsync) IN
         /\ h.age \in Int /\ h.length \in {hRender, hBlank}
         /\ ~h.blank => h.length = hRender
         /\ h.age < h.length + Early
<1> DEFINE h == Corrected(NextHsync)
<1>1. h.blank = NextHsync.blank /\ h.length = NextHsync.length
      /\ (h.age = NextHsync.age \/ h.age = NextHsync.age - hSyncError)
  BY PartsFollow DEF Corrected, IsPart
<1> HIDE DEF h
<1>2. /\ h.age \in Int /\ h.length \in {hRender, hBlank}
      /\ ~h.blank => h.length = hRender
  BY <1>1, NextHsyncOnTime, Constants
<1>3. h.age < h.length + Early
  BY <1>1, <1>2, NextHsyncOnTime, Constants DEF Early
<1> QED BY <1>2, <1>3 DEF h

(* The edge of vblank: its part is over by less than a block and what the      *)
(* update may be late, and the next one is longer than that.                  *)
LEMMA NextVsyncOnTime ==
  ASSUME GateInv, EdgeInv
  PROVE  /\ NextVsync.age \in Int
         /\ NextVsync.blank \in BOOLEAN
         /\ NextVsync.length = IF NextVsync.blank THEN Blank ELSE Render
         /\ NextVsync.age < NextVsync.length
<1>1. /\ vsync.age \in Int /\ nextsAge \in Int
      /\ vsync.blank \in BOOLEAN
      /\ vsync.length = IF vsync.blank THEN Blank ELSE Render
  BY DEF GateInv, IsPart, EdgeInv, Typed, Lengths
<1>2. vsync.length \in Int
  BY <1>1, Constants
<1>3. vsync.age < vsync.length + MaxBlock + Soon
  BY <1>1, <1>2, Constants DEF EdgeInv, VsyncOnTime, Latest, VsyncDue
<1>4. CASE ~Over(vsync)
  BY <1>1, <1>2, <1>4 DEF NextVsync, Over
<1>5. CASE Over(vsync) /\ vsync.blank
  <2>1. NextVsync = [blank |-> FALSE, age |-> vsync.age - Blank, length |-> Render]
    BY <1>5 DEF NextVsync, Following
  <2> QED BY <1>1, <1>3, <1>5, <2>1, Constants
<1>6. CASE Over(vsync) /\ ~vsync.blank
  <2>1. NextVsync = [blank |-> TRUE, age |-> vsync.age - Render, length |-> Blank]
    BY <1>1, <1>6 DEF NextVsync, Following
  <2> QED BY <1>1, <1>3, <1>6, <2>1, Constants
<1> QED BY <1>4, <1>5, <1>6

LEMMA MinOfFour ==
  ASSUME NEW a \in Int, NEW b \in Int, NEW c \in Int, NEW d \in Int
  PROVE  /\ Min({a, b, c, d}) \in Int
         /\ Min({a, b, c, d}) <= a /\ Min({a, b, c, d}) <= c /\ Min({a, b, c, d}) <= d
<1> DEFINE S == {a, b, c, d}
<1>1. S \in SUBSET Int /\ a \in S /\ c \in S /\ d \in S
  OBVIOUS
<1>2. \E m \in S : \A y \in S : m <= y
  <2>1. CASE a <= b /\ a <= c /\ a <= d
    BY <2>1
  <2>2. CASE b <= a /\ b <= c /\ b <= d
    BY <2>2
  <2>3. CASE c <= a /\ c <= b /\ c <= d
    BY <2>3
  <2>4. CASE d <= a /\ d <= b /\ d <= c
    BY <2>4
  <2> QED BY <2>1, <2>2, <2>3, <2>4
<1> HIDE DEF S
<1>3. Min(S) \in S /\ \A y \in S : Min(S) <= y
  BY <1>1, <1>2, MinIsLeast
<1> QED BY <1>1, <1>3 DEF S

LEMMA BranchTestEdges ==
  ASSUME GateInv, GateInv', EdgeInv, cpuBranchTest
  PROVE  EdgeInv'
<1>1. /\ gates' = gates
      /\ \E other \in OtherEvents :
           branchIn' = Min({eeWaitCycles, other, hsync'.length - hsync'.age, nextCounter' - nextsAge'})
  BY DEF cpuBranchTest
<1>2. Typed /\ Lengths /\ VsyncOnTime
  BY DEF EdgeInv
<1>3. ASSUME hsync'.length - hsync'.age \in Int, nextCounter' - nextsAge' \in Int
      PROVE  /\ branchIn' \in Int
             /\ branchIn' <= hsync'.length - hsync'.age
             /\ branchIn' <= nextCounter' - nextsAge'
  <2>1. PICK other \in OtherEvents :
          branchIn' = Min({eeWaitCycles, other, hsync'.length - hsync'.age, nextCounter' - nextsAge'})
    BY <1>1
  <2>2. other \in Int /\ eeWaitCycles \in Int
    BY EeCountersAssumption, Constants
  <2> QED BY <1>3, <2>1, <2>2, MinOfFour
<1>4. CASE rcntUpdate
  <2>1. /\ cpu' = IF Over(vsync) /\ vsync.blank THEN "stopped" ELSE "tested"
        /\ vsync' = NextVsync /\ hsync' = Corrected(NextHsync)
        /\ timer' = [i \in Index |-> Update(VGates(i))]
        /\ nextsAge' = 0 /\ nextCounter' = cpuRcntSet(timer', vsync')
    BY <1>4 DEF rcntUpdate
  <2>2. /\ hsync'.age \in Int /\ hsync'.length \in {hRender, hBlank}
        /\ ~hsync'.blank => hsync'.length = hRender
        /\ hsync'.age < hsync'.length + Early
    BY <2>1, CorrectedOnTime
  <2>3. /\ vsync'.age \in Int
        /\ vsync'.length = IF vsync'.blank THEN Blank ELSE Render
        /\ vsync'.age < vsync'.length
    BY <2>1, NextVsyncOnTime
  <2>4. vsync'.length \in Int /\ hsync'.length \in Int
    BY <2>2, <2>3, Constants
  <2>5. \A i \in Index : IsTimer(timer'[i]) /\ Numbers(timer'[i])
    <3>1. ASSUME NEW i \in Index
          PROVE  IsTimer(timer'[i]) /\ Numbers(timer'[i])
      <4>1. IsTimer(VGates(i)) /\ Numbers(VGates(i))
        BY <1>2, VGatesNumbers
      <4>2. timer'[i] = Update(VGates(i))
        BY <2>1
      <4> QED BY <4>1, <4>2, TimeKeeps, UpdatesKeepNumbers DEF SameMode
    <3> QED BY <3>1
  <2>6. VsyncDue' = vsync'.length - vsync'.age /\ VsyncDue' \in Int /\ VsyncDue' > 0
    BY <2>1, <2>3, <2>4 DEF VsyncDue
  <2>7. /\ nextCounter' \in Nat
        /\ Meets(nextCounter', VsyncDue')
        /\ \A i \in Index : Ticking(timer'[i]) => Meets(nextCounter', DueIn(timer'[i], 0))
    BY <2>1, <2>5, <2>6, SchedulesAll
  <2>8. /\ branchIn' \in Int
        /\ branchIn' <= hsync'.length - hsync'.age
        /\ branchIn' <= nextCounter'
    BY <1>3, <2>1, <2>2, <2>4, <2>7
  <2>9. Typed'
    BY <2>1, <2>2, <2>3, <2>5, <2>7, <2>8 DEF Typed
  <2>10. Lengths'
    BY <2>2, <2>3 DEF Lengths
  <2>11. Scheduled'
    <3>1. OnSchedule(nextCounter', VsyncDue', timer', gates', nextsAge')
      BY <2>1, <2>7 DEF OnSchedule
    <3> QED BY <2>6, <2>9, <3>1, ScheduledNext
  <2>12. HsyncOnTime'
    BY <2>2, <2>4, <2>8, Constants DEF HsyncOnTime
  <2>13. VsyncOnTime'
    <3>1. Latest' \in Int /\ Latest' > 0 /\ nextCounter' <= Latest'
      BY <2>6, <2>7, Constants DEF Latest, Meets
    <3>2. cpu' = "stopped" => ~vsync'.blank
      <4>1. ASSUME cpu' = "stopped" PROVE NextVsync.blank = FALSE
        <5>1. Over(vsync) /\ vsync.blank
          BY <2>1, <4>1
        <5> QED BY <5>1, PartsFollow
      <4> QED BY <2>1, <4>1
    <3>3. nextsAge' = 0
      BY <2>1
    <3>4. /\ VsyncDue' >= 0
          /\ nextsAge' < Latest'
          /\ nextsAge' < Latest' + MaxBlock
          /\ branchIn' <= Latest' - nextsAge'
      <4>1. nextCounter' \in Int /\ branchIn' \in Int /\ branchIn' <= nextCounter'
        BY <2>7, <2>8
      <4>2. VsyncDue' \in Int /\ VsyncDue' > 0
        BY <2>6
      <4>3. MaxBlock \in Nat
        BY Constants
      <4>4. PICK latest \in Int : latest = Latest'
        BY <3>1
      <4>5. latest > 0 /\ branchIn' <= latest
        BY <3>1, <4>1, <4>4
      <4>6. 0 < latest + MaxBlock /\ latest - 0 = latest
        BY <4>3, <4>5
      <4> QED BY <3>3, <4>2, <4>4, <4>5, <4>6
    <3>5. (cpu' # "block" => nextsAge' < Latest') /\ (cpu' = "stopped" => ~vsync'.blank /\ nextsAge' = 0)
      BY <3>2, <3>3, <3>4
    <3> QED BY <3>4, <3>5, Zenon DEF VsyncOnTime
  <2> QED BY <2>9, <2>10, <2>11, <2>12, <2>13 DEF EdgeInv
<1>5. CASE NoUpdate
  <2>1. /\ nextsAge < nextCounter /\ cpu' = "tested"
        /\ hsync' = NextHsync /\ vsync' = vsync
        /\ timer' = [i \in Index |-> HGates(i)]
        /\ nextsAge' = nextsAge /\ nextCounter' = nextCounter
    BY <1>5 DEF NoUpdate
  <2>2. /\ hsync'.age \in Int /\ hsync'.length \in {hRender, hBlank}
        /\ ~hsync'.blank => hsync'.length = hRender
        /\ hsync'.age < hsync'.length
    BY <2>1, NextHsyncOnTime
  <2>3. hsync'.length \in Int /\ vsync.length \in Int
    BY <1>2, <2>2, Constants DEF Lengths
  <2>4. /\ branchIn' \in Int
        /\ branchIn' <= hsync'.length - hsync'.age
        /\ branchIn' <= nextCounter - nextsAge
    BY <1>2, <1>3, <2>1, <2>2, <2>3 DEF Typed
  <2>5. ASSUME NEW i \in Index
        PROVE  /\ Numbers(timer'[i])
               /\ Ticking(timer'[i]) /\ ~(i \in gates' /\ timer'[i].mode.source = "hblank")
                    => timer'[i] = timer[i]
    <3>1. timer'[i] = HGates(i)
      BY <2>1
    <3> QED BY <1>1, <1>2, <3>1, HGatesOnSchedule DEF AtGate
  <2>6. VsyncDue' = VsyncDue /\ Latest' = Latest /\ VsyncDue \in Int
    BY <1>2, <2>1, <2>3 DEF VsyncDue, Latest, Typed
  <2>7. Typed'
    BY <1>2, <2>1, <2>2, <2>4, <2>5 DEF Typed
  <2>8. Lengths'
    BY <1>2, <2>1, <2>2 DEF Lengths
  <2>9. OnSchedule(nextCounter, VsyncDue, timer, gates, nextsAge)
    BY <1>2, <2>6, ScheduledIs DEF EdgeInv
  <2>10. Scheduled'
    <3>1. OnSchedule(nextCounter', VsyncDue', timer', gates', nextsAge')
      BY <1>1, <2>1, <2>5, <2>6, <2>9 DEF OnSchedule
    <3> QED BY <2>6, <2>7, <3>1, ScheduledNext
  <2>11. HsyncOnTime'
    BY <2>2, <2>3, <2>4, Constants DEF HsyncOnTime
  <2>12. VsyncOnTime'
    <3>1. nextCounter <= Latest /\ Latest \in Int
      BY <1>2, <2>6, <2>9, Constants DEF OnSchedule, Meets, Latest, Typed
    <3> QED BY <1>2, <2>1, <2>4, <2>6, <3>1, Constants DEF VsyncOnTime, Typed
  <2> QED BY <2>7, <2>8, <2>10, <2>11, <2>12 DEF EdgeInv
<1> QED BY <1>4, <1>5 DEF cpuBranchTest

-----------------------------------------------------------------------------
(* The invariant behind Scheduled and EdgesOnTime: with the schedule, how far   *)
(* off the next branch test may be at most, and where time is between updates. *)
THEOREM EdgeInvariant == Spec => []EdgeInv
<1>1. GateInv /\ Init => EdgeInv
  BY EdgesInit
<1>2. GateInv /\ GateInv' /\ EdgeInv /\ [Next]_vars => EdgeInv'
  <2> SUFFICES ASSUME GateInv, GateInv', EdgeInv, [Next]_vars PROVE EdgeInv'
    OBVIOUS
  <2>1. CASE cpuBranchTest
    BY <2>1, BranchTestEdges
  <2>2. CASE RunBlock
    BY <2>2, RunBlockEdges
  <2>3. CASE Writes
    BY <2>3, WritesEdges
  <2>4. CASE RateSet
    BY <2>4, RateSetEdges
  <2>5. CASE LoadState
    BY <2>5, LoadStateEdges
  <2>6. CASE cpuReset
    BY <2>6, ResetEdges
  <2>7. CASE UNCHANGED vars
    BY <2>7 DEF vars, EdgeInv, Typed, Lengths, Scheduled, HsyncOnTime, VsyncOnTime, VsyncDue, Latest,
                AtGate
  <2> QED
    BY <2>1, <2>2, <2>3, <2>4, <2>5, <2>6, <2>7 DEF Next
<1> QED
  BY <1>1, <1>2, GateInvariant, PTL DEF Spec

(* Through late updates, writes of software at any moment, loads and resets,   *)
(* the next update is scheduled for the next event of every timer and for the  *)
(* next edge of vblank (cpuRcntSet and _rcntSet).                              *)
THEOREM UpdatesAreScheduled == Spec => []Scheduled
<1>1. EdgeInv => Scheduled
  BY DEF EdgeInv
<1> QED
  BY <1>1, EdgeInvariant, PTL

(* No edge is late by more than a block, the error of the frame and what       *)
(* _rcntSet may put an update off (cpuBranchTest, rcntUpdate_hScanline and      *)
(* rcntUpdate_vSync).                                                         *)
THEOREM EdgesAreOnTime == Spec => []EdgesOnTime
<1>1. GateInv /\ EdgeInv => EdgesOnTime
  <2> SUFFICES ASSUME GateInv, EdgeInv PROVE EdgesOnTime
    OBVIOUS
  <2>1. Max({0, -hSyncError}) = Early
    <3>1. hSyncError \in Int /\ 0 \in Int /\ -hSyncError \in Int
      BY Constants
    <3> QED BY <3>1, MaxOfTwo DEF Early
  <2>2. vsync.length \in Int
    BY Constants DEF EdgeInv, Lengths
  <2>3. vsync.age < vsync.length + MaxBlock + Soon
    BY <2>2, Constants DEF EdgeInv, Typed, VsyncOnTime, Latest, VsyncDue
  <2> QED BY <2>1, <2>3 DEF EdgesOnTime, EdgeInv, HsyncOnTime
<1> QED
  BY <1>1, GateInvariant, EdgeInvariant, PTL

-----------------------------------------------------------------------------
(* Proof that timers count exactly.                                          *)
(*                                                                           *)
(* Three things are followed.  Tracks says what a timer that reads v owes the  *)
(* exact counter, in ticks; ticks are cycles by division, so Shows says it of  *)
(* any cycle.  An update that comes before a second overflow pays what is      *)
(* owed, and UpdateTracks says so.  InTime says that it comes before: the      *)
(* schedule meets the next event of the timer, a write of software moves that  *)
(* event by a wait of the branch test at most, and an update that comes late   *)
(* leaves the timer no later than it was.  A timer that the gates start and    *)
(* stop is not followed, and only its numbers are.                            *)
(* Whole numbers of ticks. *)
LEMMA ProductMonotone ==
  ASSUME NEW r \in Nat, NEW a \in Int, NEW b \in Int, a <= b
  PROVE  a * r \in Int /\ b * r \in Int /\ a * r <= b * r
<1>1. (b - a) * r \in Nat
  OBVIOUS
<1>2. a * r \in Int /\ b * r \in Int /\ (b - a) * r = b * r - a * r
  OBVIOUS
<1> QED BY <1>1, <1>2

LEMMA DivisionIs ==
  ASSUME NEW n \in Nat, NEW r \in Nat \ {0}
  PROVE  /\ n \div r \in Nat /\ n % r \in 0 .. r - 1
         /\ n = (n \div r) * r + (n % r)
OBVIOUS

LEMMA DivisionUnique ==
  ASSUME NEW n \in Nat, NEW r \in Nat \ {0}, NEW q \in Nat, NEW m \in 0 .. r - 1, n = q * r + m
  PROVE  n \div r = q /\ n % r = m
<1>1. PICK p \in Nat : p = n \div r
  BY DivisionIs
<1>2. PICK l \in 0 .. r - 1 : l = n % r
  BY DivisionIs
<1>3. n = p * r + l
  BY <1>1, <1>2, DivisionIs
<1>4. p * r \in Int /\ q * r \in Int /\ (p + 1) * r = p * r + r /\ (q + 1) * r = q * r + r
  OBVIOUS
<1>5. ~(p < q)
  <2>1. SUFFICES ASSUME p + 1 <= q PROVE FALSE
    OBVIOUS
  <2>2. (p + 1) * r <= q * r
    BY <2>1, ProductMonotone
  <2> QED BY <1>3, <1>4, <2>2
<1>6. ~(q < p)
  <2>1. SUFFICES ASSUME q + 1 <= p PROVE FALSE
    OBVIOUS
  <2>2. (q + 1) * r <= p * r
    BY <2>1, ProductMonotone
  <2> QED BY <1>3, <1>4, <2>2
<1>7. p = q
  BY <1>5, <1>6
<1> QED BY <1>1, <1>2, <1>3, <1>4, <1>7

(* A tick ends after the cycles before have filled it. *)
LEMMA DivisionStep ==
  ASSUME NEW n \in Nat, NEW r \in Nat \ {0}
  PROVE  IF (n % r) + 1 = r THEN (n + 1) \div r = n \div r + 1 /\ (n + 1) % r = 0
                          ELSE (n + 1) \div r = n \div r /\ (n + 1) % r = (n % r) + 1
<1>1. PICK q \in Nat : q = n \div r
  BY DivisionIs
<1>2. PICK m \in 0 .. r - 1 : m = n % r
  BY DivisionIs
<1>3. n = q * r + m /\ n + 1 \in Nat
  BY <1>1, <1>2, DivisionIs
<1>4. q * r \in Int /\ (q + 1) * r = q * r + r
  OBVIOUS
<1>5. CASE m + 1 = r
  <2>1. n + 1 = (q + 1) * r + 0 /\ q + 1 \in Nat /\ 0 \in 0 .. r - 1
    BY <1>3, <1>4, <1>5
  <2>2. (n + 1) \div r = q + 1 /\ (n + 1) % r = 0
    BY <1>3, <2>1, DivisionUnique
  <2> QED BY <1>1, <1>2, <1>5, <2>2
<1>6. CASE m + 1 # r
  <2>1. n + 1 = q * r + (m + 1) /\ m + 1 \in 0 .. r - 1
    BY <1>3, <1>4, <1>6
  <2>2. (n + 1) \div r = q /\ (n + 1) % r = m + 1
    BY <1>3, <2>1, DivisionUnique
  <2> QED BY <1>1, <1>2, <1>6, <2>2
<1> QED BY <1>5, <1>6

(* Fewer than x ticks have passed while fewer than their cycles have. *)
LEMMA DivisionLess ==
  ASSUME NEW n \in Nat, NEW r \in Nat \ {0}, NEW x \in Int
  PROVE  n \div r < x <=> n < x * r
<1>1. PICK q \in Nat : q = n \div r
  BY DivisionIs
<1>2. PICK m \in 0 .. r - 1 : m = n % r
  BY DivisionIs
<1>3. n = q * r + m
  BY <1>1, <1>2, DivisionIs
<1>4. q * r \in Int /\ x * r \in Int /\ (q + 1) * r = q * r + r
  OBVIOUS
<1>5. q + 1 <= x => (q + 1) * r <= x * r
  BY ProductMonotone
<1>6. x <= q => x * r <= q * r
  BY ProductMonotone
<1>7. CASE q < x
  BY <1>1, <1>3, <1>4, <1>5, <1>7
<1>8. CASE ~(q < x)
  BY <1>1, <1>3, <1>4, <1>6, <1>8
<1> QED BY <1>7, <1>8

-----------------------------------------------------------------------------
(* What a timer owes the exact counter. *)

Exact == [on : BOOLEAN, count : 0 .. Wrap - 1, phase : Nat, target : Int, overflow : Int]

(* The numbers of a timer, in their ranges. *)
InRange(c) ==
  /\ IsTimer(c)
  /\ c.count \in Nat /\ c.age \in Nat /\ c.target \in 0 .. Wrap - 1 /\ c.future \in BOOLEAN

(* At its target the timer goes on from zero. *)
Returns(c) == c.mode.zeroReturn /\ c.mode.targetInt

(* A timer that reads v, and the exact counter e it stands for.  While the     *)
(* target is set aside they are the same; a timer that returns to zero is      *)
(* behind by its target for each return it has not made; and one that does not *)
(* is behind by an overflow at most.                                          *)
Tracks(c, e, v) ==
  /\ c.future /\ v < Wrap =>
       c.target <= v /\ e.count = v /\ e.target = 0 /\ e.overflow = 0
  /\ ~(c.future /\ v < Wrap) /\ Returns(c) =>
       /\ (IF c.future THEN v - Wrap ELSE v) = e.target * c.target + e.count
       /\ e.count < c.target
       /\ e.overflow = One(c.future /\ c.mode.overflowInt)
  /\ ~(c.future /\ v < Wrap) /\ ~Returns(c) =>
       /\ v < 2 * Wrap
       /\ e.count = IF v < Wrap THEN v ELSE v - Wrap
       /\ e.overflow = One(v >= Wrap /\ c.mode.overflowInt)
       /\ e.target = One(c.mode.targetInt /\ ~c.future /\ v >= c.target)
                       + One(c.mode.targetInt /\ v >= Wrap /\ v - Wrap >= c.target)

LEMMA WrapIsPositive == Wrap \in Nat /\ Wrap >= 1
BY EeTimerAssumption

LEMMA TickIs ==
  ASSUME NEW c, InRange(c), NEW e \in Exact
  PROVE  LET n == IF e.count + 1 = Wrap THEN 0 ELSE e.count + 1
             hit == n = c.target /\ c.mode.targetInt
             f == ExactTick(c, e)
         IN /\ f \in Exact /\ f.on = e.on /\ f.phase = 0
            /\ f.count = IF hit /\ c.mode.zeroReturn THEN 0 ELSE n
            /\ f.target = IF hit THEN e.target + 1 ELSE e.target
            /\ f.overflow = IF e.count + 1 = Wrap /\ c.mode.overflowInt THEN e.overflow + 1
                                                                         ELSE e.overflow
<1> DEFINE n == IF e.count + 1 = Wrap THEN 0 ELSE e.count + 1
           hit == n = c.target /\ c.mode.targetInt
           over == e.count + 1 = Wrap /\ c.mode.overflowInt
           a == IF hit /\ c.mode.zeroReturn THEN 0 ELSE n
           k == e.target + One(hit)
           o == e.overflow + One(over)
           f == [e EXCEPT !.count = a, !.phase = 0, !.target = k, !.overflow = o]
<1>1. (e.count + 1) % Wrap = n
  <2>1. e.count \in 0 .. Wrap - 1
    BY DEF Exact
  <2> QED BY <2>1, WrapIsPositive
<1>2. ExactTick(c, e) = f
  BY <1>1 DEF ExactTick
<1>3. n \in 0 .. Wrap - 1 /\ a \in 0 .. Wrap - 1
  BY WrapIsPositive DEF Exact
<1>4. e.target \in Int /\ e.overflow \in Int /\ e.on \in BOOLEAN
  BY DEF Exact
<1> HIDE DEF a, hit, over
<1>5. k = (IF hit THEN e.target + 1 ELSE e.target) /\ o = (IF over THEN e.overflow + 1 ELSE e.overflow)
  BY <1>4 DEF One
<1>6. k \in Int /\ o \in Int
  BY <1>4, <1>5
<1> HIDE DEF k, o
<1>7. f.on = e.on /\ f.count = a /\ f.phase = 0 /\ f.target = k /\ f.overflow = o
  BY DEF Exact
<1>8. f \in Exact
  BY <1>3, <1>4, <1>6 DEF Exact
<1> QED BY <1>2, <1>5, <1>7, <1>8 DEF a, hit, over

(* One more tick, of both. *)
LEMMA TickTracks ==
  ASSUME NEW c, InRange(c), ~Endless(c), NEW e \in Exact, NEW v \in Nat, Tracks(c, e, v),
         Returns(c) \/ v + 1 < 2 * Wrap
  PROVE  Tracks(c, ExactTick(c, e), v + 1)
<1> DEFINE n == IF e.count + 1 = Wrap THEN 0 ELSE e.count + 1
           hit == n = c.target /\ c.mode.targetInt
<1>1. PICK f : f = ExactTick(c, e)
  OBVIOUS
<1>2. /\ f.count = IF hit /\ c.mode.zeroReturn THEN 0 ELSE n
      /\ f.target = IF hit THEN e.target + 1 ELSE e.target
      /\ f.overflow = IF e.count + 1 = Wrap /\ c.mode.overflowInt THEN e.overflow + 1
                                                                   ELSE e.overflow
  BY <1>1, TickIs
<1>3. /\ e.count \in 0 .. Wrap - 1 /\ e.target \in Int /\ e.overflow \in Int
      /\ c.target \in 0 .. Wrap - 1 /\ Wrap \in Nat /\ Wrap >= 1
      /\ c.future \in BOOLEAN /\ c.mode.zeroReturn \in BOOLEAN /\ c.mode.targetInt \in BOOLEAN
      /\ c.mode.overflowInt \in BOOLEAN
  BY WrapIsPositive DEF Exact, InRange, IsTimer, Mode
<1>4. CASE c.future /\ v < Wrap
  <2>1. c.target <= v /\ e.count = v /\ e.target = 0 /\ e.overflow = 0
    BY <1>4 DEF Tracks
  <2>2. CASE v + 1 < Wrap
    BY <1>1, <1>2, <1>3, <1>4, <2>1, <2>2 DEF Tracks, Returns
  <2>3. CASE v + 1 = Wrap
    <3>1. n = 0
      BY <2>1, <2>3
    <3>2. CASE Returns(c)
      BY <1>1, <1>2, <1>3, <1>4, <2>1, <2>3, <3>1, <3>2 DEF Tracks, Returns, One, Endless
    <3>3. CASE ~Returns(c)
      BY <1>1, <1>2, <1>3, <1>4, <2>1, <2>3, <3>1, <3>3 DEF Tracks, Returns, One
    <3> QED BY <3>2, <3>3
  <2> QED BY <1>3, <1>4, <2>2, <2>3
<1>5. CASE ~(c.future /\ v < Wrap) /\ Returns(c)
  <2>1. /\ (IF c.future THEN v - Wrap ELSE v) = e.target * c.target + e.count
        /\ e.count < c.target
        /\ e.overflow = One(c.future /\ c.mode.overflowInt)
    BY <1>5 DEF Tracks
  <2>2. n = e.count + 1 /\ e.count + 1 # Wrap
    BY <1>3, <2>1
  <2>3. PICK p \in Int : p = e.target * c.target
    BY <1>3
  <2>4. f.overflow = One(c.future /\ c.mode.overflowInt)
    BY <1>2, <2>1, <2>2
  <2>5. (IF c.future THEN (v + 1) - Wrap ELSE v + 1) = f.target * c.target + f.count
    <3>1. CASE hit
      <4>1. f.target = e.target + 1 /\ f.count = 0 /\ e.count + 1 = c.target
        BY <1>2, <1>5, <2>2, <3>1 DEF Returns
      <4>2. f.target * c.target = p + c.target
        BY <1>3, <2>3, <4>1
      <4>3. PICK k \in Int : k = f.target * c.target /\ k = p + c.target
        BY <1>3, <2>3, <4>2
      <4>4. (IF c.future THEN v - Wrap ELSE v) = p + e.count
        BY <2>1, <2>3
      <4> HIDE DEF n, hit
      <4>5. (IF c.future THEN (v + 1) - Wrap ELSE v + 1) = k + f.count
        <5>1. k = p + c.target
          BY <4>3
        <5>2. CASE c.future
          <6>1. v - Wrap = p + e.count
            BY <4>4, <5>2
          <6> QED BY <1>3, <4>1, <5>1, <5>2, <6>1
        <5>3. CASE ~c.future
          <6>1. v = p + e.count
            BY <4>4, <5>3
          <6> QED BY <1>3, <4>1, <5>1, <5>3, <6>1
        <5> QED BY <5>2, <5>3
      <4> QED BY <4>3, <4>5
    <3>2. CASE ~hit
      <4>1. f.target = e.target /\ f.count = e.count + 1
        BY <1>2, <2>2, <3>2
      <4> QED BY <1>3, <2>1, <2>3, <4>1
    <3> QED BY <3>1, <3>2
  <2>6. f.count < c.target
    BY <1>2, <1>3, <1>5, <2>1, <2>2 DEF Returns
  <2>7. ~(c.future /\ v + 1 < Wrap)
    BY <1>3, <1>5
  <2> QED BY <1>1, <1>5, <2>4, <2>5, <2>6, <2>7 DEF Tracks
<1>6. CASE ~(c.future /\ v < Wrap) /\ ~Returns(c)
  <2>1. /\ v < 2 * Wrap
        /\ e.count = IF v < Wrap THEN v ELSE v - Wrap
        /\ e.overflow = One(v >= Wrap /\ c.mode.overflowInt)
        /\ e.target = One(c.mode.targetInt /\ ~c.future /\ v >= c.target)
                        + One(c.mode.targetInt /\ v >= Wrap /\ v - Wrap >= c.target)
    BY <1>6 DEF Tracks
  <2>2. f.count = n
    BY <1>2, <1>6 DEF Returns
  <2>3. f.count = IF v + 1 < Wrap THEN v + 1 ELSE (v + 1) - Wrap
    BY <1>3, <1>6, <2>1, <2>2
  <2>4. f.overflow = One(v + 1 >= Wrap /\ c.mode.overflowInt)
    BY <1>2, <1>3, <1>6, <2>1 DEF One
  <2>5. f.target = One(c.mode.targetInt /\ ~c.future /\ v + 1 >= c.target)
                     + One(c.mode.targetInt /\ v + 1 >= Wrap /\ (v + 1) - Wrap >= c.target)
    BY <1>2, <1>3, <1>6, <2>1 DEF One
  <2>6. ~(c.future /\ v + 1 < Wrap) /\ v + 1 < 2 * Wrap
    BY <1>3, <1>6
  <2> QED BY <1>1, <1>6, <2>3, <2>4, <2>5, <2>6 DEF Tracks
<1> QED BY <1>4, <1>5, <1>6

-----------------------------------------------------------------------------
(* Cycles. *)

(* The exact counter e is that of the timer when its age is n. *)
Shows(c, e, n) ==
  /\ e \in Exact /\ e.target >= 0 /\ e.overflow >= 0
  /\ e.phase = n % Rate(c)
  /\ Tracks(c, e, c.count + n \div Rate(c))

(* One more cycle, of both. *)
LEMMA CycleShows ==
  ASSUME NEW c, InRange(c), Ticking(c), ~Endless(c), NEW e, NEW n \in Nat, Shows(c, e, n),
         Returns(c) \/ n + 1 < (2 * Wrap - c.count) * Rate(c)
  PROVE  Shows(c, ExactCycle(c, e), n + 1) /\ ExactCycle(c, e).on = e.on
<1> DEFINE r == Rate(c)
<1>1. r \in Nat \ {0} /\ c.count \in Nat /\ Wrap \in Nat
  BY RateIsPositive, WrapIsPositive DEF InRange
<1>2. PICK v \in Nat : v = c.count + n \div r
  BY <1>1, DivisionIs
<1>3. e \in Exact /\ e.target >= 0 /\ e.overflow >= 0 /\ e.phase = n % r /\ Tracks(c, e, v)
  BY <1>2 DEF Shows
<1> HIDE DEF r
<1>4. CASE (n % r) + 1 = r
  <2>1. (n + 1) \div r = n \div r + 1 /\ (n + 1) % r = 0
    BY <1>1, <1>4, DivisionStep
  <2>2. n \div r \in Nat /\ c.count + (n + 1) \div r = v + 1
    <3>1. PICK q \in Nat : q = n \div r
      BY <1>1, DivisionIs
    <3>2. (n + 1) \div r = q + 1
      BY <2>1, <3>1
    <3> QED BY <1>1, <1>2, <3>1, <3>2
  <2>3. Returns(c) \/ v + 1 < 2 * Wrap
    <3>1. ASSUME n + 1 < (2 * Wrap - c.count) * r
          PROVE  v + 1 < 2 * Wrap
      <4>1. 2 * Wrap - c.count \in Int /\ n + 1 \in Nat
        BY <1>1
      <4>2. (n + 1) \div r < 2 * Wrap - c.count
        BY <1>1, <3>1, <4>1, DivisionLess
      <4> QED BY <1>1, <1>2, <2>1, <2>2, <4>2
    <3> QED BY <3>1 DEF r
  <2>4. Tracks(c, ExactTick(c, e), v + 1)
    BY <1>3, <2>3, TickTracks
  <2>5. ExactCycle(c, e) = ExactTick(c, e)
    BY <1>3, <1>4 DEF ExactCycle, r
  <2>6. ExactTick(c, e) \in Exact /\ ExactTick(c, e).on = e.on /\ ExactTick(c, e).phase = 0
    BY <1>3, TickIs
  <2>7. ExactTick(c, e).target >= 0 /\ ExactTick(c, e).overflow >= 0
    BY <1>3, TickIs DEF Exact
  <2> QED BY <2>1, <2>2, <2>4, <2>5, <2>6, <2>7 DEF Shows, r
<1>5. CASE (n % r) + 1 # r
  <2>1. (n + 1) \div r = n \div r /\ (n + 1) % r = (n % r) + 1
    BY <1>1, <1>5, DivisionStep
  <2> DEFINE p == e.phase + 1
             f == [e EXCEPT !.phase = p]
  <2>2. ExactCycle(c, e) = f
    BY <1>3, <1>5 DEF ExactCycle, r
  <2>3. p = (n + 1) % r /\ p \in Nat
    BY <1>3, <2>1 DEF Exact
  <2> HIDE DEF p
  <2>4. /\ f \in Exact /\ f.on = e.on /\ f.phase = p
        /\ f.count = e.count /\ f.target = e.target /\ f.overflow = e.overflow
    BY <1>3, <2>3 DEF Exact
  <2> HIDE DEF f
  <2>5. Tracks(c, f, v)
    BY <1>3, <2>4 DEF Tracks
  <2> QED BY <1>2, <1>3, <2>1, <2>2, <2>3, <2>4, <2>5 DEF Shows, r
<1> QED BY <1>4, <1>5

(* The function of the exact counters one cycle after the other exists. *)
LEMMA AfterExists ==
  ASSUME NEW c, NEW d \in Nat
  PROVE  \E f : f = [k \in 0 .. d |-> IF k = 0 THEN c.exact ELSE ExactCycle(c, f[k - 1])]
<1> DEFINE first == c.exact
           after(e) == ExactCycle(c, e)
           Is(f, n) == f = [k \in 0 .. n |-> IF k = 0 THEN first ELSE after(f[k - 1])]
           bad == {n \in 0 .. d : ~ \E f : Is(f, n)}
<1> HIDE DEF first, after
<1>1. ASSUME bad # {} PROVE FALSE
  <2>1. bad \in SUBSET Nat
    OBVIOUS
  <2>2. PICK m \in bad : \A k \in bad : m <= k
    BY <1>1, <2>1, LeastNatural
  <2>3. m \in 0 .. d /\ m \in Nat /\ ~ \E f : Is(f, m)
    BY <2>2
  <2>4. CASE m = 0
    <3>1. Is([k \in 0 .. 0 |-> first], 0)
      OBVIOUS
    <3> QED BY <2>3, <2>4, <3>1
  <2>5. CASE m # 0
    <3>1. m - 1 \in 0 .. d /\ m - 1 \notin bad
      <4>1. m - 1 \in 0 .. d /\ ~(m <= m - 1)
        BY <2>3, <2>5
      <4> QED BY <2>2, <4>1
    <3>2. PICK f : Is(f, m - 1)
      BY <3>1
    <3> DEFINE g == [k \in 0 .. m |-> IF k = m THEN after(f[m - 1]) ELSE f[k]]
    <3>3. ASSUME NEW k \in 0 .. m
          PROVE  g[k] = IF k = 0 THEN first ELSE after(g[k - 1])
      <4>1. CASE k = m
        <5>1. m - 1 \in 0 .. m /\ m - 1 # m
          BY <2>3, <2>5
        <5> QED BY <2>5, <4>1, <5>1
      <4>2. CASE k # m
        <5>1. k \in 0 .. m - 1 /\ (k # 0 => k - 1 \in 0 .. m /\ k - 1 # m)
          BY <2>3, <4>2
        <5> QED BY <3>2, <4>2, <5>1
      <4> QED BY <4>1, <4>2
    <3>4. Is(g, m)
      BY <3>3
    <3> QED BY <2>3, <3>4
  <2> QED BY <2>4, <2>5
<1>2. \E f : Is(f, d)
  BY <1>1
<1> QED BY <1>2 DEF first, after

LEMMA AfterIs ==
  ASSUME NEW c, NEW d \in Nat
  PROVE  \E f : /\ f[0] = c.exact /\ f[d] = ExactAfter(c, d)
                /\ \A k \in 1 .. d : f[k] = ExactCycle(c, f[k - 1])
<1> DEFINE Is(f) == f = [k \in 0 .. d |-> IF k = 0 THEN c.exact ELSE ExactCycle(c, f[k - 1])]
           F == CHOOSE f : Is(f)
<1>1. Is(F)
  <2>1. \E f : Is(f)
    BY AfterExists
  <2> HIDE DEF Is
  <2> QED BY <2>1
<1>2. ExactAfter(c, d) = F[d]
  BY DEF ExactAfter
<1> HIDE DEF F
<1>3. 0 \in 0 .. d /\ \A k \in 1 .. d : k \in 0 .. d /\ k # 0
  OBVIOUS
<1>4. F[0] = c.exact /\ \A k \in 1 .. d : F[k] = ExactCycle(c, F[k - 1])
  BY <1>1, <1>3
<1> QED BY <1>2, <1>4

(* And d more cycles. *)
LEMMA AfterShows ==
  ASSUME NEW c, InRange(c), Ticking(c), ~Endless(c), Shows(c, c.exact, c.age), NEW d \in Nat,
         Returns(c) \/ c.age + d < (2 * Wrap - c.count) * Rate(c)
  PROVE  Shows(c, ExactAfter(c, d), c.age + d) /\ ExactAfter(c, d).on = c.exact.on
<1>1. PICK f : /\ f[0] = c.exact /\ f[d] = ExactAfter(c, d)
               /\ \A k \in 1 .. d : f[k] = ExactCycle(c, f[k - 1])
  BY AfterIs
<1> DEFINE Good(k) == Shows(c, f[k], c.age + k) /\ f[k].on = c.exact.on
           bad == {k \in 0 .. d : ~Good(k)}
<1>2. c.age \in Nat /\ (2 * Wrap - c.count) * Rate(c) \in Int
  BY RateIsPositive, WrapIsPositive DEF InRange
<1>3. ASSUME bad # {} PROVE FALSE
  <2>1. bad \in SUBSET Nat
    OBVIOUS
  <2>2. PICK m \in bad : \A k \in bad : m <= k
    BY <1>3, <2>1, LeastNatural
  <2>3. m \in 0 .. d /\ m \in Nat /\ ~Good(m)
    BY <2>2
  <2>4. CASE m = 0
    <3>1. Good(0)
      BY <1>1, <1>2
    <3> QED BY <2>3, <2>4, <3>1
  <2>5. CASE m # 0
    <3>1. m - 1 \in 0 .. d /\ m \in 1 .. d /\ ~(m <= m - 1)
      BY <2>3, <2>5
    <3>2. Good(m - 1)
      BY <2>2, <3>1
    <3>3. c.age + (m - 1) \in Nat /\ (c.age + (m - 1)) + 1 = c.age + m
      BY <1>2, <2>3, <3>1
    <3>4. Returns(c) \/ (c.age + (m - 1)) + 1 < (2 * Wrap - c.count) * Rate(c)
      BY <1>2, <2>3, <3>3
    <3>5. /\ Shows(c, ExactCycle(c, f[m - 1]), (c.age + (m - 1)) + 1)
          /\ ExactCycle(c, f[m - 1]).on = f[m - 1].on
      BY <3>2, <3>3, <3>4, CycleShows
    <3>6. Good(m)
      BY <1>1, <3>1, <3>2, <3>3, <3>5
    <3> QED BY <2>3, <3>6
  <2> QED BY <2>4, <2>5
<1>4. Good(d)
  BY <1>3
<1> QED BY <1>1, <1>4

(* A timer, and its exact counter if it has one. *)
Sound(c) ==
  /\ InRange(c) /\ c.exact \in Exact
  /\ c.exact.on => Ticking(c) /\ ~Endless(c) /\ Shows(c, c.exact, c.age)
  /\ ~c.exact.on => c.exact.target = 0 /\ c.exact.overflow = 0

(* Fields of a timer that is set. *)
SameNumbers(c, d) ==
  IsTimer(d) /\ d.mode = c.mode /\ d.count = c.count /\ d.target = c.target /\ d.future = c.future

LEMMA SameShows ==
  ASSUME NEW c, NEW d, SameNumbers(c, d), NEW e, NEW n
  PROVE  /\ Ticking(d) <=> Ticking(c)
         /\ Endless(d) <=> Endless(c)
         /\ Returns(d) <=> Returns(c)
         /\ Rate(d) = Rate(c)
         /\ Shows(c, e, n) => Shows(d, e, n)
<1>1. /\ Ticking(d) <=> Ticking(c)
      /\ Endless(d) <=> Endless(c)
      /\ Returns(d) <=> Returns(c)
      /\ Rate(d) = Rate(c)
  BY DEF SameNumbers, Ticking, Endless, Returns, Rate
<1>2. \A v : Tracks(c, e, v) => Tracks(d, e, v)
  BY <1>1 DEF SameNumbers, Tracks
<1> QED BY <1>1, <1>2 DEF Shows, SameNumbers

(* What a timer reads that counts on. *)
LEMMA ReadIs ==
  ASSUME NEW c, InRange(c), Ticking(c)
  PROVE  /\ rcntRcount(c) = c.count + c.age \div Rate(c)
         /\ rcntRcount(c) \in Nat
         /\ \A x \in Int : rcntRcount(c) < x <=> c.age < (x - c.count) * Rate(c)
<1>1. Rate(c) \in Nat \ {0} /\ c.count \in Nat /\ c.age \in Nat
  BY RateIsPositive DEF InRange
<1>2. PICK q \in Nat : q = c.age \div Rate(c)
  BY <1>1, DivisionIs
<1>3. rcntRcount(c) = c.count + q
  BY <1>2 DEF rcntRcount
<1>4. ASSUME NEW x \in Int
      PROVE  rcntRcount(c) < x <=> c.age < (x - c.count) * Rate(c)
  <2>1. x - c.count \in Int
    BY <1>1
  <2>2. q < x - c.count <=> c.age < (x - c.count) * Rate(c)
    BY <1>1, <1>2, <2>1, DivisionLess
  <2> QED BY <1>1, <1>3, <2>2
<1> QED BY <1>1, <1>2, <1>3, <1>4

(* Time passes, within the time between two updates. *)
LEMMA PassIsSound ==
  ASSUME NEW c, Sound(c), NEW d \in Nat,
         c.exact.on /\ ~Returns(c) => c.age + d < (2 * Wrap - c.count) * Rate(c)
  PROVE  LET p == Pass(c, d) IN
         /\ Sound(p) /\ SameNumbers(c, p) /\ p.exact.on = c.exact.on
         /\ c.exact.on => p.age = c.age + d
<1> DEFINE p == Pass(c, d)
<1>1. IsTimer(c) /\ InRange(c) /\ c.exact \in Exact
  BY DEF Sound, InRange
<1>2. CASE ~c.mode.counting
  <2>1. p = c
    BY <1>2 DEF Pass
  <2>2. ~c.exact.on
    BY <1>2 DEF Sound, Ticking
  <2>3. SameNumbers(c, c)
    BY <1>1 DEF SameNumbers
  <2> QED BY <2>1, <2>2, <2>3
<1>3. CASE c.mode.counting
  <2>1. PICK a, e : /\ p = [c EXCEPT !.age = a, !.exact = e]
                    /\ a = c.age + d /\ e = IF c.exact.on THEN ExactAfter(c, d) ELSE c.exact
    BY <1>3 DEF Pass
  <2>2. a \in Nat
    BY <1>1, <2>1 DEF InRange
  <2> HIDE DEF p
  <2>5. SameNumbers(c, p) /\ p.age = a /\ p.exact = e
    BY <1>1, <2>1 DEF SameNumbers, IsTimer, Fields
  <2>3. CASE c.exact.on
    <3>1. Ticking(c) /\ ~Endless(c) /\ Shows(c, c.exact, c.age)
      BY <2>3 DEF Sound
    <3>2. Shows(c, ExactAfter(c, d), c.age + d) /\ ExactAfter(c, d).on = c.exact.on
      BY <1>1, <2>3, <3>1, AfterShows
    <3>3. SameNumbers(c, p) /\ p.age = a /\ p.exact = e
      BY <2>5
    <3>4. e = ExactAfter(c, d) /\ a = c.age + d
      BY <2>1, <2>3
    <3>5. Ticking(p) /\ ~Endless(p) /\ Shows(p, p.exact, p.age)
      BY <3>1, <3>2, <3>3, <3>4, SameShows
    <3>6. InRange(p) /\ p.exact \in Exact /\ p.exact.on = c.exact.on
      BY <1>1, <2>2, <3>2, <3>3, <3>4 DEF InRange, SameNumbers, Shows
    <3>7. Sound(p)
      BY <2>3, <3>5, <3>6 DEF Sound
    <3> QED BY <2>3, <3>3, <3>4, <3>6, <3>7 DEF p
  <2>4. CASE ~c.exact.on
    <3>2. SameNumbers(c, p) /\ p.age = a /\ p.exact = c.exact
      BY <2>1, <2>4, <2>5
    <3>3. InRange(p)
      BY <1>1, <2>2, <3>2 DEF InRange, SameNumbers
    <3>4. Sound(p)
      BY <2>4, <3>2, <3>3 DEF Sound
    <3> QED BY <2>4, <3>2, <3>4 DEF p
  <2> QED BY <2>3, <2>4
<1> QED BY <1>2, <1>3

(* Software has written: the exact counter goes on from the timer. *)
LEMMA FollowIsSound ==
  ASSUME NEW c, InRange(c)
  PROVE  LET f == Follow(c) IN
         /\ Sound(f) /\ SameNumbers(c, f) /\ f.age = c.age
         /\ f.exact.on => Ticking(c) /\ UpToDate(c)
<1> DEFINE v == rcntRcount(c)
           hit == ~c.future /\ v = c.target /\ c.mode.targetInt
           x == [on |-> TRUE, phase |-> c.age % Rate(c), target |-> One(hit), overflow |-> 0,
                 count |-> IF hit /\ c.mode.zeroReturn THEN 0 ELSE v]
           f == Follow(c)
<1>1. /\ IsTimer(c) /\ c.count \in Nat /\ c.age \in Nat /\ c.target \in 0 .. Wrap - 1
      /\ c.future \in BOOLEAN /\ Wrap \in Nat /\ Wrap >= 1
      /\ c.mode.zeroReturn \in BOOLEAN /\ c.mode.targetInt \in BOOLEAN /\ c.mode.overflowInt \in BOOLEAN
  BY WrapIsPositive DEF InRange, IsTimer, Mode
<1>2. CASE Ticking(c) /\ UpToDate(c) /\ ~Endless(c)
  <2>1. f = [c EXCEPT !.exact = x]
    BY <1>2 DEF Follow
  <2>2. v \in Nat /\ v = c.count + c.age \div Rate(c)
    BY <1>2, ReadIs
  <2>3. v < Wrap /\ IF c.future THEN v >= c.target ELSE v <= c.target
    BY <1>2 DEF UpToDate
  <2>4. c.age % Rate(c) \in Nat
    <3>1. Rate(c) \in Nat \ {0}
      BY <1>1, <1>2, RateIsPositive
    <3> QED BY <1>1, <3>1
  <2> HIDE DEF v
  <2>5. x.count \in 0 .. Wrap - 1 /\ x.target \in Nat
    BY <1>1, <2>2, <2>3 DEF One
  <2>6. x \in Exact /\ x.on /\ x.target >= 0 /\ x.overflow >= 0
    BY <2>4, <2>5 DEF Exact
  <2>7. Tracks(c, x, v)
    <3>1. x.count = (IF hit /\ c.mode.zeroReturn THEN 0 ELSE v) /\ x.target = One(hit) /\ x.overflow = 0
      OBVIOUS
    <3> HIDE DEF x
    <3>2. CASE c.future
      BY <1>1, <2>2, <2>3, <3>1, <3>2 DEF Tracks, One
    <3>3. CASE ~c.future /\ Returns(c)
      <4>1. c.target # 0
        BY <1>2, <3>3 DEF Endless, Returns
      <4> QED BY <1>1, <2>2, <2>3, <3>1, <3>3, <4>1 DEF Tracks, Returns, One
    <3>4. CASE ~c.future /\ ~Returns(c)
      BY <1>1, <2>2, <2>3, <3>1, <3>4 DEF Tracks, Returns, One
    <3> QED BY <1>1, <3>2, <3>3, <3>4
  <2>8. Shows(c, x, c.age)
    BY <2>2, <2>6, <2>7 DEF Shows
  <2> HIDE DEF x
  <2>9. SameNumbers(c, f) /\ f.age = c.age /\ f.exact = x
    BY <1>1, <2>1 DEF SameNumbers, IsTimer, Fields
  <2> HIDE DEF f
  <2>10. Ticking(f) /\ ~Endless(f) /\ Shows(f, f.exact, f.age)
    BY <1>2, <2>8, <2>9, SameShows
  <2>11. InRange(f)
    BY <1>1, <2>9 DEF InRange, SameNumbers
  <2>12. Sound(f)
    BY <2>6, <2>9, <2>10, <2>11 DEF Sound
  <2> QED BY <1>2, <2>9, <2>12 DEF f
<1>3. CASE ~(Ticking(c) /\ UpToDate(c) /\ ~Endless(c))
  <2>1. f = [c EXCEPT !.exact = Off]
    BY <1>3 DEF Follow
  <2>2. Off \in Exact /\ ~Off.on /\ Off.target = 0 /\ Off.overflow = 0
    BY <1>1 DEF Off, Exact
  <2>3. SameNumbers(c, f) /\ f.age = c.age /\ f.exact = Off
    BY <1>1, <2>1 DEF SameNumbers, IsTimer, Fields
  <2> HIDE DEF f
  <2>4. InRange(f)
    BY <1>1, <2>3 DEF InRange, SameNumbers
  <2>5. Sound(f)
    BY <2>2, <2>3, <2>4 DEF Sound
  <2> QED BY <2>2, <2>3, <2>5 DEF f
<1> QED BY <1>2, <1>3

-----------------------------------------------------------------------------
(* Updates. *)

(* What an update leaves of the exact counter: the interrupts that the timer   *)
(* has now raised are no longer owed.                                         *)
SameExact(e, f) == f \in Exact /\ f.on = e.on /\ f.count = e.count /\ f.phase = e.phase

(* The target is tested, and found reached. *)
Past(c, v) == ~c.future /\ v >= c.target

(* The count that is left then. *)
Left(c, v) == IF Past(c, v) /\ Returns(c) THEN v - c.target ELSE v

LEMMA OwedLess ==
  ASSUME NEW e \in Exact, NEW p
  PROVE  /\ LET f == [e EXCEPT !.target = @ - One(p)]
            IN SameExact(e, f) /\ f.target = e.target - One(p) /\ f.overflow = e.overflow
         /\ LET f == [e EXCEPT !.overflow = @ - One(p)]
            IN SameExact(e, f) /\ f.overflow = e.overflow - One(p) /\ f.target = e.target
<1> DEFINE k == e.target - One(p)
           o == e.overflow - One(p)
           f == [e EXCEPT !.target = k]
           g == [e EXCEPT !.overflow = o]
<1>1. One(p) \in Int
  BY DEF One
<1>2. k \in Int /\ o \in Int
  BY <1>1 DEF Exact
<1> HIDE DEF k, o
<1>3. SameExact(e, f) /\ f.target = k /\ f.overflow = e.overflow
  BY <1>2 DEF Exact, SameExact
<1>4. SameExact(e, g) /\ g.overflow = o /\ g.target = e.target
  BY <1>2 DEF Exact, SameExact
<1> QED BY <1>3, <1>4 DEF k, o

LEMMA TestTargetIs ==
  ASSUME NEW c, InRange(c), c.exact \in Exact
  PROVE  LET d == cpuTestTarget(c)
             p == Past(c, c.count)
         IN /\ InRange(d) /\ d.mode = c.mode /\ d.target = c.target /\ d.age = c.age
            /\ d.count = Left(c, c.count)
            /\ d.future = IF p THEN ~Returns(c) ELSE c.future
            /\ SameExact(c.exact, d.exact) /\ d.exact.overflow = c.exact.overflow
            /\ d.exact.target = c.exact.target - One(p /\ c.mode.targetInt /\ c.exact.on)
<1>1. /\ IsTimer(c) /\ c.count \in Nat /\ c.age \in Nat /\ c.target \in 0 .. Wrap - 1
      /\ c.future \in BOOLEAN /\ Wrap \in Nat
      /\ c.mode.zeroReturn \in BOOLEAN /\ c.mode.targetInt \in BOOLEAN
  BY WrapIsPositive DEF InRange, IsTimer, Mode
<1>2. CASE c.future \/ c.count < c.target
  <2>1. cpuTestTarget(c) = c /\ ~Past(c, c.count)
    BY <1>1, <1>2 DEF cpuTestTarget, Past
  <2>2. c.exact.target - One(Past(c, c.count) /\ c.mode.targetInt /\ c.exact.on) = c.exact.target
    BY <2>1 DEF One, Exact
  <2> QED BY <2>1, <2>2 DEF Left, SameExact
<1>3. CASE ~(c.future \/ c.count < c.target)
  <2> DEFINE q == c.mode.targetInt /\ c.exact.on
  <2>1. PICK d, x, a, f :
          /\ d = cpuTestTarget(c)
          /\ d = [c EXCEPT !.exact = x, !.count = a, !.future = f]
          /\ x = [c.exact EXCEPT !.target = @ - One(q)]
          /\ a = IF c.mode.targetInt /\ c.mode.zeroReturn THEN c.count - c.target ELSE c.count
          /\ f = ~(c.mode.targetInt /\ c.mode.zeroReturn)
    <3> DEFINE x == [c.exact EXCEPT !.target = @ - One(q)]
               a == IF c.mode.targetInt /\ c.mode.zeroReturn THEN c.count - c.target ELSE c.count
               f == ~(c.mode.targetInt /\ c.mode.zeroReturn)
    <3>1. cpuTestTarget(c) = [c EXCEPT !.exact = x, !.count = a, !.future = f]
      BY <1>1, <1>3 DEF cpuTestTarget, IsTimer, Fields
    <3> QED BY <3>1
  <2>2. Past(c, c.count)
    BY <1>1, <1>3 DEF Past
  <2>3. a \in Nat /\ f \in BOOLEAN /\ a = Left(c, c.count) /\ f = ~Returns(c)
    BY <1>1, <1>3, <2>1, <2>2 DEF Left, Returns
  <2>4. SameExact(c.exact, x) /\ x.overflow = c.exact.overflow /\ x.target = c.exact.target - One(q)
    BY <2>1, OwedLess, ZenonT(40)
  <2>5. /\ IsTimer(d) /\ d.mode = c.mode /\ d.target = c.target /\ d.age = c.age
        /\ d.count = a /\ d.future = f /\ d.exact = x
    BY <1>1, <2>1 DEF IsTimer, Fields
  <2>6. InRange(d)
    BY <1>1, <2>3, <2>5 DEF InRange
  <2>7. One(Past(c, c.count) /\ c.mode.targetInt /\ c.exact.on) = One(q)
    BY <2>2 DEF One
  <2> QED BY <2>1, <2>2, <2>3, <2>4, <2>5, <2>6, <2>7
<1> QED BY <1>2, <1>3

LEMMA TestOverflowIs ==
  ASSUME NEW c, InRange(c), c.exact \in Exact
  PROVE  LET d == cpuTestOverflow(c)
             p == c.count >= Wrap
         IN /\ InRange(d) /\ d.mode = c.mode /\ d.target = c.target /\ d.age = c.age
            /\ d.count = IF p THEN c.count - Wrap ELSE c.count
            /\ d.future = IF p THEN FALSE ELSE c.future
            /\ SameExact(c.exact, d.exact) /\ d.exact.target = c.exact.target
            /\ d.exact.overflow = c.exact.overflow - One(p /\ c.mode.overflowInt /\ c.exact.on)
<1>1. /\ IsTimer(c) /\ c.count \in Nat /\ c.age \in Nat /\ c.target \in 0 .. Wrap - 1
      /\ c.future \in BOOLEAN /\ Wrap \in Nat
  BY WrapIsPositive DEF InRange
<1>2. CASE c.count < Wrap
  <2>1. cpuTestOverflow(c) = c /\ ~(c.count >= Wrap)
    BY <1>1, <1>2 DEF cpuTestOverflow
  <2>2. c.exact.overflow - One(c.count >= Wrap /\ c.mode.overflowInt /\ c.exact.on) = c.exact.overflow
    BY <2>1 DEF One, Exact
  <2> QED BY <2>1, <2>2 DEF SameExact
<1>3. CASE ~(c.count < Wrap)
  <2> DEFINE q == c.mode.overflowInt /\ c.exact.on
  <2>1. PICK d, x, a :
          /\ d = cpuTestOverflow(c)
          /\ d = [c EXCEPT !.exact = x, !.count = a, !.future = FALSE]
          /\ x = [c.exact EXCEPT !.overflow = @ - One(q)]
          /\ a = c.count - Wrap
    <3> DEFINE x == [c.exact EXCEPT !.overflow = @ - One(q)]
               a == c.count - Wrap
    <3>1. cpuTestOverflow(c) = [c EXCEPT !.exact = x, !.count = a, !.future = FALSE]
      BY <1>1, <1>3 DEF cpuTestOverflow, IsTimer, Fields
    <3> QED BY <3>1
  <2>2. a \in Nat /\ c.count >= Wrap
    BY <1>1, <1>3, <2>1
  <2>3. SameExact(c.exact, x) /\ x.target = c.exact.target /\ x.overflow = c.exact.overflow - One(q)
    BY <2>1, OwedLess
  <2>4. /\ IsTimer(d) /\ d.mode = c.mode /\ d.target = c.target /\ d.age = c.age
        /\ d.count = a /\ d.future = FALSE /\ d.exact = x
    BY <1>1, <2>1 DEF IsTimer, Fields
  <2>5. InRange(d)
    BY <1>1, <2>2, <2>4 DEF InRange
  <2>6. One(c.count >= Wrap /\ c.mode.overflowInt /\ c.exact.on) = One(q)
    BY <2>2 DEF One
  <2> QED BY <2>1, <2>2, <2>3, <2>4, <2>5, <2>6
<1> QED BY <1>2, <1>3

LEMMA UpdateIs ==
  ASSUME NEW c, InRange(c), Ticking(c), c.exact \in Exact
  PROVE  LET u == Update(c)
             v == rcntRcount(c)
             w == Left(c, v)
             p == Past(c, v)
             o == w >= Wrap
         IN /\ InRange(u) /\ u.mode = c.mode /\ u.target = c.target /\ u.age = c.age % Rate(c)
            /\ v \in Nat /\ w \in Nat
            /\ u.count = IF o THEN w - Wrap ELSE w
            /\ u.future = IF o THEN FALSE ELSE IF p THEN ~Returns(c) ELSE c.future
            /\ SameExact(c.exact, u.exact)
            /\ u.exact.target = c.exact.target - One(p /\ c.mode.targetInt /\ c.exact.on)
            /\ u.exact.overflow = c.exact.overflow - One(o /\ c.mode.overflowInt /\ c.exact.on)
<1>1. PICK v \in Nat : v = rcntRcount(c)
  BY ReadIs
<1>2. PICK a \in Nat : a = c.age % Rate(c)
  BY RateIsPositive, DivisionIs DEF InRange
<1>3. PICK d : d = CatchUp(c)
  OBVIOUS
<1>4. /\ InRange(d) /\ d.mode = c.mode /\ d.target = c.target /\ d.age = a /\ d.count = v
      /\ d.future = c.future /\ d.exact = c.exact
  <2>1. d = [c EXCEPT !.count = v, !.age = a]
    BY <1>1, <1>2, <1>3 DEF CatchUp, InRange, IsTimer, Fields
  <2> QED BY <2>1 DEF InRange, IsTimer, Fields
<1>5. /\ Returns(d) <=> Returns(c)
      /\ Past(d, v) <=> Past(c, v)
      /\ Left(d, v) = Left(c, v)
  BY <1>4 DEF Returns, Past, Left
<1>6. PICK e : e = cpuTestTarget(d)
  OBVIOUS
<1>7. /\ InRange(e) /\ e.mode = c.mode /\ e.target = c.target /\ e.age = a
      /\ e.count = Left(c, v)
      /\ e.future = IF Past(c, v) THEN ~Returns(c) ELSE c.future
      /\ SameExact(c.exact, e.exact) /\ e.exact.overflow = c.exact.overflow
      /\ e.exact.target = c.exact.target - One(Past(c, v) /\ c.mode.targetInt /\ c.exact.on)
  BY <1>4, <1>5, <1>6, TestTargetIs
<1>8. PICK u : u = cpuTestOverflow(e)
  OBVIOUS
<1>9. LET o == Left(c, v) >= Wrap IN
      /\ InRange(u) /\ u.mode = c.mode /\ u.target = c.target /\ u.age = a
      /\ u.count = IF o THEN Left(c, v) - Wrap ELSE Left(c, v)
      /\ u.future = IF o THEN FALSE ELSE e.future
      /\ SameExact(e.exact, u.exact) /\ u.exact.target = e.exact.target
      /\ u.exact.overflow = c.exact.overflow - One(o /\ c.mode.overflowInt /\ c.exact.on)
  <2>1. e.exact \in Exact /\ e.exact.on = c.exact.on
    BY <1>7 DEF SameExact
  <2>2. LET p == e.count >= Wrap IN
        /\ InRange(u) /\ u.mode = e.mode /\ u.target = e.target /\ u.age = e.age
        /\ u.count = IF p THEN e.count - Wrap ELSE e.count
        /\ u.future = IF p THEN FALSE ELSE e.future
        /\ SameExact(e.exact, u.exact) /\ u.exact.target = e.exact.target
        /\ u.exact.overflow = e.exact.overflow - One(p /\ e.mode.overflowInt /\ e.exact.on)
    BY <1>7, <1>8, <2>1, TestOverflowIs
  <2>3. One(e.count >= Wrap /\ e.mode.overflowInt /\ e.exact.on)
          = One(Left(c, v) >= Wrap /\ c.mode.overflowInt /\ c.exact.on)
    BY <1>7, <2>1
  <2> QED BY <1>7, <2>2, <2>3
<1>10. u = Update(c)
  BY <1>3, <1>6, <1>8 DEF Update, Ticking
<1>11. SameExact(c.exact, u.exact)
  BY <1>7, <1>9 DEF SameExact
<1>12. Left(c, v) \in Nat
  BY <1>7 DEF InRange
<1>13. LET o == Left(c, v) >= Wrap IN
       /\ u.future = IF o THEN FALSE ELSE IF Past(c, v) THEN ~Returns(c) ELSE c.future
       /\ u.exact.target = c.exact.target - One(Past(c, v) /\ c.mode.targetInt /\ c.exact.on)
  BY <1>7, <1>9
<1> QED BY <1>1, <1>2, <1>9, <1>10, <1>11, <1>12, <1>13, Zenon

(* After an update the timer has raised what it owed, or owes one target less: *)
(* if no target was missed by as much as an overflow.                          *)
LEMMA UpdateTracks ==
  ASSUME NEW c, InRange(c), Ticking(c), ~Endless(c), c.exact.on, Shows(c, c.exact, c.age),
         rcntRcount(c) < 2 * Wrap,
         Returns(c) /\ ~c.future => rcntRcount(c) < Wrap + c.target
  PROVE  LET u == Update(c) IN
         /\ Tracks(u, u.exact, u.count) /\ u.exact.target >= 0 /\ u.exact.overflow >= 0
         /\ u.count < Wrap
<1>1. PICK u, v, w : u = Update(c) /\ v = rcntRcount(c) /\ w = Left(c, v)
  OBVIOUS
<1>2. PICK e, f : e = c.exact /\ f = u.exact
  OBVIOUS
<1>3. e \in Exact /\ e.target >= 0 /\ e.overflow >= 0 /\ Tracks(c, e, v) /\ e.on = TRUE
  BY <1>1, <1>2, ReadIs DEF Shows, Exact
<1>4. /\ v \in Nat /\ w \in Nat
      /\ u.mode = c.mode /\ u.target = c.target /\ u.future \in BOOLEAN
      /\ u.count = IF w >= Wrap THEN w - Wrap ELSE w
      /\ u.future = IF w >= Wrap THEN FALSE ELSE IF Past(c, v) THEN ~Returns(c) ELSE c.future
      /\ f.count = e.count
      /\ f.target = e.target - One(Past(c, v) /\ c.mode.targetInt)
      /\ f.overflow = e.overflow - One(w >= Wrap /\ c.mode.overflowInt)
  <2>1. c.exact \in Exact
    BY <1>2, <1>3
  <2>2. /\ SameExact(e, f)
        /\ f.target = e.target - One(Past(c, v) /\ c.mode.targetInt /\ e.on)
        /\ f.overflow = e.overflow - One(w >= Wrap /\ c.mode.overflowInt /\ e.on)
        /\ v \in Nat /\ w \in Nat
        /\ u.mode = c.mode /\ u.target = c.target /\ InRange(u)
        /\ u.count = IF w >= Wrap THEN w - Wrap ELSE w
        /\ u.future = IF w >= Wrap THEN FALSE ELSE IF Past(c, v) THEN ~Returns(c) ELSE c.future
    BY <1>1, <1>2, <2>1, UpdateIs
  <2> QED BY <1>3, <2>2 DEF SameExact, InRange
<1>5. /\ e.count \in 0 .. Wrap - 1 /\ e.target \in Int /\ e.overflow \in Int
      /\ c.target \in 0 .. Wrap - 1 /\ Wrap \in Nat /\ Wrap >= 1
      /\ c.future \in BOOLEAN /\ c.mode.zeroReturn \in BOOLEAN /\ c.mode.targetInt \in BOOLEAN
      /\ c.mode.overflowInt \in BOOLEAN
  BY <1>3, WrapIsPositive DEF Exact, InRange, IsTimer, Mode
<1>6. v < 2 * Wrap /\ (Returns(c) /\ ~c.future => v < Wrap + c.target)
  BY <1>1
<1>7. Returns(u) <=> Returns(c)
  BY <1>4 DEF Returns
<1>8. CASE c.future /\ v < Wrap
  <2>1. w = v /\ ~Past(c, v)
    BY <1>1, <1>8 DEF Left, Past
  <2>2. u.count = v /\ u.future = TRUE /\ f.target = e.target /\ f.overflow = e.overflow
    BY <1>4, <1>5, <1>8, <2>1 DEF One
  <2>3. c.target <= v /\ e.count = v /\ e.target = 0 /\ e.overflow = 0
    BY <1>3, <1>8 DEF Tracks
  <2> QED BY <1>1, <1>2, <1>4, <1>5, <1>8, <2>2, <2>3 DEF Tracks
<1>9. CASE ~(c.future /\ v < Wrap) /\ Returns(c)
  <2>1. /\ (IF c.future THEN v - Wrap ELSE v) = e.target * c.target + e.count
        /\ e.count < c.target
        /\ e.overflow = One(c.future /\ c.mode.overflowInt)
    BY <1>3, <1>9 DEF Tracks
  <2>2. PICK p \in Int : p = e.target * c.target
    BY <1>5
  <2>3. c.mode.targetInt = TRUE /\ c.mode.zeroReturn = TRUE
    BY <1>5, <1>9 DEF Returns
  <2>4. CASE c.future
    <3>1. w = v /\ ~Past(c, v)
      BY <1>1, <2>4 DEF Left, Past
    <3>2. u.count = v - Wrap /\ u.future = FALSE /\ f.target = e.target /\ f.overflow = 0 /\ f.count = e.count
      BY <1>4, <1>5, <1>9, <2>1, <2>4, <3>1 DEF One
    <3>3. Tracks(u, f, u.count)
      <4>1. u.count = f.target * u.target + f.count /\ f.count < u.target
        BY <1>4, <1>5, <2>1, <2>4, <3>2
      <4> QED BY <1>7, <1>9, <3>2, <4>1 DEF Tracks, One
    <3> QED BY <1>1, <1>2, <1>3, <1>4, <1>5, <1>6, <3>2, <3>3
  <2>5. CASE ~c.future /\ v < c.target
    <3>1. w = v /\ ~Past(c, v)
      BY <1>1, <1>4, <1>5, <2>5 DEF Left, Past
    <3>2. u.count = v /\ u.future = FALSE /\ f.target = e.target /\ f.overflow = 0 /\ f.count = e.count
      BY <1>4, <1>5, <2>1, <2>5, <3>1 DEF One
    <3>3. Tracks(u, f, u.count)
      <4>1. u.count = f.target * u.target + f.count /\ f.count < u.target
        BY <1>4, <2>1, <2>5, <3>2
      <4> QED BY <1>7, <1>9, <3>2, <4>1 DEF Tracks, One
    <3> QED BY <1>1, <1>2, <1>3, <1>4, <1>5, <1>6, <2>5, <3>2, <3>3
  <2>6. CASE ~c.future /\ v >= c.target
    <3>1. w = v - c.target /\ Past(c, v) /\ w < Wrap
      BY <1>1, <1>4, <1>5, <1>6, <1>9, <2>6 DEF Left, Past
    <3>2. u.count = w /\ u.future = FALSE /\ f.target = e.target - 1 /\ f.overflow = 0 /\ f.count = e.count
      BY <1>4, <1>5, <1>9, <2>1, <2>3, <2>6, <3>1 DEF One
    <3>3. e.target >= 1
      <4>1. e.target = 0 => p = 0
        BY <1>5, <2>2
      <4> QED BY <1>3, <1>4, <1>5, <2>1, <2>2, <2>6, <4>1
    <3>4. Tracks(u, f, u.count)
      <4>1. f.target * u.target = p - c.target
        BY <1>4, <1>5, <2>2, <3>2
      <4>2. u.count = p - c.target + f.count /\ f.count < u.target
        BY <1>4, <1>5, <2>1, <2>2, <2>6, <3>1, <3>2
      <4>3. u.count = f.target * u.target + f.count
        BY <4>1, <4>2
      <4> QED BY <1>7, <1>9, <3>2, <4>2, <4>3 DEF Tracks, One
    <3> QED BY <1>1, <1>2, <1>5, <3>1, <3>2, <3>3, <3>4
  <2> QED BY <1>4, <1>5, <2>4, <2>5, <2>6
<1>10. CASE ~(c.future /\ v < Wrap) /\ ~Returns(c)
  <2>1. /\ e.count = IF v < Wrap THEN v ELSE v - Wrap
        /\ e.overflow = One(v >= Wrap /\ c.mode.overflowInt)
        /\ e.target = One(c.mode.targetInt /\ ~c.future /\ v >= c.target)
                        + One(c.mode.targetInt /\ v >= Wrap /\ v - Wrap >= c.target)
    BY <1>3, <1>10 DEF Tracks
  <2>2. w = v
    BY <1>1, <1>10 DEF Left
  <2>3. CASE v >= Wrap
    <3>1. u.count = v - Wrap /\ u.future = FALSE /\ f.overflow = 0 /\ f.count = v - Wrap
      BY <1>4, <1>5, <2>1, <2>2, <2>3 DEF One
    <3>2. f.target = One(c.mode.targetInt /\ v - Wrap >= c.target)
      <4>1. Past(c, v) <=> ~c.future
        BY <1>4, <1>5, <2>3 DEF Past
      <4> QED BY <1>4, <1>5, <2>1, <2>3, <4>1 DEF One
    <3>3. u.count < Wrap
      BY <1>4, <1>5, <1>6, <3>1
    <3>4. Tracks(u, f, u.count)
      BY <1>4, <1>5, <1>7, <1>10, <3>1, <3>2, <3>3 DEF Tracks, One
    <3> QED BY <1>1, <1>2, <3>1, <3>2, <3>3, <3>4 DEF One
  <2>4. CASE v < Wrap
    <3>1. ~c.future /\ u.count = v /\ f.overflow = 0 /\ f.count = v
      BY <1>4, <1>5, <1>10, <2>1, <2>2, <2>4 DEF One
    <3>2. f.target = 0 /\ u.future \in BOOLEAN /\ (u.future <=> v >= c.target)
      <4>1. Past(c, v) <=> v >= c.target
        BY <3>1 DEF Past
      <4>2. e.target = One(c.mode.targetInt /\ v >= c.target)
        BY <1>4, <1>5, <2>1, <2>4, <3>1 DEF One
      <4>3. f.target = 0
        BY <1>4, <1>5, <4>1, <4>2 DEF One
      <4>4. CASE Past(c, v)
        <5>1. u.future
          <6>1. ~(w >= Wrap)
            BY <1>4, <1>5, <2>2, <2>4
          <6>2. u.future = ~Returns(c)
            BY <1>4, <4>4, <6>1, Zenon
          <6> QED BY <1>10, <6>2, Zenon
        <5> QED BY <1>4, <4>1, <4>3, <4>4, <5>1
      <4>5. CASE ~Past(c, v)
        <5>1. ~u.future
          BY <1>4, <1>5, <1>10, <2>2, <2>4, <3>1, <4>5
        <5> QED BY <1>4, <4>1, <4>3, <4>5, <5>1
      <4> QED BY <4>4, <4>5
    <3>3. Tracks(u, f, u.count)
      BY <1>4, <1>5, <1>7, <1>10, <2>4, <3>1, <3>2 DEF Tracks, One, Past
    <3> QED BY <1>1, <1>2, <2>4, <3>1, <3>2, <3>3
  <2> QED BY <1>4, <1>5, <2>3, <2>4
<1> QED BY <1>8, <1>9, <1>10

(* What software has written of a timer decides how far its returns are apart. *)
Kind(m) == <<m.clock, m.zeroReturn, m.targetInt>>
SameKind(c, d) == d.target = c.target /\ Kind(d.mode) = Kind(c.mode)

LEMMA OffIs == Off \in Exact /\ ~Off.on /\ Off.target = 0 /\ Off.overflow = 0
BY WrapIsPositive DEF Off, Exact

(* An update that comes in time leaves the exact counter, and owes less. *)
LEMMA UpdateIsSound ==
  ASSUME NEW c, Sound(c),
         c.exact.on => /\ rcntRcount(c) < 2 * Wrap
                       /\ Returns(c) /\ ~c.future => rcntRcount(c) < Wrap + c.target
  PROVE  LET u == Update(c) IN
         /\ Sound(u) /\ u.target = c.target /\ u.mode = c.mode /\ u.exact.on = c.exact.on
         /\ u.exact.on => u.count < Wrap
<1>1. IsTimer(c) /\ InRange(c) /\ c.exact \in Exact
  BY DEF Sound, InRange
<1>2. CASE Ticking(c)
  <2>1. PICK u : u = Update(c)
    OBVIOUS
  <2>2. PICK r \in Nat \ {0} : r = Rate(c)
    BY <1>1, <1>2, RateIsPositive
  <2>3. /\ InRange(u) /\ u.mode = c.mode /\ u.target = c.target /\ u.age = c.age % r
        /\ SameExact(c.exact, u.exact)
        /\ u.exact.target = c.exact.target
             - One(Past(c, rcntRcount(c)) /\ c.mode.targetInt /\ c.exact.on)
        /\ u.exact.overflow = c.exact.overflow
             - One(Left(c, rcntRcount(c)) >= Wrap /\ c.mode.overflowInt /\ c.exact.on)
    BY <1>1, <1>2, <2>1, <2>2, UpdateIs
  <2>4. CASE c.exact.on
    <3>1. Ticking(c) /\ ~Endless(c) /\ Shows(c, c.exact, c.age)
      BY <2>4 DEF Sound
    <3>2. /\ Tracks(u, u.exact, u.count) /\ u.exact.target >= 0 /\ u.exact.overflow >= 0
          /\ u.count < Wrap
      BY <1>1, <2>1, <2>4, <3>1, UpdateTracks
    <3>3. Ticking(u) /\ ~Endless(u) /\ Rate(u) = r
      BY <2>2, <2>3, <3>1 DEF Ticking, Endless, Rate
    <3>4. u.age % r = u.age /\ u.age \div r = 0
      <4>1. c.age \in Nat /\ c.age % r \in 0 .. r - 1
        BY <1>1 DEF InRange
      <4>2. u.age \in Nat /\ u.age = 0 * r + u.age /\ u.age \in 0 .. r - 1
        BY <2>3, <4>1
      <4> QED BY <4>2, DivisionUnique
    <3>5. u.count + u.age \div r = u.count
      BY <2>3, <3>4 DEF InRange
    <3>6. u.exact.phase = u.age % r
      BY <2>2, <2>3, <3>1, <3>4 DEF SameExact, Shows
    <3>7. Shows(u, u.exact, u.age)
      BY <2>3, <3>2, <3>3, <3>5, <3>6 DEF Shows, SameExact
    <3>8. Sound(u)
      BY <2>3, <2>4, <3>3, <3>7 DEF Sound, SameExact
    <3> QED BY <2>1, <2>3, <3>2, <3>8 DEF SameExact
  <2>5. CASE ~c.exact.on
    <3>1. c.exact.target = 0 /\ c.exact.overflow = 0
      BY <2>5 DEF Sound
    <3>2. u.exact.target = 0 /\ u.exact.overflow = 0
      <4>1. /\ One(Past(c, rcntRcount(c)) /\ c.mode.targetInt /\ c.exact.on) = 0
            /\ One(Left(c, rcntRcount(c)) >= Wrap /\ c.mode.overflowInt /\ c.exact.on) = 0
        BY <2>5 DEF One
      <4> QED BY <2>3, <3>1, <4>1
    <3>3. Sound(u)
      BY <2>3, <2>5, <3>2 DEF Sound, SameExact
    <3> QED BY <2>1, <2>3, <2>5, <3>3 DEF SameExact
  <2> QED BY <2>4, <2>5
<1>3. CASE ~Ticking(c)
  <2>1. ~c.exact.on
    BY <1>3 DEF Sound
  <2>2. Update(c) = c \/ Update(c) = [c EXCEPT !.age = 0]
    BY <1>3 DEF Update, Ticking
  <2>3. CASE Update(c) = c
    BY <2>1, <2>3
  <2>4. CASE Update(c) = [c EXCEPT !.age = 0]
    <3>1. PICK u : u = Update(c)
      OBVIOUS
    <3>2. InRange(u) /\ u.mode = c.mode /\ u.target = c.target /\ u.exact = c.exact
      BY <1>1, <2>4, <3>1 DEF InRange, IsTimer, Fields
    <3>3. Sound(u)
      BY <2>1, <3>2 DEF Sound
    <3> QED BY <2>1, <3>1, <3>2, <3>3
  <2> QED BY <2>2, <2>3, <2>4
<1> QED BY <1>2, <1>3

(* A handler that does not follow the timer further. *)
StillSound(c, d) == Sound(d) /\ SameKind(c, d) /\ (d = c \/ ~d.exact.on)

LEMMA HblankTickIsSound ==
  ASSUME NEW c, Sound(c)
  PROVE  StillSound(c, HblankTick(c))
<1>1. IsTimer(c) /\ InRange(c) /\ c.exact \in Exact
  BY DEF Sound, InRange
<1>2. CASE c.mode.counting /\ c.mode.clock = External
  <2>1. ~c.exact.on /\ c.exact.target = 0 /\ c.exact.overflow = 0
    BY <1>2 DEF Sound, Ticking
  <2>2. PICK k \in Nat : k = c.count + 1
    BY <1>1 DEF InRange
  <2>3. PICK d : d = [c EXCEPT !.count = k]
    OBVIOUS
  <2>4. InRange(d) /\ d.mode = c.mode /\ d.target = c.target /\ d.exact = c.exact
    BY <1>1, <2>2, <2>3 DEF InRange, IsTimer, Fields
  <2>5. PICK e : e = cpuTestTarget(d)
    OBVIOUS
  <2>6. /\ InRange(e) /\ e.mode = c.mode /\ e.target = c.target /\ SameExact(c.exact, e.exact)
        /\ e.exact.target = 0 /\ e.exact.overflow = 0
    BY <1>1, <2>1, <2>4, <2>5, TestTargetIs DEF One
  <2>7. PICK f : f = cpuTestOverflow(e)
    OBVIOUS
  <2>8. e.exact \in Exact /\ ~e.exact.on
    BY <2>1, <2>6 DEF SameExact
  <2>9. /\ InRange(f) /\ f.mode = c.mode /\ f.target = c.target /\ SameExact(e.exact, f.exact)
        /\ f.exact.target = 0 /\ f.exact.overflow = 0
    <3>1. One(e.count >= Wrap /\ e.mode.overflowInt /\ e.exact.on) = 0
      BY <2>8 DEF One
    <3>2. /\ InRange(f) /\ f.mode = e.mode /\ f.target = e.target /\ SameExact(e.exact, f.exact)
          /\ f.exact.target = e.exact.target
          /\ f.exact.overflow
               = e.exact.overflow - One(e.count >= Wrap /\ e.mode.overflowInt /\ e.exact.on)
      BY <2>6, <2>7, <2>8, TestOverflowIs
    <3> QED BY <2>6, <3>1, <3>2
  <2>10. Sound(f) /\ ~f.exact.on
    BY <2>8, <2>9 DEF Sound, SameExact
  <2>11. f = HblankTick(c)
    <3>1. [c EXCEPT !.count = @ + 1] = d
      BY <1>1, <2>2, <2>3 DEF InRange, IsTimer, Fields
    <3> QED BY <1>2, <2>5, <2>7, <3>1 DEF HblankTick
  <2> QED BY <2>9, <2>10, <2>11 DEF StillSound, SameKind
<1>3. CASE ~(c.mode.counting /\ c.mode.clock = External)
  BY <1>3 DEF HblankTick, StillSound, SameKind
<1> QED BY <1>2, <1>3

(* Gates start and stop timers, and none of those is followed. *)
LEMMA GatesAreSound ==
  ASSUME NEW c, Sound(c), NEW edge \in Nat
  PROVE  /\ StillSound(c, StartGate(c, edge))
         /\ StillSound(c, EndGate(c, edge))
         /\ StillSound(c, rcntSetGate(c))
<1>1. IsTimer(c) /\ InRange(c) /\ c.exact \in Exact /\ c.mode.gateMode \in 0 .. 3
  BY DEF Sound, InRange, IsTimer, Mode
<1>2. StillSound(c, c)
  BY DEF StillSound, SameKind
<1>3. ASSUME NEW d, InRange(d), SameKind(c, d), d.exact = Off
      PROVE  StillSound(c, d)
  BY <1>3, OffIs DEF StillSound, Sound
<1>4. StillSound(c, Restart(c, edge))
  <2>1. PICK d : d = Restart(c, edge)
    OBVIOUS
  <2>2. InRange(d) /\ SameKind(c, d) /\ d.exact = Off
    BY <1>1, <2>1 DEF Restart, InRange, IsTimer, Fields, Mode, SameKind, Kind
  <2> QED BY <1>3, <2>1, <2>2
<1>5. StillSound(c, StartGate(c, edge))
  <2>1. CASE c.mode.gateMode = 0
    <3>1. PICK d : d = StartGate(c, edge)
      OBVIOUS
    <3>2. d = [c EXCEPT !.mode.counting = TRUE, !.age = edge, !.exact = Off]
      BY <2>1, <3>1 DEF StartGate
    <3>3. InRange(d) /\ SameKind(c, d) /\ d.exact = Off
      BY <1>1, <3>2 DEF InRange, IsTimer, Fields, Mode, SameKind, Kind
    <3> QED BY <1>3, <3>1, <3>3
  <2>2. CASE c.mode.gateMode = 2
    BY <1>2, <2>2 DEF StartGate
  <2>3. CASE c.mode.gateMode \in {1, 3}
    BY <1>4, <2>3 DEF StartGate
  <2> QED BY <1>1, <2>1, <2>2, <2>3
<1>6. StillSound(c, EndGate(c, edge))
  <2>1. CASE c.mode.gateMode = 0
    <3>1. PICK d, v : d = EndGate(c, edge) /\ v = rcntRcount(c)
      OBVIOUS
    <3>2. v \in Nat
      BY <1>1, <3>1, ReadIs DEF rcntRcount, InRange
    <3>3. d = [c EXCEPT !.count = v, !.mode.counting = FALSE, !.age = edge, !.exact = Off]
      BY <2>1, <3>1 DEF EndGate
    <3>4. InRange(d) /\ SameKind(c, d) /\ d.exact = Off
      BY <1>1, <3>2, <3>3 DEF InRange, IsTimer, Fields, Mode, SameKind, Kind
    <3> QED BY <1>3, <3>1, <3>4
  <2>2. CASE c.mode.gateMode = 1
    BY <1>2, <2>2 DEF EndGate
  <2>3. CASE c.mode.gateMode \in {2, 3}
    BY <1>4, <2>3 DEF EndGate
  <2> QED BY <1>1, <2>1, <2>2, <2>3
<1>7. StillSound(c, rcntSetGate(c))
  <2>1. CASE Gated(c.mode)
    <3>1. PICK d : d = rcntSetGate(c)
      OBVIOUS
    <3>2. d = [c EXCEPT !.mode.counting = FALSE, !.count = 0, !.age = 0, !.exact = Off]
      BY <2>1, <3>1 DEF rcntSetGate
    <3>3. InRange(d) /\ SameKind(c, d) /\ d.exact = Off
      BY <1>1, <3>2 DEF InRange, IsTimer, Fields, Mode, SameKind, Kind
    <3> QED BY <1>3, <3>1, <3>3
  <2>2. CASE ~Gated(c.mode)
    BY <1>2, <2>2 DEF rcntSetGate
  <2> QED BY <2>1, <2>2
<1> QED BY <1>5, <1>6, <1>7

(* A timer that is followed anew. *)
Anew(d) == Sound(d) /\ (d.exact.on => Ticking(d) /\ UpToDate(d))

LEMMA FollowIsAnew ==
  ASSUME NEW c, InRange(c)
  PROVE  Anew(Follow(c)) /\ Follow(c).target = c.target /\ Follow(c).mode = c.mode
<1>1. PICK f : f = Follow(c)
  OBVIOUS
<1>2. Sound(f) /\ SameNumbers(c, f) /\ f.age = c.age /\ (f.exact.on => Ticking(c) /\ UpToDate(c))
  BY <1>1, FollowIsSound
<1>3. Ticking(f) <=> Ticking(c)
  BY <1>2 DEF SameNumbers, Ticking
<1>4. rcntRcount(f) = rcntRcount(c)
  BY <1>2, <1>3 DEF SameNumbers, rcntRcount, Rate
<1>5. UpToDate(c) => UpToDate(f)
  BY <1>2, <1>4 DEF SameNumbers, UpToDate
<1> QED BY <1>1, <1>2, <1>3, <1>5 DEF Anew, SameNumbers

(* Writes of software, to any register at any moment. *)
LEMMA WritesAreSound ==
  ASSUME NEW c, Sound(c), NEW v \in 0 .. Wrap - 1, NEW m \in Mode
  PROVE  /\ Anew(rcntWcount(c, v)) /\ SameKind(c, rcntWcount(c, v))
         /\ /\ Anew(rcntWtarget(c, v)) /\ rcntWtarget(c, v).target = v
            /\ Kind(rcntWtarget(c, v).mode) = Kind(c.mode)
         /\ /\ Anew(rcntWmode(c, m)) /\ rcntWmode(c, m).target = c.target
            /\ Kind(rcntWmode(c, m).mode) = Kind(m)
<1>1. /\ IsTimer(c) /\ InRange(c) /\ c.exact \in Exact
      /\ c.count \in Nat /\ c.age \in Nat /\ c.target \in 0 .. Wrap - 1 /\ c.future \in BOOLEAN
      /\ Wrap \in Nat /\ v \in Nat
  BY WrapIsPositive DEF Sound, InRange
<1>2. Ticking(c) => c.age % Rate(c) \in Nat /\ rcntRcount(c) \in Nat
  <2>1. SUFFICES ASSUME Ticking(c) PROVE c.age % Rate(c) \in Nat /\ rcntRcount(c) \in Nat
    OBVIOUS
  <2>2. PICK r \in Nat \ {0} : r = Rate(c)
    BY <1>1, <2>1, RateIsPositive
  <2>3. c.age % r \in Nat
    BY <1>1
  <2> QED BY <1>1, <2>1, <2>2, <2>3, ReadIs
<1>3. Anew(rcntWcount(c, v)) /\ SameKind(c, rcntWcount(c, v))
  <2>1. PICK f, a : /\ f = (v > c.target)
                    /\ a = CASE ~c.mode.counting -> 0
                             [] Ticking(c) -> c.age % Rate(c)
                             [] OTHER -> c.age
    OBVIOUS
  <2>2. PICK d : d = [c EXCEPT !.count = v, !.future = f, !.age = a]
    OBVIOUS
  <2>3. rcntWcount(c, v) = Follow(d)
    BY <2>1, <2>2 DEF rcntWcount
  <2>4. a \in Nat /\ f \in BOOLEAN
    BY <1>1, <1>2, <2>1
  <2>5. InRange(d) /\ d.mode = c.mode /\ d.target = c.target
    BY <1>1, <2>2, <2>4 DEF InRange, IsTimer, Fields
  <2> QED BY <2>3, <2>5, FollowIsAnew DEF SameKind
<1>4. /\ Anew(rcntWtarget(c, v)) /\ rcntWtarget(c, v).target = v
      /\ Kind(rcntWtarget(c, v).mode) = Kind(c.mode)
  <2>1. PICK f : f = (v <= rcntRcount(c))
    OBVIOUS
  <2>2. PICK d : d = [c EXCEPT !.target = v, !.future = f]
    OBVIOUS
  <2>3. rcntWtarget(c, v) = Follow(d)
    BY <2>1, <2>2 DEF rcntWtarget
  <2>4. f \in BOOLEAN
    BY <2>1
  <2>5. InRange(d) /\ d.mode = c.mode /\ d.target = v
    BY <1>1, <2>2, <2>4 DEF InRange, IsTimer, Fields
  <2> QED BY <2>3, <2>5, FollowIsAnew
<1>5. /\ Anew(rcntWmode(c, m)) /\ rcntWmode(c, m).target = c.target
      /\ Kind(rcntWmode(c, m).mode) = Kind(m)
  <2>1. PICK s : s = CASE ~c.mode.counting -> [c EXCEPT !.age = 0]
                       [] Ticking(c) -> CatchUp(c)
                       [] OTHER -> c
    OBVIOUS
  <2>2. InRange(s) /\ s.target = c.target /\ s.exact = c.exact
    <3>1. CASE ~c.mode.counting
      <4>1. s = [c EXCEPT !.age = 0]
        BY <2>1, <3>1 DEF Ticking
      <4> QED BY <1>1, <4>1 DEF InRange, IsTimer, Fields
    <3>2. CASE Ticking(c)
      <4>1. PICK w, a : w = rcntRcount(c) /\ a = c.age % Rate(c) /\ w \in Nat /\ a \in Nat
        BY <1>2, <3>2
      <4>2. s = [c EXCEPT !.count = w, !.age = a]
        BY <1>1, <2>1, <3>2, <4>1 DEF Ticking, CatchUp, IsTimer, Fields
      <4> QED BY <1>1, <4>1, <4>2 DEF InRange, IsTimer, Fields
    <3>3. CASE c.mode.counting /\ ~Ticking(c)
      <4>1. s = c
        BY <2>1, <3>3
      <4> QED BY <1>1, <4>1
    <3> QED BY <3>1, <3>2, <3>3
  <2>3. PICK d : d = [s EXCEPT !.mode = m]
    OBVIOUS
  <2>4. rcntWmode(c, m) = Follow(rcntSetGate(d))
    BY <2>1, <2>3 DEF rcntWmode
  <2>5. InRange(d) /\ d.target = c.target /\ d.mode = m
    BY <2>2, <2>3 DEF InRange, IsTimer, Fields
  <2>6. PICK g : g = rcntSetGate(d)
    OBVIOUS
  <2>7. InRange(g) /\ g.target = c.target /\ Kind(g.mode) = Kind(m)
    <3>1. CASE Gated(m)
      <4>1. g = [d EXCEPT !.mode.counting = FALSE, !.count = 0, !.age = 0, !.exact = Off]
        BY <2>5, <2>6, <3>1 DEF rcntSetGate
      <4> QED BY <2>5, <4>1 DEF InRange, IsTimer, Fields, Mode, Kind
    <3>2. CASE ~Gated(m)
      BY <2>5, <2>6, <3>2 DEF rcntSetGate
    <3> QED BY <3>1, <3>2
  <2> QED BY <2>4, <2>6, <2>7, FollowIsAnew
<1> QED BY <1>3, <1>4, <1>5

-----------------------------------------------------------------------------
(* The time of updates. *)

(* The timing: when a timer that is followed is updated at the latest. *)
Event(c) == IF c.future THEN Wrap ELSE c.target
Slack(c) == eeWaitCycles + Rate(c) - 1
OverflowIn(c, age) == (Wrap - c.count) * Rate(c) - c.age + age
Deadline(c, age) == IF Soon >= DueIn(c, age) + Slack(c) THEN Soon ELSE DueIn(c, age) + Slack(c)

InTime(c, age, next, wait, run) ==
  /\ Meets(next, DueIn(c, age))
  /\ age < Deadline(c, age) + MaxBlock
  /\ age + wait <= Deadline(c, age)
  /\ run # "block" => age < Deadline(c, age)
  /\ OverflowIn(c, age) > 0
  /\ Returns(c) => DueIn(c, age) + Slack(c) >= 0

(* Targets that a timer returns from are a block away. *)
LongTarget(c) == Returns(c) /\ c.target # 0 => MaxBlock + Soon <= c.target * Rate(c) + 1

LEMMA DueIs ==
  ASSUME NEW c, InRange(c), Ticking(c), NEW age \in Int
  PROVE  /\ DueIn(c, age) = (Event(c) - c.count) * Rate(c) - c.age + age
         /\ DueIn(c, age) \in Int /\ OverflowIn(c, age) \in Int
         /\ DueIn(c, age) <= OverflowIn(c, age)
<1>1. PICK r \in Nat \ {0} : r = Rate(c)
  BY RateIsPositive DEF InRange
<1>2. /\ c.count \in Int /\ c.age \in Int /\ c.target \in Int /\ c.target <= Wrap /\ Wrap \in Int
      /\ c.future \in BOOLEAN
  BY WrapIsPositive DEF InRange
<1>3. PICK w, t : w = (Wrap - c.count) * r - c.age + age /\ t = (c.target - c.count) * r - c.age + age
  OBVIOUS
<1>4. w \in Int /\ t \in Int /\ t <= w
  <2>1. c.target - c.count \in Int /\ Wrap - c.count \in Int /\ c.target - c.count <= Wrap - c.count
    BY <1>2
  <2>2. /\ (c.target - c.count) * r \in Int /\ (Wrap - c.count) * r \in Int
        /\ (c.target - c.count) * r <= (Wrap - c.count) * r
    BY <2>1, ProductMonotone
  <2> QED BY <1>2, <1>3, <2>2
<1>5. OverflowIn(c, age) = w
  BY <1>1, <1>3 DEF OverflowIn
<1>6. DueIn(c, age) = Min({w} \cup IF c.future THEN {} ELSE {t})
  BY <1>1, <1>3 DEF DueIn
<1>7. CASE c.future
  <2>1. {w} \cup (IF c.future THEN {} ELSE {t}) = {w}
    BY <1>7
  <2>2. Min({w}) \in {w}
    BY <1>4, MinIsLeast
  <2>3. (Event(c) - c.count) * Rate(c) - c.age + age = w
    BY <1>1, <1>3, <1>7 DEF Event
  <2>4. DueIn(c, age) = w
    BY <1>6, <2>1, <2>2
  <2> QED BY <1>4, <1>5, <2>3, <2>4
<1>8. CASE ~c.future
  <2>1. {w} \cup (IF c.future THEN {} ELSE {t}) = {w, t}
    BY <1>8
  <2>2. Min({w, t}) \in {w, t} /\ Min({w, t}) <= t
    <3>1. \A y \in {w, t} : t <= y
      BY <1>4
    <3> QED BY <1>4, <3>1, MinIsLeast
  <2>3. Min({w, t}) = t
    <3>1. \A y \in {w, t} : Min({w, t}) <= y
      BY <1>4, MinIsLeast
    <3> QED BY <1>4, <2>2, <3>1
  <2>4. (Event(c) - c.count) * Rate(c) - c.age + age = t
    BY <1>1, <1>3, <1>8 DEF Event
  <2>5. DueIn(c, age) = t
    BY <1>6, <2>1, <2>3
  <2> QED BY <1>4, <1>5, <2>4, <2>5
<1> QED BY <1>7, <1>8

(* What the constants say of a timer with r cycles to a tick. *)
LEMMA LapIs ==
  ASSUME NEW r \in Nat \ {0}
  PROVE  /\ eeWaitCycles \in Nat /\ eeWaitCycles >= 1 /\ Soon \in Nat /\ Soon >= 1 /\ Soon <= eeWaitCycles
         /\ MaxBlock \in Nat /\ MaxBlock >= 1 /\ Wrap \in Nat /\ Wrap * r \in Int
         /\ eeWaitCycles + Soon + MaxBlock + (r - 1) <= Wrap * r
<1>1. /\ eeWaitCycles \in Nat /\ eeWaitCycles >= 1 /\ Soon \in Nat /\ Soon >= 1 /\ Soon <= eeWaitCycles
      /\ MaxBlock \in Nat /\ MaxBlock >= 1 /\ Wrap \in Nat /\ Wrap >= 1
      /\ eeWaitCycles + Soon + MaxBlock <= Wrap
  BY EeCountersAssumption, LapAssumption, WrapIsPositive
<1>2. Wrap * r \in Int /\ (Wrap - 1) * (r - 1) \in Nat /\ (Wrap - 1) * (r - 1) = Wrap * r - Wrap - r + 1
  <2>1. PICK w \in Nat : w = Wrap - 1
    BY <1>1
  <2>2. PICK s \in Nat : s = r - 1
    OBVIOUS
  <2>3. w * s \in Nat
    OBVIOUS
  <2>4. Wrap * r = (w + 1) * (s + 1)
    BY <1>1, <2>1, <2>2
  <2>5. (w + 1) * (s + 1) = w * s + w + s + 1
    OBVIOUS
  <2> QED BY <1>1, <2>1, <2>2, <2>3, <2>4, <2>5
<1> QED BY <1>1, <1>2

(* A timer in time is read before it counts round twice, and one that returns   *)
(* to zero before it is an overflow late.                                     *)
LEMMA InTimeIsRead ==
  ASSUME NEW c, InRange(c), Ticking(c), NEW age \in Nat, OverflowIn(c, age) > 0,
         age < Deadline(c, age) + MaxBlock,
         Returns(c) => DueIn(c, age) + Slack(c) >= 0
  PROVE  /\ c.age < (2 * Wrap - c.count) * Rate(c)
         /\ rcntRcount(c) < 2 * Wrap
         /\ age - OverflowIn(c, age) < Slack(c) + MaxBlock
         /\ Returns(c) => age - DueIn(c, age) < Slack(c) + Soon + MaxBlock
         /\ Returns(c) /\ ~c.future => rcntRcount(c) < Wrap + c.target
<1>1. PICK r \in Nat \ {0} : r = Rate(c)
  BY RateIsPositive DEF InRange
<1>2. /\ c.count \in Nat /\ c.age \in Nat /\ c.target \in 0 .. Wrap - 1 /\ c.future \in BOOLEAN
      /\ Wrap \in Nat
  BY WrapIsPositive DEF InRange
<1>3. PICK D \in Int, O \in Int : /\ D = DueIn(c, age) /\ O = OverflowIn(c, age) /\ D <= O
  BY DueIs
<1>4. /\ eeWaitCycles \in Nat /\ eeWaitCycles >= 1 /\ Soon \in Nat /\ Soon >= 1 /\ Soon <= eeWaitCycles
      /\ MaxBlock \in Nat /\ MaxBlock >= 1 /\ Wrap * r \in Int
      /\ eeWaitCycles + Soon + MaxBlock + (r - 1) <= Wrap * r
  BY LapIs
<1>5. PICK S \in Int : S = Slack(c) /\ S = eeWaitCycles + r - 1
  BY <1>1, <1>4 DEF Slack
<1>6. O > 0 /\ age < (IF Soon >= D + S THEN Soon ELSE D + S) + MaxBlock
  BY <1>3, <1>5 DEF Deadline
<1>7. age - O < S + MaxBlock
  BY <1>3, <1>4, <1>5, <1>6
<1>8. Returns(c) => age - D < S + Soon + MaxBlock
  <2>1. SUFFICES ASSUME D + S >= 0 PROVE age - D < S + Soon + MaxBlock
    BY <1>3, <1>5
  <2> QED BY <1>3, <1>4, <1>5, <1>6, <2>1
<1>9. age - O < Wrap * r
  BY <1>3, <1>4, <1>5, <1>7
<1>10. c.age < (2 * Wrap - c.count) * r
  <2>1. PICK a \in Int : a = (Wrap - c.count) * r
    BY <1>2
  <2>2. O = a - c.age + age
    BY <1>1, <1>3, <2>1 DEF OverflowIn
  <2>3. (2 * Wrap - c.count) * r = a + Wrap * r
    <3>1. PICK x \in Int : x = Wrap - c.count
      BY <1>2
    <3>2. 2 * Wrap - c.count = x + Wrap
      BY <1>2, <3>1
    <3>3. (x + Wrap) * r = x * r + Wrap * r
      BY <1>2
    <3> QED BY <2>1, <3>1, <3>2, <3>3
  <2> QED BY <1>2, <1>4, <1>9, <2>1, <2>2, <2>3
<1>11. rcntRcount(c) < 2 * Wrap
  BY <1>1, <1>2, <1>10, ReadIs
<1>12. ASSUME Returns(c), ~c.future
       PROVE  rcntRcount(c) < Wrap + c.target
  <2>1. PICK a \in Int : a = (c.target - c.count) * r
    BY <1>2
  <2>2. D = a - c.age + age
    BY <1>1, <1>3, <1>12, <2>1, DueIs DEF Event
  <2>3. PICK x \in Int : x = Wrap + c.target
    BY <1>2
  <2>4. (x - c.count) * r = a + Wrap * r
    <3>1. PICK y \in Int : y = c.target - c.count
      BY <1>2
    <3>2. x - c.count = y + Wrap
      BY <1>2, <2>3, <3>1
    <3>3. (y + Wrap) * r = y * r + Wrap * r
      BY <1>2
    <3> QED BY <2>1, <3>1, <3>2, <3>3
  <2>5. age - D < Wrap * r
    BY <1>3, <1>4, <1>5, <1>8, <1>12
  <2>6. c.age < a + Wrap * r
    BY <1>2, <1>3, <1>4, <2>2, <2>5
  <2>7. c.age < (x - c.count) * Rate(c)
    BY <1>1, <2>4, <2>6
  <2>8. rcntRcount(c) < x <=> c.age < (x - c.count) * Rate(c)
    BY ReadIs
  <2>9. rcntRcount(c) < x
    BY <2>7, <2>8, Zenon
  <2> QED BY <2>3, <2>9
<1> QED BY <1>1, <1>3, <1>5, <1>7, <1>8, <1>10, <1>11, <1>12

LEMMA SlackIs ==
  ASSUME NEW c, InRange(c), Ticking(c), NEW age \in Int
  PROVE  /\ Rate(c) \in Nat \ {0} /\ Slack(c) \in Int
         /\ Slack(c) = eeWaitCycles + Rate(c) - 1 /\ Slack(c) >= eeWaitCycles
         /\ eeWaitCycles \in Nat /\ eeWaitCycles >= 1
         /\ Deadline(c, age) \in Int
         /\ Deadline(c, age) >= Soon /\ Deadline(c, age) >= DueIn(c, age) + Slack(c)
         /\ Soon \in Nat /\ Soon >= 1 /\ MaxBlock \in Nat /\ MaxBlock >= 1
<1>1. PICK r \in Nat \ {0} : r = Rate(c)
  BY RateIsPositive DEF InRange
<1>2. eeWaitCycles \in Nat /\ eeWaitCycles >= 1 /\ Soon \in Nat /\ Soon >= 1 /\ MaxBlock \in Nat /\ MaxBlock >= 1
  BY <1>1, LapIs
<1>3. PICK S \in Int : S = Slack(c) /\ S = eeWaitCycles + r - 1 /\ S >= eeWaitCycles
  BY <1>1, <1>2 DEF Slack
<1>4. PICK D \in Int : D = DueIn(c, age)
  BY DueIs
<1>5. Deadline(c, age) = IF Soon >= D + S THEN Soon ELSE D + S
  BY <1>3, <1>4 DEF Deadline
<1> QED BY <1>1, <1>2, <1>3, <1>4, <1>5

(* A schedule that is kept leaves the timer in time. *)
LEMMA MeetsDeadline ==
  ASSUME NEW c, InRange(c), Ticking(c), NEW age \in Int, NEW next \in Int,
         Meets(next, DueIn(c, age))
  PROVE  next <= Deadline(c, age)
<1>1. PICK D \in Int, S \in Int, L \in Int :
        /\ D = DueIn(c, age) /\ S = Slack(c) /\ L = Deadline(c, age)
        /\ S >= eeWaitCycles /\ eeWaitCycles \in Nat /\ L >= Soon /\ L >= D + S /\ Soon \in Nat
  BY SlackIs, DueIs
<1>2. next <= Soon \/ next <= D
  BY <1>1 DEF Meets
<1> QED BY <1>1, <1>2

(* A timer that has just been updated, and the update scheduled after it. *)
LEMMA UpdatedInTime ==
  ASSUME NEW u, InRange(u), Ticking(u), OverflowIn(u, 0) > 0,
         Returns(u) => DueIn(u, 0) + Slack(u) >= 0,
         NEW next \in Int, Meets(next, DueIn(u, 0)), NEW wait \in Int, wait <= next, NEW run
  PROVE  InTime(u, 0, next, wait, run)
<1>1. PICK L \in Int : L = Deadline(u, 0) /\ L >= Soon
  BY SlackIs
<1>2. Soon \in Nat /\ Soon >= 1 /\ MaxBlock \in Nat
  BY SlackIs
<1>3. next <= L
  BY <1>1, MeetsDeadline
<1>4. 0 + wait <= L /\ 0 < L /\ 0 < L + MaxBlock
  BY <1>1, <1>2, <1>3
<1> QED BY <1>1, <1>4 DEF InTime

(* So is one that software has just written, up to the branch test that comes   *)
(* next.                                                                      *)
LEMMA AnewInTime ==
  ASSUME NEW d, InRange(d), Ticking(d), UpToDate(d), NEW age \in Nat,
         NEW next \in Int, Meets(next, DueIn(d, age)), NEW wait \in Int, wait <= eeWaitCycles, NEW run
  PROVE  InTime(d, age, next, wait, run)
<1>1. PICK r \in Nat \ {0}, S \in Int, L \in Int :
        /\ r = Rate(d) /\ S = Slack(d) /\ L = Deadline(d, age)
        /\ S = eeWaitCycles + r - 1 /\ L >= DueIn(d, age) + S
  BY SlackIs
<1>2. eeWaitCycles \in Nat /\ eeWaitCycles >= 1 /\ MaxBlock \in Nat
  BY SlackIs
<1>3. PICK D \in Int, O \in Int : D = DueIn(d, age) /\ O = OverflowIn(d, age) /\ D <= O
  BY DueIs
<1>4. /\ d.count \in Nat /\ d.age \in Nat /\ d.target \in 0 .. Wrap - 1 /\ d.future \in BOOLEAN
      /\ Wrap \in Nat
  BY WrapIsPositive DEF InRange
<1>5. rcntRcount(d) \in Nat /\ \A x \in Int : rcntRcount(d) < x <=> d.age < (x - d.count) * r
  BY <1>1, ReadIs
<1>6. O > age
  <2>1. d.age < (Wrap - d.count) * r
    BY <1>4, <1>5 DEF UpToDate
  <2>2. PICK a \in Int : a = (Wrap - d.count) * r
    BY <1>4
  <2>3. O = a - d.age + age
    BY <1>1, <1>3, <2>2 DEF OverflowIn
  <2> QED BY <1>4, <2>1, <2>2, <2>3
<1>7. D > age - r
  <2>1. CASE d.future
    <3>1. PICK a \in Int : a = (Wrap - d.count) * r
      BY <1>4
    <3>2. D = a - d.age + age
      BY <1>1, <1>3, <2>1, <3>1, DueIs DEF Event
    <3>3. O = a - d.age + age
      BY <1>1, <1>3, <3>1 DEF OverflowIn
    <3> QED BY <1>6, <3>2, <3>3
  <2>2. CASE ~d.future
    <3>1. PICK v \in Nat : v = rcntRcount(d)
      BY <1>5
    <3>2. v < d.target + 1
      BY <1>4, <2>2, <3>1 DEF UpToDate
    <3>3. d.age < (d.target + 1 - d.count) * r
      BY <1>4, <1>5, <3>1, <3>2
    <3>4. PICK a \in Int : a = (d.target - d.count) * r
      BY <1>4
    <3>5. (d.target + 1 - d.count) * r = a + r
      <4>1. PICK x \in Int : x = d.target - d.count
        BY <1>4
      <4>2. d.target + 1 - d.count = x + 1
        BY <1>4, <4>1
      <4>3. (x + 1) * r = x * r + r
        OBVIOUS
      <4> QED BY <3>4, <4>1, <4>2, <4>3
    <3>6. D = a - d.age + age
      BY <1>1, <1>3, <2>2, <3>4, DueIs DEF Event
    <3> QED BY <1>4, <3>3, <3>4, <3>5, <3>6
  <2> QED BY <1>4, <2>1, <2>2
<1>8. L >= D + S
  BY <1>1, <1>3
<1>9. /\ age < L + MaxBlock /\ age + wait <= L /\ age < L /\ O > 0 /\ D + S >= 0
  BY <1>1, <1>2, <1>6, <1>7, <1>8
<1> QED BY <1>1, <1>3, <1>9 DEF InTime

(* How late the overflow and the target of a timer are, which it is updated    *)
(* for: they are no later after the update.                                    *)
LEMMA UpdateInTime ==
  ASSUME NEW c, Sound(c), c.exact.on, LongTarget(c), NEW age \in Nat,
         OverflowIn(c, age) > 0, age < Deadline(c, age) + MaxBlock,
         Returns(c) => DueIn(c, age) + Slack(c) >= 0,
         NEW next \in Int, Meets(next, DueIn(Update(c), 0)), NEW wait \in Int, wait <= next, NEW run
  PROVE  InTime(Update(c), 0, next, wait, run)
<1>1. InRange(c) /\ Ticking(c) /\ ~Endless(c) /\ c.exact \in Exact
  BY DEF Sound
<1>2. PICK r \in Nat \ {0}, S \in Int :
        /\ r = Rate(c) /\ S = Slack(c) /\ S = eeWaitCycles + r - 1
        /\ eeWaitCycles \in Nat /\ Soon \in Nat /\ Soon >= 1 /\ MaxBlock \in Nat
  BY <1>1, SlackIs
<1>3. PICK D \in Int, O \in Int : D = DueIn(c, age) /\ O = OverflowIn(c, age) /\ D <= O
  BY <1>1, DueIs
<1>4. /\ c.count \in Nat /\ c.age \in Nat /\ c.target \in 0 .. Wrap - 1 /\ c.future \in BOOLEAN
      /\ Wrap \in Nat
  BY <1>1, WrapIsPositive DEF InRange
<1>5. /\ rcntRcount(c) < 2 * Wrap
      /\ age - O < S + MaxBlock
      /\ Returns(c) => age - D < S + Soon + MaxBlock
      /\ Returns(c) /\ ~c.future => rcntRcount(c) < Wrap + c.target
  BY <1>1, <1>2, <1>3, InTimeIsRead
<1>6. PICK u, v : u = Update(c) /\ v = rcntRcount(c)
  OBVIOUS
<1>7. Sound(u) /\ u.target = c.target /\ u.mode = c.mode /\ u.exact.on /\ u.count < Wrap
  BY <1>5, <1>6, UpdateIsSound
<1>8. /\ v \in Nat /\ v = c.count + c.age \div r
      /\ u.age = c.age % r
      /\ u.count = IF Left(c, v) >= Wrap THEN Left(c, v) - Wrap ELSE Left(c, v)
      /\ u.future = IF Left(c, v) >= Wrap THEN FALSE ELSE IF Past(c, v) THEN ~Returns(c) ELSE c.future
  <2>1. v \in Nat /\ v = c.count + c.age \div r
    BY <1>1, <1>2, <1>6, ReadIs
  <2>2. /\ u.age = c.age % r
        /\ u.count = IF Left(c, v) >= Wrap THEN Left(c, v) - Wrap ELSE Left(c, v)
        /\ u.future = IF Left(c, v) >= Wrap THEN FALSE ELSE IF Past(c, v) THEN ~Returns(c) ELSE c.future
    BY <1>1, <1>2, <1>6, UpdateIs
  <2> QED BY <2>1, <2>2
<1>9. InRange(u) /\ Ticking(u) /\ u.count \in Nat /\ u.age \in 0 .. r - 1 /\ u.future \in BOOLEAN
  <2>1. c.age % r \in 0 .. r - 1
    BY <1>4
  <2>2. InRange(u) /\ Ticking(u)
    BY <1>7 DEF Sound
  <2> QED BY <1>8, <2>1, <2>2 DEF InRange
<1>10. Rate(u) = r /\ Slack(u) = S /\ (Returns(u) <=> Returns(c))
  BY <1>2, <1>7 DEF Rate, Slack, Returns
(* a cycles on the timer before the update, b after it *)
<1>11. PICK a \in Int, w \in Int, t \in Int, m \in Int :
         /\ a = c.count * r + c.age /\ w = Wrap * r /\ t = c.target * r /\ m = u.count * r
  BY <1>4, <1>9
<1>12. O = w - a + age /\ D = (IF c.future THEN w ELSE t) - a + age
  <2>1. (Wrap - c.count) * r = w - c.count * r /\ (c.target - c.count) * r = t - c.count * r
    BY <1>4, <1>11
  <2>2. O = (Wrap - c.count) * r - c.age + age
    BY <1>2, <1>3 DEF OverflowIn
  <2>3. D = (Event(c) - c.count) * r - c.age + age
    BY <1>1, <1>2, <1>3, DueIs
  <2>4. c.count * r \in Int
    BY <1>4
  <2>5. CASE c.future
    BY <1>4, <1>11, <2>1, <2>2, <2>3, <2>4, <2>5 DEF Event
  <2>6. CASE ~c.future
    BY <1>4, <1>11, <2>1, <2>2, <2>3, <2>4, <2>6 DEF Event
  <2> QED BY <2>5, <2>6
<1>13. PICK E \in Int, P \in Int :
         /\ E = DueIn(u, 0) /\ P = OverflowIn(u, 0)
         /\ P = w - m - u.age /\ E = (IF u.future THEN w ELSE t) - m - u.age
  <2>1. PICK E \in Int, P \in Int : E = DueIn(u, 0) /\ P = OverflowIn(u, 0)
    BY <1>9, DueIs
  <2>2. (Wrap - u.count) * r = w - m /\ (c.target - u.count) * r = t - m
    <3>1. PICK k \in Int : k = u.count
      BY <1>9
    <3>2. (Wrap - k) * r = Wrap * r - k * r /\ (c.target - k) * r = c.target * r - k * r
      BY <1>4
    <3> QED BY <1>11, <3>1, <3>2
  <2>3. P = (Wrap - u.count) * r - u.age + 0
    BY <1>10, <2>1 DEF OverflowIn
  <2>4. E = (Event(u) - u.count) * r - u.age + 0
    BY <1>9, <1>10, <2>1, DueIs
  <2>5. CASE u.future
    BY <1>9, <1>11, <2>1, <2>2, <2>3, <2>4, <2>5 DEF Event
  <2>6. CASE ~u.future
    BY <1>7, <1>9, <1>11, <2>1, <2>2, <2>3, <2>4, <2>6 DEF Event
  <2> QED BY <2>1, <2>5, <2>6
<1>14. \A x \in Int : u.count < x => m + u.age < x * r
  <2>1. SUFFICES ASSUME NEW x \in Int, u.count < x PROVE m + u.age < x * r
    OBVIOUS
  <2>2. (u.count + 1) * r \in Int /\ x * r \in Int /\ (u.count + 1) * r <= x * r
    BY <1>9, <2>1, ProductMonotone
  <2>3. (u.count + 1) * r = m + r
    BY <1>9, <1>11
  <2> QED BY <1>9, <1>11, <2>2, <2>3
<1>15. P > 0
  BY <1>4, <1>7, <1>9, <1>11, <1>13, <1>14
<1>16. PICK z \in Int : z = v * r /\ z + u.age = a
  <2>1. PICK q \in Nat : q = c.age \div r /\ c.age = q * r + (c.age % r)
    BY <1>4, DivisionIs
  <2>2. PICK x \in Int, y \in Int : x = c.count * r /\ y = q * r
    BY <1>4
  <2>3. (c.count + q) * r = x + y
    BY <1>4, <2>2
  <2>4. v = c.count + q
    BY <1>8, <2>1
  <2>5. v * r = x + y
    BY <2>3, <2>4
  <2>6. c.age = y + u.age /\ a = x + c.age
    BY <1>8, <1>11, <2>1, <2>2
  <2> QED BY <1>9, <2>2, <2>5, <2>6
<1>17. ASSUME Returns(c)
       PROVE  E + S >= 0
  <2>1. MaxBlock + Soon <= t + 1
    <3>1. c.target # 0
      BY <1>1, <1>17 DEF Endless, Returns
    <3> QED BY <1>2, <1>11, <1>17, <3>1 DEF LongTarget
  <2>2. S >= 0
    BY <1>2
  <2>3. CASE u.future
    BY <1>13, <1>15, <2>2, <2>3
  <2>4. CASE ~u.future /\ u.count < c.target
    <3>1. m + u.age < t
      BY <1>4, <1>11, <1>14, <2>4
    <3> QED BY <1>9, <1>11, <1>13, <2>2, <2>4, <3>1
  <2>5. CASE ~u.future /\ u.count >= c.target /\ c.future
    <3>1. ~Past(c, v) /\ Left(c, v) = v
      BY <2>5 DEF Past, Left
    <3>2. v >= Wrap /\ u.count = v - Wrap
      <4>1. ~(v < Wrap)
        BY <1>4, <1>8, <2>5, <3>1
      <4> QED BY <1>4, <1>8, <3>1, <4>1
    <3>3. m = z - w
      <4>1. (v - Wrap) * r = v * r - Wrap * r
        BY <1>4, <1>8
      <4> QED BY <1>11, <1>16, <3>2, <4>1
    <3>4. O = w - a + age /\ E = t - m - u.age /\ z + u.age = a /\ u.age \in Int
      BY <1>9, <1>12, <1>13, <1>16, <2>5
    <3>5. E = O - age + t
      BY <3>3, <3>4
    <3> QED BY <1>2, <1>3, <1>5, <1>11, <1>13, <2>1, <3>5
  <2>6. CASE ~u.future /\ u.count >= c.target /\ ~c.future
    <3>1. v >= c.target
      <4>1. SUFFICES ASSUME v < c.target PROVE FALSE
        BY <1>4, <1>8
      <4>2. ~Past(c, v) /\ Left(c, v) = v /\ ~(v >= Wrap)
        BY <1>4, <1>8, <4>1 DEF Past, Left
      <4>3. u.count = v
        BY <1>8, <4>2
      <4> QED BY <1>4, <1>8, <2>6, <4>1, <4>3
    <3>2. Left(c, v) = v - c.target /\ v < Wrap + c.target
      BY <1>5, <1>6, <1>17, <2>6, <3>1 DEF Past, Left
    <3>3. u.count = v - c.target
      BY <1>4, <1>8, <3>2
    <3>4. m = z - t
      <4>1. (v - c.target) * r = v * r - c.target * r
        BY <1>4, <1>8
      <4> QED BY <1>11, <1>16, <3>3, <4>1
    <3>5. D = t - a + age /\ E = t - m - u.age /\ z + u.age = a /\ u.age \in Int
      BY <1>9, <1>12, <1>13, <1>16, <2>6
    <3>6. E = D - age + t
      <4>1. E = t - (z - t) - u.age /\ D - age = t - a
        BY <3>4, <3>5
      <4>2. E = t + t - a
        BY <3>5, <4>1
      <4> QED BY <3>5, <4>1, <4>2
    <3>7. age - D < S + Soon + MaxBlock
      BY <1>5, <1>17
    <3>8. S + Soon + MaxBlock <= S + t + 1
      BY <1>2, <2>1
    <3>9. age - D <= S + t
      BY <1>2, <3>7, <3>8
    <3> QED BY <3>6, <3>9
  <2> QED BY <1>4, <1>9, <2>3, <2>4, <2>5, <2>6
<1>18. /\ OverflowIn(u, 0) > 0
       /\ Returns(u) => DueIn(u, 0) + Slack(u) >= 0
  BY <1>10, <1>13, <1>15, <1>17
<1>19. InTime(u, 0, next, wait, run)
  BY <1>6, <1>9, <1>18, UpdatedInTime
<1> QED BY <1>6, <1>19

(* The events of a timer are as far off, from a cycle of the past, when d       *)
(* cycles have passed.                                                        *)
LEMMA LaterInTime ==
  ASSUME NEW c, InRange(c), Ticking(c), NEW d \in Nat, NEW p, InRange(p), SameNumbers(c, p),
         p.age = c.age + d, NEW age \in Nat
  PROVE  /\ Ticking(p) /\ Slack(p) = Slack(c) /\ (Returns(p) <=> Returns(c))
         /\ DueIn(p, age + d) = DueIn(c, age)
         /\ OverflowIn(p, age + d) = OverflowIn(c, age)
         /\ Deadline(p, age + d) = Deadline(c, age)
<1>1. Ticking(p) /\ Slack(p) = Slack(c) /\ (Returns(p) <=> Returns(c)) /\ Rate(p) = Rate(c)
  BY DEF SameNumbers, Ticking, Slack, Returns, Rate
<1>2. PICK r \in Nat \ {0} : r = Rate(c)
  BY RateIsPositive DEF InRange
<1>3. /\ c.count \in Nat /\ c.age \in Nat /\ c.target \in 0 .. Wrap - 1 /\ c.future \in BOOLEAN
      /\ Wrap \in Nat
  BY WrapIsPositive DEF InRange
<1>4. p.count = c.count /\ p.target = c.target /\ p.future = c.future /\ age + d \in Int /\ age \in Int
  BY DEF SameNumbers
<1>5. PICK w \in Int, e \in Int : w = (Wrap - c.count) * r /\ e = (Event(c) - c.count) * r
  <2>1. Event(c) \in Int
    BY <1>3 DEF Event
  <2> QED BY <1>3, <2>1
<1>6. OverflowIn(c, age) = w - c.age + age /\ OverflowIn(p, age + d) = w - (c.age + d) + (age + d)
  BY <1>1, <1>2, <1>4, <1>5 DEF OverflowIn
<1>7. OverflowIn(p, age + d) = OverflowIn(c, age)
  BY <1>3, <1>5, <1>6
<1>8. DueIn(c, age) = e - c.age + age /\ DueIn(p, age + d) = e - (c.age + d) + (age + d)
  <2>1. Event(p) = Event(c)
    BY <1>4 DEF Event
  <2>2. DueIn(c, age) = (Event(c) - c.count) * r - c.age + age
    BY <1>2, <1>4, DueIs
  <2>3. DueIn(p, age + d) = (Event(p) - p.count) * Rate(p) - p.age + (age + d)
    BY <1>1, <1>4, DueIs
  <2> QED BY <1>1, <1>2, <1>4, <1>5, <2>1, <2>2, <2>3
<1>9. DueIn(p, age + d) = DueIn(c, age)
  BY <1>3, <1>5, <1>8
<1>10. Deadline(p, age + d) = Deadline(c, age)
  BY <1>1, <1>9 DEF Deadline
<1> QED BY <1>1, <1>7, <1>9, <1>10

(* A block runs: behind a test, or before one that is due in time. *)
LEMMA PassInTime ==
  ASSUME NEW c, Sound(c), c.exact.on, NEW age \in Nat, NEW next \in Int, NEW wait \in Int, NEW run,
         InTime(c, age, next, wait, run), run = "block" => wait > 0,
         NEW d \in 1 .. MaxBlock
  PROVE  /\ Sound(Pass(c, d)) /\ SameNumbers(c, Pass(c, d))
         /\ InTime(Pass(c, d), age + d, next, wait - d, "block")
<1>1. InRange(c) /\ IsTimer(c) /\ Ticking(c) /\ c.exact \in Exact
  BY DEF Sound, InRange
<1>2. PICK L \in Int : /\ L = Deadline(c, age)
                       /\ MaxBlock \in Nat
  BY <1>1, SlackIs
<1>3. age < L
  <2>1. CASE run = "block"
    <3>1. wait > 0 /\ age + wait <= L
      BY <1>2, <2>1 DEF InTime
    <3> QED BY <3>1
  <2>2. CASE run # "block"
    BY <1>2, <2>2 DEF InTime
  <2> QED BY <2>1, <2>2
<1>4. d \in Nat /\ age + d \in Nat /\ age + d < L + MaxBlock
  BY <1>2, <1>3
<1>5. PICK k \in Nat : k = c.age + d
  BY <1>1, <1>4 DEF InRange
<1>6. PICK q : q = [c EXCEPT !.age = k]
  OBVIOUS
<1>7. InRange(q) /\ SameNumbers(c, q) /\ q.age = k
  BY <1>1, <1>6 DEF InRange, IsTimer, Fields, SameNumbers
<1>8. /\ Ticking(q) /\ Slack(q) = Slack(c) /\ (Returns(q) <=> Returns(c))
      /\ DueIn(q, age + d) = DueIn(c, age)
      /\ OverflowIn(q, age + d) = OverflowIn(c, age)
      /\ Deadline(q, age + d) = L
  BY <1>1, <1>2, <1>4, <1>5, <1>7, LaterInTime
<1>9. /\ OverflowIn(c, age) > 0 /\ (Returns(c) => DueIn(c, age) + Slack(c) >= 0)
      /\ age + wait <= L /\ Meets(next, DueIn(c, age))
  BY <1>2 DEF InTime
<1>10. q.age < (2 * Wrap - q.count) * Rate(q)
  BY <1>4, <1>7, <1>8, <1>9, InTimeIsRead
<1>11. c.age + d < (2 * Wrap - c.count) * Rate(c)
  BY <1>5, <1>7, <1>10 DEF SameNumbers, Rate
<1>12. PICK p : p = Pass(c, d)
  OBVIOUS
<1>13. Sound(p) /\ SameNumbers(c, p) /\ p.age = c.age + d
  BY <1>4, <1>11, <1>12, PassIsSound
<1>14. /\ Ticking(p) /\ Slack(p) = Slack(c) /\ (Returns(p) <=> Returns(c))
       /\ DueIn(p, age + d) = DueIn(c, age)
       /\ OverflowIn(p, age + d) = OverflowIn(c, age)
       /\ Deadline(p, age + d) = L
  <2>1. InRange(p)
    BY <1>13 DEF Sound
  <2> QED BY <1>1, <1>2, <1>4, <1>13, <2>1, LaterInTime
<1>15. age + d + (wait - d) <= L
  BY <1>4, <1>9
<1>16. InTime(p, age + d, next, wait - d, "block")
  BY <1>4, <1>9, <1>14, <1>15 DEF InTime
<1> QED BY <1>12, <1>13, <1>16

(* The branch test finds no update due. *)
LEMMA TestInTime ==
  ASSUME NEW c, Sound(c), c.exact.on, NEW age \in Nat, NEW next \in Int, NEW wait \in Int, NEW run,
         InTime(c, age, next, wait, run), age < next,
         NEW other \in Int, other <= next - age, NEW test
  PROVE  InTime(c, age, next, other, test)
<1>1. InRange(c) /\ Ticking(c)
  BY DEF Sound
<1>2. PICK L \in Int : L = Deadline(c, age)
  BY <1>1, SlackIs
<1>3. Meets(next, DueIn(c, age))
  BY DEF InTime
<1>4. next <= L
  BY <1>1, <1>2, <1>3, MeetsDeadline
<1>5. age + other <= L /\ age < L
  BY <1>4
<1> QED BY <1>2, <1>5 DEF InTime

-----------------------------------------------------------------------------
(* The invariant, kept by every action. *)

(* The timer is set to what software writes, or to what it is reset to. *)
Known(c) ==
  /\ c.target \in Targets \cup {Wrap - 1}
  /\ \E m \in Modes \cup {NoMode} : Kind(m) = Kind(c.mode)

(* It is followed only while it is updated in time. *)
Followed(c, age, next, wait, run) ==
  Sound(c) /\ Known(c) /\ (c.exact.on => InTime(c, age, next, wait, run))

ExactInv ==
  /\ branchIn <= eeWaitCycles /\ nextsAge \in Nat
  /\ \A i \in Index : Followed(timer[i], nextsAge, nextCounter, branchIn, cpu)

LEMMA KnownIsLong ==
  ASSUME LongTargets, NEW c, InRange(c), Ticking(c), Known(c)
  PROVE  LongTarget(c)
<1>1. PICK r \in Nat \ {0} : r = Rate(c)
  BY RateIsPositive DEF InRange
<1>2. SUFFICES ASSUME Returns(c), c.target # 0 PROVE MaxBlock + Soon <= c.target * r + 1
  BY <1>1 DEF LongTarget
<1>3. PICK m \in Modes \cup {NoMode} : Kind(m) = Kind(c.mode)
  BY DEF Known
<1>4. m.clock = c.mode.clock /\ m.zeroReturn = c.mode.zeroReturn /\ m.targetInt = c.mode.targetInt
  BY <1>3 DEF Kind
<1>5. m.zeroReturn /\ m.targetInt /\ m.clock # External
  BY <1>2, <1>4 DEF Returns, Ticking
<1>6. m \in Modes
  BY <1>5 DEF NoMode
<1>7. CASE c.target \in Targets
  BY <1>1, <1>2, <1>4, <1>5, <1>6, <1>7 DEF LongTargets, Rate
<1>8. CASE c.target = Wrap - 1
  <2>1. /\ eeWaitCycles \in Nat /\ eeWaitCycles >= 1 /\ Soon \in Nat /\ MaxBlock \in Nat
        /\ Wrap \in Nat /\ Wrap * r \in Int
        /\ eeWaitCycles + Soon + MaxBlock + (r - 1) <= Wrap * r
    BY LapIs
  <2>2. (Wrap - 1) * r = Wrap * r - r
    BY <2>1
  <2> QED BY <1>8, <2>1, <2>2
<1> QED BY <1>7, <1>8 DEF Known

LEMMA SameKindIsKnown ==
  ASSUME NEW c, NEW d, Known(c), SameKind(c, d)
  PROVE  Known(d)
BY DEF Known, SameKind

LEMMA KeptAgain ==
  ASSUME NEW c, NEW d, NEW e, StillSound(c, d), StillSound(d, e)
  PROVE  StillSound(c, e)
BY DEF StillSound, SameKind

(* The gates of both edges. *)
LEMMA GatesKeepFollowed ==
  ASSUME GateInv, EdgeInv, NEW i \in Index, Sound(timer[i])
  PROVE  StillSound(timer[i], HGates(i)) /\ StillSound(timer[i], VGates(i))
<1>1. /\ Over(hsync) => hsync.age \in Nat
      /\ Over(vsync) => vsync.age \in Nat
  <2>1. /\ hRender \in Nat /\ hBlank \in Nat /\ Render \in Nat /\ Blank \in Nat
    BY Constants
  <2> QED BY <2>1 DEF EdgeInv, Typed, Lengths, Over
<1>2. StillSound(timer[i], timer[i])
  BY DEF StillSound, SameKind
<1>3. PICK c : c = IF hsync.blank THEN HblankTick(timer[i]) ELSE timer[i]
  OBVIOUS
<1>4. StillSound(timer[i], c)
  BY <1>2, <1>3, HblankTickIsSound
<1>5. Sound(c)
  BY <1>4 DEF StillSound
<1>6. PICK g : g = HGates(i)
  OBVIOUS
<1>7. \/ g = timer[i]
      \/ g = c
      \/ Over(hsync) /\ g = StartGate(c, hsync.age)
      \/ Over(hsync) /\ g = EndGate(c, hsync.age)
  BY <1>3, <1>6 DEF HGates
<1>8. StillSound(timer[i], g)
  <2>1. CASE g = timer[i] \/ g = c
    BY <1>2, <1>4, <2>1
  <2>2. CASE Over(hsync) /\ (g = StartGate(c, hsync.age) \/ g = EndGate(c, hsync.age))
    <3>1. StillSound(c, g)
      BY <1>1, <1>5, <2>2, GatesAreSound
    <3> QED BY <1>4, <3>1, KeptAgain
  <2> QED BY <1>7, <2>1, <2>2
<1>9. Sound(g)
  BY <1>8 DEF StillSound
<1>10. PICK h : h = VGates(i)
  OBVIOUS
<1>11. \/ h = g
       \/ Over(vsync) /\ h = StartGate(g, vsync.age)
       \/ Over(vsync) /\ h = EndGate(g, vsync.age)
  BY <1>6, <1>10 DEF VGates
<1>12. StillSound(timer[i], h)
  <2>1. CASE h = g
    BY <1>8, <2>1
  <2>2. CASE Over(vsync) /\ (h = StartGate(g, vsync.age) \/ h = EndGate(g, vsync.age))
    <3>1. StillSound(g, h)
      BY <1>1, <1>9, <2>2, GatesAreSound
    <3> QED BY <1>8, <3>1, KeptAgain
  <2> QED BY <1>11, <2>1, <2>2
<1> QED BY <1>6, <1>8, <1>10, <1>12

LEMMA SoundIsNumbers ==
  ASSUME NEW c, Sound(c)
  PROVE  IsTimer(c) /\ Numbers(c)
BY WrapIsPositive DEF Sound, InRange, Numbers

LEMMA NewTimerIsFollowed ==
  ASSUME NEW age, NEW next, NEW wait, NEW run
  PROVE  Followed(NewTimer, age, next, wait, run)
<1>1. InRange(NewTimer)
  BY NewTimerStopped, WrapIsPositive DEF InRange, NewTimer
<1>2. NewTimer.exact = Off /\ NewTimer.target = Wrap - 1 /\ NewTimer.mode = NoMode
  BY DEF NewTimer
<1>3. Sound(NewTimer)
  BY <1>1, <1>2, OffIs DEF Sound
<1>4. Known(NewTimer)
  BY <1>2 DEF Known
<1> QED BY <1>2, <1>3, <1>4, OffIs DEF Followed

LEMMA InitIsExact == Init => ExactInv
<1> SUFFICES ASSUME Init PROVE ExactInv
  OBVIOUS
<1>1. branchIn <= eeWaitCycles /\ nextsAge \in Nat
  BY LapAssumption DEF Init
<1>2. \A i \in Index : timer[i] = NewTimer
  BY ClearedIs DEF Init
<1> QED BY <1>1, <1>2, NewTimerIsFollowed DEF ExactInv

LEMMA ResetIsExact ==
  ASSUME cpuReset
  PROVE  ExactInv'
<1>1. branchIn' <= eeWaitCycles /\ nextsAge' \in Nat
  BY LapAssumption DEF cpuReset
<1>2. \A i \in Index : timer'[i] = NewTimer
  BY ClearedIs DEF cpuReset
<1> QED BY <1>1, <1>2, NewTimerIsFollowed DEF ExactInv

(* What cpuBranchTest leaves of the wait for the next one. *)
LEMMA BranchWait ==
  ASSUME EdgeInv', cpuBranchTest
  PROVE  branchIn' \in Int /\ branchIn' <= eeWaitCycles /\ branchIn' <= nextCounter' - nextsAge'
<1>1. PICK other \in OtherEvents :
        branchIn' = Min({eeWaitCycles, other, hsync'.length - hsync'.age, nextCounter' - nextsAge'})
  BY DEF cpuBranchTest
<1>2. /\ eeWaitCycles \in Int /\ other \in Int
      /\ hsync'.length - hsync'.age \in Int /\ nextCounter' - nextsAge' \in Int
  BY <1>1, EeCountersAssumption, Constants DEF EdgeInv, Typed, Lengths
<1> QED BY <1>1, <1>2, MinOfFour

LEMMA UpdateIsExact ==
  ASSUME LongTargets, GateInv, EdgeInv, EdgeInv', ExactInv, cpuBranchTest, rcntUpdate
  PROVE  ExactInv'
<1>1. /\ timer' = [i \in Index |-> Update(VGates(i))]
      /\ nextsAge' = 0 /\ nextCounter' = cpuRcntSet(timer', vsync')
  BY DEF rcntUpdate
<1>2. /\ branchIn' \in Int /\ branchIn' <= eeWaitCycles /\ branchIn' <= nextCounter'
      /\ nextCounter' \in Int
  BY <1>1, BranchWait DEF EdgeInv, Typed
<1>3. \A i \in Index :
        /\ Followed(timer[i], nextsAge, nextCounter, branchIn, cpu)
        /\ StillSound(timer[i], VGates(i)) /\ Sound(VGates(i)) /\ Known(VGates(i))
        /\ VGates(i).exact.on => VGates(i) = timer[i]
  BY GatesKeepFollowed, SameKindIsKnown DEF ExactInv, Followed, StillSound
<1>4. ASSUME NEW i \in Index, VGates(i).exact.on
      PROVE  LET c == VGates(i) IN
             /\ InRange(c) /\ Ticking(c) /\ LongTarget(c) /\ nextsAge \in Nat
             /\ OverflowIn(c, nextsAge) > 0 /\ nextsAge < Deadline(c, nextsAge) + MaxBlock
             /\ Returns(c) => DueIn(c, nextsAge) + Slack(c) >= 0
  <2>1. PICK c : c = VGates(i)
    OBVIOUS
  <2>2. Sound(c) /\ Known(c) /\ InTime(c, nextsAge, nextCounter, branchIn, cpu)
    BY <1>3, <1>4, <2>1 DEF Followed
  <2>3. InRange(c) /\ Ticking(c)
    BY <1>4, <2>1, <2>2 DEF Sound
  <2>4. LongTarget(c)
    BY <2>2, <2>3, KnownIsLong
  <2> QED BY <2>1, <2>2, <2>3, <2>4 DEF InTime, ExactInv
<1>5. \A i \in Index :
        /\ Sound(Update(VGates(i))) /\ Known(Update(VGates(i)))
        /\ Update(VGates(i)).exact.on = VGates(i).exact.on
  <2>1. SUFFICES ASSUME NEW i \in Index
                 PROVE  /\ Sound(Update(VGates(i))) /\ Known(Update(VGates(i)))
                        /\ Update(VGates(i)).exact.on = VGates(i).exact.on
    OBVIOUS
  <2>2. PICK c : c = VGates(i)
    OBVIOUS
  <2>3. Sound(c) /\ Known(c)
    BY <1>3, <2>2
  <2>4. c.exact.on => /\ rcntRcount(c) < 2 * Wrap
                      /\ Returns(c) /\ ~c.future => rcntRcount(c) < Wrap + c.target
    BY <1>4, <2>2, InTimeIsRead
  <2>5. /\ Sound(Update(c)) /\ Update(c).target = c.target /\ Update(c).mode = c.mode
        /\ Update(c).exact.on = c.exact.on
    BY <2>3, <2>4, UpdateIsSound
  <2>6. Known(Update(c))
    BY <2>3, <2>5, SameKindIsKnown DEF SameKind
  <2> QED BY <2>2, <2>5, <2>6
<1>6. \A i \in Index : Ticking(timer'[i]) => Meets(nextCounter', DueIn(timer'[i], 0))
  <2>1. \A i \in Index : IsTimer(timer'[i]) /\ Numbers(timer'[i])
    BY <1>1, <1>5, SoundIsNumbers
  <2>2. vsync'.length - vsync'.age \in Int
    BY Constants DEF EdgeInv, Typed, Lengths
  <2> QED BY <1>1, <2>1, <2>2, SchedulesAll
<1>7. ASSUME NEW i \in Index
      PROVE  Followed(timer'[i], 0, nextCounter', branchIn', cpu')
  <2>1. PICK c, u : c = VGates(i) /\ u = Update(c) /\ u = timer'[i]
    BY <1>1
  <2>2. Sound(u) /\ Known(u) /\ u.exact.on = c.exact.on
    BY <1>5, <2>1
  <2>3. ASSUME u.exact.on
        PROVE  InTime(u, 0, nextCounter', branchIn', cpu')
    <3>1. Sound(c) /\ c.exact.on
      BY <1>3, <2>1, <2>2, <2>3
    <3>2. /\ LongTarget(c) /\ nextsAge \in Nat
          /\ OverflowIn(c, nextsAge) > 0 /\ nextsAge < Deadline(c, nextsAge) + MaxBlock
          /\ Returns(c) => DueIn(c, nextsAge) + Slack(c) >= 0
      BY <1>4, <2>1, <3>1
    <3>3. Ticking(u)
      BY <2>2, <2>3 DEF Sound
    <3>4. Meets(nextCounter', DueIn(Update(c), 0))
      BY <1>6, <2>1, <3>3
    <3> QED BY <1>2, <2>1, <3>1, <3>2, <3>4, UpdateInTime
  <2> QED BY <2>1, <2>2, <2>3 DEF Followed
<1> QED BY <1>1, <1>2, <1>7 DEF ExactInv

LEMMA TestIsExact ==
  ASSUME GateInv, EdgeInv, EdgeInv', ExactInv, cpuBranchTest, NoUpdate
  PROVE  ExactInv'
<1>1. /\ timer' = [i \in Index |-> HGates(i)] /\ nextsAge < nextCounter
      /\ nextsAge' = nextsAge /\ nextCounter' = nextCounter
  BY DEF NoUpdate
<1>2. /\ branchIn' \in Int /\ branchIn' <= eeWaitCycles /\ branchIn' <= nextCounter - nextsAge
      /\ nextCounter \in Int /\ branchIn \in Int /\ nextsAge \in Nat
  BY <1>1, BranchWait DEF EdgeInv, Typed, ExactInv
<1>3. ASSUME NEW i \in Index
      PROVE  Followed(timer'[i], nextsAge, nextCounter, branchIn', cpu')
  <2>1. PICK c, h : c = timer[i] /\ h = HGates(i) /\ h = timer'[i]
    BY <1>1
  <2>2. Followed(c, nextsAge, nextCounter, branchIn, cpu)
    BY <2>1 DEF ExactInv
  <2>3. StillSound(c, h)
    BY <2>1, <2>2, GatesKeepFollowed DEF Followed
  <2>4. ASSUME h.exact.on
        PROVE  InTime(h, nextsAge, nextCounter, branchIn', cpu')
    <3>1. h = c /\ Sound(c) /\ c.exact.on /\ InTime(c, nextsAge, nextCounter, branchIn, cpu)
      BY <2>2, <2>3, <2>4 DEF Followed, StillSound
    <3> QED BY <1>1, <1>2, <3>1, TestInTime
  <2> QED BY <2>1, <2>2, <2>3, <2>4 DEF Followed, StillSound, Known, SameKind
<1> QED BY <1>1, <1>2, <1>3 DEF ExactInv

LEMMA BlockIsExact ==
  ASSUME EdgeInv, ExactInv, RunBlock
  PROVE  ExactInv'
<1>1. PICK d \in 1 .. MaxBlock :
        /\ branchIn' = branchIn - d /\ nextsAge' = nextsAge + d
        /\ timer' = [i \in Index |-> Pass(timer[i], d)]
  BY DEF RunBlock
<1>2. (cpu = "block" => branchIn > 0) /\ cpu' = "block" /\ nextCounter' = nextCounter
  BY DEF RunBlock
<1>3. /\ branchIn \in Int /\ branchIn <= eeWaitCycles /\ nextCounter \in Int /\ nextsAge \in Nat
      /\ MaxBlock \in Nat /\ eeWaitCycles \in Int
  BY Constants DEF EdgeInv, Typed, ExactInv
<1>4. d \in Nat /\ branchIn' <= eeWaitCycles /\ nextsAge' \in Nat
  BY <1>1, <1>3
<1>5. ASSUME NEW i \in Index
      PROVE  Followed(timer'[i], nextsAge + d, nextCounter, branchIn - d, "block")
  <2>1. PICK c, p : c = timer[i] /\ p = Pass(c, d) /\ p = timer'[i]
    BY <1>1
  <2>2. Followed(c, nextsAge, nextCounter, branchIn, cpu)
    BY <2>1 DEF ExactInv
  <2>3. Sound(c) /\ Known(c)
    BY <2>2 DEF Followed
  <2>4. CASE c.exact.on
    <3>1. InTime(c, nextsAge, nextCounter, branchIn, cpu)
      BY <2>2, <2>4 DEF Followed
    <3>2. Sound(p) /\ SameNumbers(c, p) /\ InTime(p, nextsAge + d, nextCounter, branchIn - d, "block")
      BY <1>2, <1>3, <2>1, <2>3, <2>4, <3>1, PassInTime
    <3>3. Known(p)
      BY <2>3, <3>2, SameKindIsKnown DEF SameNumbers, SameKind
    <3> QED BY <2>1, <3>2, <3>3 DEF Followed
  <2>5. CASE ~c.exact.on
    <3>1. Sound(p) /\ SameNumbers(c, p) /\ p.exact.on = c.exact.on
      BY <1>4, <2>1, <2>3, <2>5, PassIsSound
    <3>2. Known(p)
      BY <2>3, <3>1, SameKindIsKnown DEF SameNumbers, SameKind
    <3> QED BY <2>1, <2>5, <3>1, <3>2 DEF Followed
  <2> QED BY <2>4, <2>5
<1> QED BY <1>1, <1>2, <1>4, <1>5 DEF ExactInv

(* The others are scheduled no later. *)
LEMMA WrittenIsExact ==
  ASSUME EdgeInv, GateInv, ExactInv, NEW i \in Index, NEW d, Written(i, d), Anew(d), Known(d)
  PROVE  ExactInv'
<1>1. /\ timer' = [timer EXCEPT ![i] = d] /\ timer = [j \in Index |-> timer[j]]
      /\ nextCounter' = rcntSet(d, nextsAge, nextCounter)
      /\ nextsAge' = nextsAge /\ branchIn' = branchIn /\ cpu' = cpu
  BY DEF Written, GateInv
<1>2. branchIn \in Int /\ branchIn <= eeWaitCycles /\ nextCounter \in Int /\ nextsAge \in Nat
  BY DEF EdgeInv, Typed, ExactInv
<1>3. Sound(d) /\ IsTimer(d) /\ Numbers(d)
  BY SoundIsNumbers DEF Anew
<1>4. /\ nextCounter' \in Int /\ Meets(nextCounter', nextCounter)
      /\ Ticking(d) => Meets(nextCounter', DueIn(d, nextsAge))
  BY <1>1, <1>2, <1>3, SetMeets
<1>5. Followed(d, nextsAge, nextCounter', branchIn, cpu)
  <2>1. SUFFICES ASSUME d.exact.on PROVE InTime(d, nextsAge, nextCounter', branchIn, cpu)
    BY <1>3 DEF Followed
  <2>2. Ticking(d) /\ UpToDate(d) /\ InRange(d)
    BY <2>1 DEF Anew, Sound
  <2> QED BY <1>2, <1>4, <2>2, AnewInTime
<1>6. ASSUME NEW j \in Index, j # i
      PROVE  Followed(timer[j], nextsAge, nextCounter', branchIn, cpu)
  <2>1. PICK c : c = timer[j]
    OBVIOUS
  <2>2. Followed(c, nextsAge, nextCounter, branchIn, cpu)
    BY <2>1 DEF ExactInv
  <2>3. ASSUME c.exact.on
        PROVE  InTime(c, nextsAge, nextCounter', branchIn, cpu)
    <3>1. InTime(c, nextsAge, nextCounter, branchIn, cpu) /\ InRange(c) /\ Ticking(c)
      BY <2>2, <2>3 DEF Followed, Sound
    <3>2. DueIn(c, nextsAge) \in Int
      BY <1>2, <3>1, DueIs
    <3>3. Meets(nextCounter', DueIn(c, nextsAge))
      BY <1>2, <1>4, <3>1, <3>2, MeetsTransitive DEF InTime
    <3> QED BY <3>1, <3>3 DEF InTime
  <2> QED BY <2>1, <2>2, <2>3 DEF Followed
<1>7. \A j \in Index : timer'[j] = IF j = i THEN d ELSE timer[j]
  BY <1>1
<1> QED BY <1>1, <1>2, <1>5, <1>6, <1>7 DEF ExactInv

LEMMA WritesAreExact ==
  ASSUME EdgeInv, GateInv, ExactInv, Writes
  PROVE  ExactInv'
<1>1. PICK i \in Index : WriteMode(i) \/ WriteCount(i) \/ WriteTarget(i)
  BY DEF Writes
<1>2. Sound(timer[i]) /\ Known(timer[i])
  BY DEF ExactInv, Followed
<1>3. NoMode \in Mode /\ 0 \in 0 .. Wrap - 1
  BY NewTimerStopped, WrapIsPositive DEF IsTimer
<1>4. CASE WriteMode(i)
  <2>1. PICK m \in Modes : Written(i, rcntWmode(timer[i], m))
    BY <1>4 DEF WriteMode
  <2>2. m \in Mode
    BY EeCountersAssumption
  <2>3. /\ Anew(rcntWmode(timer[i], m)) /\ rcntWmode(timer[i], m).target = timer[i].target
        /\ Kind(rcntWmode(timer[i], m).mode) = Kind(m)
    BY <1>2, <1>3, <2>2, WritesAreSound
  <2>4. Known(rcntWmode(timer[i], m))
    BY <1>2, <2>3 DEF Known
  <2> QED BY <2>1, <2>3, <2>4, WrittenIsExact
<1>5. CASE WriteCount(i)
  <2>1. PICK v \in Counts : Written(i, rcntWcount(timer[i], v))
    BY <1>5 DEF WriteCount
  <2>2. v \in 0 .. Wrap - 1
    BY EeCountersAssumption
  <2>3. Anew(rcntWcount(timer[i], v)) /\ SameKind(timer[i], rcntWcount(timer[i], v))
    BY <1>2, <1>3, <2>2, WritesAreSound
  <2>4. Known(rcntWcount(timer[i], v))
    BY <1>2, <2>3, SameKindIsKnown
  <2> QED BY <2>1, <2>3, <2>4, WrittenIsExact
<1>6. CASE WriteTarget(i)
  <2>1. PICK v \in Targets : Written(i, rcntWtarget(timer[i], v))
    BY <1>6 DEF WriteTarget
  <2>2. v \in 0 .. Wrap - 1
    BY EeCountersAssumption
  <2>3. /\ Anew(rcntWtarget(timer[i], v)) /\ rcntWtarget(timer[i], v).target = v
        /\ Kind(rcntWtarget(timer[i], v).mode) = Kind(timer[i].mode)
    BY <1>2, <1>3, <2>2, WritesAreSound
  <2>4. Known(rcntWtarget(timer[i], v))
    BY <1>2, <2>3 DEF Known
  <2> QED BY <2>1, <2>3, <2>4, WrittenIsExact
<1> QED BY <1>1, <1>4, <1>5, <1>6

(* Execute returns behind an update, and the timers are scheduled from there   *)
(* again; a state that is loaded stops some.                                  *)
LEMMA RateIsExact ==
  ASSUME GateInv, GateInv', EdgeInv, EdgeInv', ExactInv, UpdateVSyncRate,
         \A i \in Index : StillSound(timer[i], timer'[i])
  PROVE  ExactInv'
<1>1. /\ cpu = "stopped" /\ cpu' = cpu /\ branchIn' = branchIn /\ nextsAge' = 0
      /\ nextCounter' = cpuRcntSet(timer, vsync')
  BY DEF UpdateVSyncRate
<1>2. nextsAge = 0 /\ branchIn <= eeWaitCycles
  BY <1>1 DEF EdgeInv, VsyncOnTime, ExactInv
<1>3. vsync'.length - vsync'.age \in Int /\ nextCounter' \in Int
  BY Constants DEF EdgeInv, Typed, Lengths
<1>4. \A i \in Index : Ticking(timer[i]) => Meets(nextCounter', DueIn(timer[i], 0))
  <2>1. \A i \in Index : IsTimer(timer[i]) /\ Numbers(timer[i])
    BY SoundIsNumbers DEF ExactInv, Followed
  <2> QED BY <1>1, <1>3, <2>1, SchedulesAll
<1>5. ASSUME NEW i \in Index
      PROVE  Followed(timer'[i], 0, nextCounter', branchIn, cpu)
  <2>1. PICK c, d : c = timer[i] /\ d = timer'[i]
    OBVIOUS
  <2>2. Followed(c, 0, nextCounter, branchIn, cpu) /\ StillSound(c, d)
    BY <1>2, <2>1 DEF ExactInv
  <2>3. ASSUME d.exact.on
        PROVE  InTime(d, 0, nextCounter', branchIn, cpu)
    <3>1. d = c /\ c.exact.on
      BY <2>2, <2>3 DEF StillSound
    <3>2. InTime(c, 0, nextCounter, branchIn, cpu) /\ Ticking(c)
      BY <2>2, <3>1 DEF Followed, Sound
    <3>3. Meets(nextCounter', DueIn(c, 0))
      BY <1>4, <2>1, <3>2
    <3> QED BY <3>1, <3>2, <3>3 DEF InTime
  <2>4. Known(c)
    BY <2>2 DEF Followed
  <2>5. Followed(d, 0, nextCounter', branchIn, cpu)
    BY <2>2, <2>3, <2>4, SameKindIsKnown DEF Followed, StillSound
  <2> QED BY <2>1, <2>5
<1> QED BY <1>1, <1>2, <1>5 DEF ExactInv

LEMMA RateSetIsExact ==
  ASSUME GateInv, GateInv', EdgeInv, EdgeInv', ExactInv, RateSet
  PROVE  ExactInv'
<1>1. UpdateVSyncRate /\ timer' = timer
  BY DEF RateSet
<1>2. \A i \in Index : StillSound(timer[i], timer'[i])
  BY <1>1 DEF ExactInv, Followed, StillSound, SameKind
<1> QED BY <1>1, <1>2, RateIsExact

LEMMA LoadStateIsExact ==
  ASSUME GateInv, GateInv', EdgeInv, EdgeInv', ExactInv, LoadState
  PROVE  ExactInv'
<1>1. UpdateVSyncRate /\ timer' = [i \in Index |-> rcntSetGate(timer[i])]
  BY DEF LoadState
<1>2. ASSUME NEW i \in Index
      PROVE  StillSound(timer[i], timer'[i])
  <2>1. Sound(timer[i]) /\ 0 \in Nat
    BY DEF ExactInv, Followed
  <2>2. StillSound(timer[i], rcntSetGate(timer[i]))
    BY <2>1, GatesAreSound
  <2> QED BY <1>1, <2>2
<1> QED BY <1>1, <1>2, RateIsExact

(* The invariant behind CountsExactly: of every timer that is followed, how far *)
(* the exact counter is ahead of it, and how late its next update may be.      *)
THEOREM ExactInvariant == ASSUME LongTargets PROVE Spec => []ExactInv
<1>1. Init => ExactInv
  BY InitIsExact
<1>2. GateInv /\ GateInv' /\ EdgeInv /\ EdgeInv' /\ ExactInv /\ [Next]_vars => ExactInv'
  <2> SUFFICES ASSUME GateInv, GateInv', EdgeInv, EdgeInv', ExactInv, [Next]_vars PROVE ExactInv'
    OBVIOUS
  <2>1. CASE cpuBranchTest
    <3>1. rcntUpdate \/ NoUpdate
      BY <2>1 DEF cpuBranchTest
    <3> QED BY <2>1, <3>1, UpdateIsExact, TestIsExact
  <2>2. CASE RunBlock
    BY <2>2, BlockIsExact
  <2>3. CASE Writes
    BY <2>3, WritesAreExact
  <2>4. CASE RateSet
    BY <2>4, RateSetIsExact
  <2>5. CASE LoadState
    BY <2>5, LoadStateIsExact
  <2>6. CASE cpuReset
    BY <2>6, ResetIsExact
  <2>7. CASE UNCHANGED vars
    BY <2>7 DEF vars, ExactInv
  <2> QED BY <2>1, <2>2, <2>3, <2>4, <2>5, <2>6, <2>7 DEF Next
<1> QED BY <1>1, <1>2, GateInvariant, EdgeInvariant, PTL DEF Spec

(* However late updates come, a timer that has caught up reads what a counter   *)
(* reads that was never late, and has raised all of its interrupts and none     *)
(* that was not due (_cpuTestTarget and _cpuTestOverflow, in their order).      *)
THEOREM TimersCountExactly == ASSUME LongTargets PROVE Spec => []CountsExactly
<1>1. ExactInv => CountsExactly
  <2>1. SUFFICES ASSUME ExactInv, NEW i \in Index, NEW c, c = timer[i]
                 PROVE  /\ c.exact.target >= 0 /\ c.exact.overflow >= 0
                        /\ c.exact.on /\ rcntRcount(c) < Wrap /\ (c.future \/ rcntRcount(c) < c.target)
                           => /\ c.exact.count = rcntRcount(c)
                              /\ c.exact.phase = c.age % Rate(c)
                              /\ c.exact.target = 0 /\ c.exact.overflow = 0
    BY DEF CountsExactly
  <2>2. Sound(c)
    BY <2>1 DEF ExactInv, Followed
  <2>3. CASE ~c.exact.on
    BY <2>2, <2>3 DEF Sound
  <2>4. CASE c.exact.on
    <3>1. PICK e, v : e = c.exact /\ v = rcntRcount(c)
      OBVIOUS
    <3>2. /\ InRange(c) /\ Ticking(c) /\ e \in Exact /\ e.target >= 0 /\ e.overflow >= 0
          /\ e.phase = c.age % Rate(c)
          /\ Tracks(c, e, v)
      BY <2>2, <2>4, <3>1, ReadIs DEF Sound, Shows
    <3>3. ASSUME v < Wrap, c.future \/ v < c.target
          PROVE  e.count = v /\ e.target = 0 /\ e.overflow = 0
      <4>1. /\ v \in Nat /\ c.target \in 0 .. Wrap - 1 /\ c.future \in BOOLEAN /\ Wrap \in Nat
            /\ e.target \in Int /\ e.count \in Nat
        BY <3>1, <3>2, ReadIs, WrapIsPositive DEF InRange, Exact
      <4>2. CASE c.future
        BY <3>2, <3>3, <4>2 DEF Tracks
      <4>3. CASE ~c.future /\ ~Returns(c)
        BY <3>2, <3>3, <4>1, <4>3 DEF Tracks, One
      <4>4. CASE ~c.future /\ Returns(c)
        <5>1. v = e.target * c.target + e.count /\ e.overflow = 0 /\ v < c.target
          BY <3>2, <3>3, <4>4 DEF Tracks, One
        <5>2. e.target = 0
          <6>1. SUFFICES ASSUME 1 <= e.target PROVE FALSE
            BY <3>2, <4>1
          <6>2. 1 * c.target <= e.target * c.target /\ e.target * c.target \in Int
            BY <4>1, <6>1, ProductMonotone
          <6> QED BY <4>1, <5>1, <6>2
        <5> QED BY <4>1, <5>1, <5>2
      <4> QED BY <4>2, <4>3, <4>4
    <3> QED BY <3>1, <3>2, <3>3
  <2> QED BY <2>3, <2>4
<1> QED BY <1>1, ExactInvariant, PTL
=============================================================================
