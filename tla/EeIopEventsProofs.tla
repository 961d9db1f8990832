-------------------------- MODULE EeIopEventsProofs --------------------------
(* The proofs about EeIopEvents: however the clocks wrap and whoever asks for *)
(* an event, the two processors agree on the time (ClocksAgree), and the two  *)
(* schedulers keep their agendas (EeKeepsAgenda, IopKeepsAgenda); and no      *)
(* event test goes on for ever (TestRunsDown).                                *)
EXTENDS EeIopEvents, TLAPS

-----------------------------------------------------------------------------
(* Words.  Below, the clocks are only compared through these four lemmas. *)

(* A small number added to a word gives a word, and shifts the distance to *)
(* any other word by as much, as long as the distance stays below Half.    *)
LEMMA MinusPlus ==
  ASSUME NEW w \in Word, NEW v \in Word, NEW d \in Int,
         -Half <= Minus(w, v) + d, Minus(w, v) + d < Half
  PROVE  /\ Plus(w, d) \in Word
         /\ Minus(Plus(w, d), v) = Minus(w, v) + d
<1>1. Half \in Nat \ {0}
  BY EeIopEventsAssumption
<1>2. QED
  BY <1>1 DEF Word, Plus, Minus

(* The distance of two words is a signed number of the width of the clock, *)
(* and turns round with them.                                              *)
LEMMA MinusRange ==
  ASSUME NEW w \in Word, NEW v \in Word
  PROVE  /\ Minus(w, v) \in -Half .. Half - 1
         /\ Minus(w, w) = 0
         /\ Minus(w, v) # -Half => Minus(v, w) = -Minus(w, v)
<1>1. Half \in Nat \ {0}
  BY EeIopEventsAssumption
<1>2. QED
  BY <1>1 DEF Word, Minus

(* Distances add up while their sum is below Half. *)
LEMMA MinusAdds ==
  ASSUME NEW u \in Word, NEW v \in Word, NEW w \in Word,
         -Half <= Minus(u, v) + Minus(v, w), Minus(u, v) + Minus(v, w) < Half
  PROVE  Minus(u, w) = Minus(u, v) + Minus(v, w)
<1>1. Half \in Nat \ {0}
  BY EeIopEventsAssumption
<1>2. QED
  BY <1>1 DEF Word, Minus

(* SetNextBranch brings the branch to delta after start, when it is further *)
(* away; seen from now, whichever of the two comes first.                   *)
LEMMA BranchNearer ==
  ASSUME NEW next \in Word, NEW now \in Word, NEW start \in Word, NEW delta \in Int,
         Minus(now, start) >= 0,
         -Half <= Minus(next, now) + Minus(now, start),
         Minus(next, now) + Minus(now, start) < Half,
         -Half < delta - Minus(now, start)
  PROVE  /\ SetNextBranch(next, start, delta) \in Word
         /\ Minus(SetNextBranch(next, start, delta), now) =
              IF delta - Minus(now, start) < Minus(next, now)
              THEN delta - Minus(now, start) ELSE Minus(next, now)
<1> DEFINE r == Minus(next, now)
           a == Minus(now, start)
<1>1. Half \in Nat \ {0}
  BY EeIopEventsAssumption
<1>2. Minus(next, start) = r + a
  BY MinusAdds
<1>3. r \in -Half .. Half - 1 /\ a \in -Half .. Half - 1
  BY MinusRange
<1>4. Minus(start, now) = -a
  BY <1>1, <1>3, MinusRange
<1>5. CASE delta < r + a
  <2>1. Plus(start, delta) \in Word /\ Minus(Plus(start, delta), now) = delta - a
    <3>1. -Half <= Minus(start, now) + delta /\ Minus(start, now) + delta < Half
      BY <1>1, <1>3, <1>4, <1>5
    <3> HIDE DEF r, a
    <3>2. Minus(start, now) + delta = delta - a
      BY <1>1, <1>3, <1>4
    <3>3. QED
      BY <3>1, <3>2, MinusPlus
  <2> HIDE DEF r, a
  <2>2. Minus(next, start) > delta /\ delta - a < r
    BY <1>1, <1>2, <1>3, <1>5
  <2>3. QED
    BY <2>1, <2>2 DEF SetNextBranch, r, a
<1>6. CASE ~(delta < r + a)
  <2> HIDE DEF r, a
  <2>1. ~(Minus(next, start) > delta) /\ ~(delta - a < r)
    BY <1>1, <1>2, <1>3, <1>6
  <2>2. QED
    BY <2>1 DEF SetNextBranch, r, a
<1>7. QED
  BY <1>5, <1>6

-----------------------------------------------------------------------------
(* The pending events of one processor.  next is the distance of its next *)
(* branch, slack the length of its longest block.                         *)

Event == [sCycle : Word, eCycle : Delays, left : Int]

PendingOf(events, E) ==
  /\ DOMAIN events \subseteq E
  /\ events \in [DOMAIN events -> Event]

(* What the history says of an event is what its words say of it, and no *)
(* event is overdue by more than a block.                                *)
OnTheClock(events, now, slack) ==
  \A n \in DOMAIN events :
    /\ Minus(now, events[n].sCycle) >= 0
    /\ events[n].left = events[n].eCycle - Minus(now, events[n].sCycle)
    /\ events[n].left >= -slack

(* The events of S are not overdue, and the branch comes before them. *)
Ahead(events, S, next) ==
  \A n \in DOMAIN events \intersect S : events[n].left >= 0 /\ next <= events[n].left

LEMMA AheadNearer ==
  ASSUME NEW E, NEW events, PendingOf(events, E), NEW S, NEW next \in Int,
         Ahead(events, S, next), NEW T, T \subseteq S, NEW nearer \in Int, nearer <= next
  PROVE  Ahead(events, T, nearer)
<1> SUFFICES ASSUME NEW n \in DOMAIN events \intersect T
             PROVE  events[n].left >= 0 /\ nearer <= events[n].left
  BY DEF Ahead
<1>1. events[n].left \in Int /\ events[n].left >= 0 /\ next <= events[n].left
  BY DEF Ahead, PendingOf, Event
<1>2. QED
  BY <1>1

LEMMA AskKeeps ==
  ASSUME NEW E, NEW events, PendingOf(events, E), NEW n \in E, NEW d \in Delays,
         NEW now \in Word, NEW slack \in Nat, OnTheClock(events, now, slack)
  PROVE  /\ PendingOf(Ask(events, n, now, d), E)
         /\ OnTheClock(Ask(events, n, now, d), now, slack)
<1> DEFINE asked == Ask(events, n, now, d)
           new == [sCycle |-> now, eCycle |-> d, left |-> d]
<1>1. d \in Nat
  BY EeIopEventsAssumption
<1>2. new \in Event
  BY <1>1 DEF Event
<1>3. /\ DOMAIN asked = DOMAIN events \union {n}
      /\ \A m \in DOMAIN asked : asked[m] = IF m = n THEN new ELSE events[m]
  BY DEF Ask
<1>4. PendingOf(asked, E)
  <2>1. asked \in [DOMAIN asked -> Event]
    BY <1>2 DEF Ask, PendingOf
  <2>2. QED
    BY <1>3, <2>1 DEF PendingOf
<1>5. OnTheClock(asked, now, slack)
  <2>1. Minus(now, now) = 0
    BY MinusRange
  <2>2. QED
    BY <1>1, <1>3, <2>1 DEF OnTheClock
<1>6. QED
  BY <1>4, <1>5

LEMMA AskAhead ==
  ASSUME NEW events, NEW n, NEW d \in Delays, NEW now, NEW S, NEW next,
         Ahead(events, S, next), next <= d
  PROVE  Ahead(Ask(events, n, now, d), S, next)
<1> DEFINE asked == Ask(events, n, now, d)
           new == [sCycle |-> now, eCycle |-> d, left |-> d]
<1>1. d \in Nat
  BY EeIopEventsAssumption
<1>2. /\ DOMAIN asked = DOMAIN events \union {n}
      /\ \A m \in DOMAIN asked : asked[m] = IF m = n THEN new ELSE events[m]
  BY DEF Ask
<1> SUFFICES ASSUME NEW m \in DOMAIN asked \intersect S
             PROVE  asked[m].left >= 0 /\ next <= asked[m].left
  BY DEF Ahead
<1>3. CASE m = n
  BY <1>1, <1>2, <1>3
<1>4. CASE m # n
  BY <1>2, <1>4 DEF Ahead
<1>5. QED
  BY <1>3, <1>4

LEMMA ClearKeeps ==
  ASSUME NEW E, NEW events, PendingOf(events, E), NEW n,
         NEW now \in Word, NEW slack \in Nat, OnTheClock(events, now, slack)
  PROVE  /\ PendingOf(Clear(events, n), E)
         /\ OnTheClock(Clear(events, n), now, slack)
         /\ \A S, next : Ahead(events, S, next) => Ahead(Clear(events, n), S \union {n}, next)
<1>1. /\ DOMAIN Clear(events, n) = DOMAIN events \ {n}
      /\ \A m \in DOMAIN Clear(events, n) : Clear(events, n)[m] = events[m]
  BY DEF Clear
<1>2. Clear(events, n) \in [DOMAIN Clear(events, n) -> Event]
  BY DEF Clear, PendingOf
<1>3. PendingOf(Clear(events, n), E)
  BY <1>1, <1>2 DEF PendingOf
<1>4. OnTheClock(Clear(events, n), now, slack)
  BY <1>1 DEF OnTheClock
<1>5. \A S, next : Ahead(events, S, next) => Ahead(Clear(events, n), S \union {n}, next)
  BY <1>1 DEF Ahead
<1>6. QED
  BY <1>3, <1>4, <1>5

(* A block of b cycles ends, before which no event was overdue. *)
LEMMA ElapseKeeps ==
  ASSUME NEW E, NEW events, PendingOf(events, E), NEW now \in Word, NEW slack \in Nat,
         OnTheClock(events, now, slack), NEW next \in Int, Ahead(events, E, next),
         NEW b \in 1 .. slack, \A d \in Delays : d + slack < Half
  PROVE  /\ PendingOf(Elapse(events, b), E)
         /\ OnTheClock(Elapse(events, b), Plus(now, b), slack)
         /\ next - b >= 0 => Ahead(Elapse(events, b), E, next - b)
         /\ \A n \in DOMAIN Due(events) : Due(events)[n] >= 0
<1>1. /\ DOMAIN Elapse(events, b) = DOMAIN events
      /\ \A n \in DOMAIN events :
           /\ events[n] \in Event
           /\ Elapse(events, b)[n] = [events[n] EXCEPT !.left = @ - b]
  BY DEF Elapse, PendingOf
<1>2. ASSUME NEW n \in DOMAIN events
      PROVE  /\ Elapse(events, b)[n] \in Event
             /\ Elapse(events, b)[n].sCycle = events[n].sCycle
             /\ Elapse(events, b)[n].eCycle = events[n].eCycle
             /\ Elapse(events, b)[n].left = events[n].left - b
             /\ events[n].sCycle \in Word /\ events[n].eCycle \in Delays /\ events[n].left \in Int
             /\ events[n].left >= 0 /\ next <= events[n].left
  <2>1. n \in DOMAIN events \intersect E
    BY DEF PendingOf
  <2>2. QED
    BY <1>1, <2>1 DEF Event, Ahead
<1>3. PendingOf(Elapse(events, b), E)
  <2>1. Elapse(events, b) \in [DOMAIN Elapse(events, b) -> Event]
    BY <1>1, <1>2 DEF Elapse
  <2>2. QED
    BY <1>1, <2>1 DEF PendingOf
<1>4. OnTheClock(Elapse(events, b), Plus(now, b), slack)
  <2> SUFFICES ASSUME NEW n \in DOMAIN events
               PROVE  /\ Minus(Plus(now, b), events[n].sCycle) >= 0
                      /\ events[n].left - b =
                           events[n].eCycle - Minus(Plus(now, b), events[n].sCycle)
                      /\ events[n].left - b >= -slack
    BY <1>1, <1>2 DEF OnTheClock
  <2> DEFINE a == Minus(now, events[n].sCycle)
  <2>1. a \in -Half .. Half - 1
    BY <1>2, MinusRange
  <2>2. a >= 0 /\ events[n].left = events[n].eCycle - a /\ events[n].eCycle \in Nat /\ Half \in Nat
    BY <1>2, EeIopEventsAssumption DEF OnTheClock
  <2>3. events[n].eCycle + slack < Half
    BY <1>2
  <2>4. a + b < Half /\ -Half <= a + b
    <3> HIDE DEF a
    <3>1. QED
      BY <1>2, <2>1, <2>2, <2>3
  <2>5. Minus(Plus(now, b), events[n].sCycle) = a + b
    BY <1>2, <2>4, MinusPlus
  <2> HIDE DEF a
  <2>6. QED
    BY <1>2, <2>1, <2>2, <2>5
<1>5. next - b >= 0 => Ahead(Elapse(events, b), E, next - b)
  <2> SUFFICES ASSUME next - b >= 0, NEW n \in DOMAIN events
               PROVE  events[n].left - b >= 0 /\ next - b <= events[n].left - b
    BY <1>1, <1>2 DEF Ahead
  <2>1. QED
    BY <1>2
<1>6. \A n \in DOMAIN Due(events) : Due(events)[n] >= 0
  BY <1>1, <1>2 DEF Due
<1>7. QED
  BY <1>3, <1>4, <1>5, <1>6

(* An event is found due exactly when its time has come. *)
LEMMA DueInTime ==
  ASSUME NEW E, NEW events, PendingOf(events, E), NEW now \in Word, NEW slack \in Nat,
         OnTheClock(events, now, slack), NEW n
  PROVE  IsDue(events, n, now) <=> n \in DOMAIN events /\ events[n].left <= 0
<1>1. CASE n \in DOMAIN events
  <2>1. events[n].sCycle \in Word /\ events[n].eCycle \in Nat
    BY <1>1, EeIopEventsAssumption DEF PendingOf, Event
  <2>2. Minus(now, events[n].sCycle) \in Int
    BY <2>1, MinusRange
  <2>3. events[n].left = events[n].eCycle - Minus(now, events[n].sCycle)
    BY <1>1 DEF OnTheClock
  <2>4. QED
    BY <1>1, <2>1, <2>2, <2>3 DEF IsDue, TestCycle
<1>2. CASE n \notin DOMAIN events
  BY <1>2 DEF IsDue
<1>3. QED
  BY <1>1, <1>2

(* The test of an event that is not due brings the branch before it, if it *)
(* was not, and no nearer than that.                                       *)
LEMMA EventBranch ==
  ASSUME NEW E, NEW events, PendingOf(events, E), NEW now \in Word, NEW slack \in Nat,
         OnTheClock(events, now, slack), NEW n, ~IsDue(events, n, now), NEW S,
         NEW next \in Word, Ahead(events, S, Minus(next, now)), -Half < Minus(next, now),
         \A d \in Delays : d + Minus(next, now) <= Half
  PROVE  LET nearer == SetEventBranch(next, events, n) IN
         /\ nearer \in Word
         /\ Minus(nearer, now) <= Minus(next, now)
         /\ Minus(nearer, now) < Minus(next, now) => Minus(nearer, now) > 0
         /\ Ahead(events, S \union {n}, Minus(nearer, now))
<1> DEFINE nearer == SetEventBranch(next, events, n)
<1>1. CASE n \notin DOMAIN events
  <2>1. nearer = next
    BY <1>1 DEF SetEventBranch
  <2>2. Minus(next, now) \in Int
    BY MinusRange
  <2>3. Ahead(events, S \union {n}, Minus(next, now))
    BY <1>1 DEF Ahead
  <2>4. QED
    BY <2>1, <2>2, <2>3
<1>2. CASE n \in DOMAIN events
  <2> DEFINE e == events[n]
             a == Minus(now, e.sCycle)
             r == Minus(next, now)
  <2>1. e.sCycle \in Word /\ e.eCycle \in Delays /\ e.left \in Int
    BY <1>2 DEF PendingOf, Event
  <2>2. a \in -Half .. Half - 1 /\ r \in -Half .. Half - 1
    BY <2>1, MinusRange
  <2>3. e.eCycle \in Nat /\ Half \in Nat \ {0}
    BY <2>1, EeIopEventsAssumption
  <2>4. a >= 0 /\ e.left = e.eCycle - a
    BY <1>2 DEF OnTheClock
  <2>5. e.left > 0
    BY <1>2, <2>1, DueInTime
  <2>6. e.eCycle + r <= Half /\ -Half < r
    BY <2>1
  <2>7. -Half <= r + a /\ r + a < Half /\ -Half < e.eCycle - a /\ a >= 0
    <3> HIDE DEF e, a, r
    <3>1. QED
      BY <2>2, <2>3, <2>4, <2>5, <2>6
  <2>8. /\ SetNextBranch(next, e.sCycle, e.eCycle) \in Word
        /\ Minus(SetNextBranch(next, e.sCycle, e.eCycle), now) =
             IF e.eCycle - a < r THEN e.eCycle - a ELSE r
    <3>1. e.eCycle \in Int
      BY <2>3
    <3>2. QED
      BY <2>1, <2>7, <3>1, BranchNearer
  <2>9. nearer \in Word /\ Minus(nearer, now) = IF e.left < r THEN e.left ELSE r
    <3>1. nearer = SetNextBranch(next, e.sCycle, e.eCycle)
      BY <1>2 DEF SetEventBranch
    <3>2. QED
      BY <2>4, <2>8, <3>1
  <2>10. Ahead(events, S \union {n}, Minus(nearer, now))
    <3> SUFFICES ASSUME NEW m \in DOMAIN events \intersect (S \union {n})
                 PROVE  events[m].left >= 0 /\ Minus(nearer, now) <= events[m].left
      BY DEF Ahead
    <3>1. CASE m = n
      BY <2>1, <2>2, <2>5, <2>9, <3>1
    <3>2. CASE m \in S
      <4>1. events[m].left \in Int /\ events[m].left >= 0 /\ r <= events[m].left
        BY <3>2 DEF Ahead, PendingOf, Event
      <4>2. QED
        BY <2>1, <2>2, <2>9, <4>1
    <3>3. QED
      BY <3>1, <3>2
  <2>11. QED
    BY <2>1, <2>2, <2>5, <2>9, <2>10
<1>3. QED
  BY <1>1, <1>2

-----------------------------------------------------------------------------
(* The inductive invariant. *)

ToEeBranch == Minus(g_nextBranchCycle, cycle)
ToIopBranch == Minus(g_psxNextBranchCycle, psxCycle)
SinceEeTest == Minus(cycle, EEoCycle)

(* The EE's branch is overdue by no more than the IOP's last block and what *)
(* the IOP owed.                                                            *)
Late == Ratio * MaxIopBlock + MaxBehind

First(order, k) == {order[j] : j \in {i \in DOMAIN order : i < k}}

(* The events the next branch is known to come before: those the loop of *)
(* tests has passed, and all when no loop runs.  The IOP's event test is *)
(* not made when a slice ends, so that its events may be overdue until   *)
(* the event test of the EE makes it.                                    *)
EeTested == IF pc \in {"eeints", "eecall"} THEN First(EeOrder, ix) ELSE EeEvents
IopAwaited ==
  IF pc \in {"iopints", "iopcall"} THEN First(IopOrder, ix) ELSE IF pc = "iop" THEN IopEvents ELSE {}

Control ==
  /\ pc \in {"ee", "eeints", "eecall", "iopints", "iopcall", "iop", "resched"}
  /\ ix \in Nat \ {0} /\ inBlock \in BOOLEAN /\ iopBranchAction \in BOOLEAN
  /\ EEsCycle \in Int /\ psxCycleEE \in Int /\ psxBreak \in Int /\ lag \in Int
  /\ lag <= MaxBehind
  /\ inBlock = TRUE => pc \in {"iop", "iopints", "iopcall"}
  /\ pc = "iop" => inBlock = TRUE
  /\ inBlock = FALSE => psxCycleEE <= 0
  /\ pc # "ee" => EEoCycle = cycle

EeSide ==
  /\ cycle \in Word /\ g_nextBranchCycle \in Word /\ EEoCycle \in Word
  /\ ToEeBranch >= -Late
  /\ SinceEeTest >= 0 /\ SinceEeTest < eeWaitCycles
  /\ SinceEeTest + ToEeBranch <= eeWaitCycles
  /\ PendingOf(interrupt, EeEvents)
  /\ OnTheClock(interrupt, cycle, MaxEeBlock)
  /\ Ahead(interrupt, EeTested, ToEeBranch)

IopSide ==
  /\ psxCycle \in Word /\ g_psxNextBranchCycle \in Word
  /\ ToIopBranch >= -MaxIopBlock
  /\ pc \in {"iopints", "iopcall", "iop"} => ToIopBranch >= 0
  /\ \A d \in Delays \union {0} : ToIopBranch + d + MaxIopBlock < Half
  /\ PendingOf(psxInterrupt, IopEvents)
  /\ OnTheClock(psxInterrupt, psxCycle, MaxIopBlock)
  /\ Ahead(psxInterrupt, IopAwaited, ToIopBranch)

EventsInv == Control /\ ClocksAgree /\ EeSide /\ IopSide

LEMMA Constants ==
  /\ Half \in Nat \ {0} /\ Ratio \in Nat \ {0} /\ eeWaitCycles \in Nat \ {0}
  /\ MaxEeBlock \in Nat \ {0} /\ MaxIopBlock \in Nat \ {0} /\ MaxBehind \in Nat \ {0}
  /\ Soon \in Nat /\ IntcDelta \in Nat /\ Rapid \in Nat /\ AheadLimit \in Nat
  /\ Late \in Nat /\ Late + MaxEeBlock < Half
  /\ 4 <= eeWaitCycles /\ eeWaitCycles + MaxEeBlock <= Half
  /\ MaxIopBlock < Half
  /\ \A d \in Delays :
       d \in Nat /\ d + MaxEeBlock < Half /\ d + MaxIopBlock < Half /\ eeWaitCycles + d <= Half
  /\ \A c \in CounterDelays : c \in Nat \ {0} /\ c + MaxIopBlock < Half
<1>1. /\ Half \in Nat \ {0} /\ Ratio \in Nat \ {0} /\ eeWaitCycles \in Nat \ {0}
      /\ MaxEeBlock \in Nat \ {0} /\ MaxIopBlock \in Nat \ {0} /\ MaxBehind \in Nat \ {0}
      /\ Soon \in Nat /\ IntcDelta \in Nat /\ Rapid \in Nat /\ AheadLimit \in Nat
      /\ Delays \subseteq Nat /\ CounterDelays \subseteq Nat \ {0}
  BY EeIopEventsAssumption
<1>2. Late \in Nat
  <2>1. Ratio * MaxIopBlock \in Nat
    BY <1>1
  <2>2. QED
    BY <1>1, <2>1 DEF Late
<1>3. Late + MaxEeBlock < Half
  BY HorizonAssumption DEF Late
<1>4. 4 <= eeWaitCycles /\ eeWaitCycles + MaxEeBlock <= Half
  <2>1. eeWaitCycles + MaxEeBlock + 0 <= Half
    BY HorizonAssumption
  <2>2. QED
    BY <1>1, <2>1, HorizonAssumption
<1>5. MaxIopBlock < Half
  <2>1. 0 + 4 + MaxIopBlock < Half
    BY HorizonAssumption
  <2>2. QED
    BY <1>1, <2>1
<1>6. ASSUME NEW d \in Delays
      PROVE  d \in Nat /\ d + MaxEeBlock < Half /\ d + MaxIopBlock < Half /\ eeWaitCycles + d <= Half
  <2>1. eeWaitCycles + MaxEeBlock + d <= Half /\ d + 4 + MaxIopBlock < Half
    BY HorizonAssumption
  <2>2. QED
    BY <1>1, <2>1
<1>7. ASSUME NEW c \in CounterDelays
      PROVE  c \in Nat \ {0} /\ c + MaxIopBlock < Half
  <2>1. 0 + c + MaxIopBlock < Half
    BY HorizonAssumption
  <2>2. QED
    BY <1>1, <2>1
<1>8. QED
  BY <1>1, <1>2, <1>3, <1>4, <1>5, <1>6, <1>7

(* SetNextBranch with a start that is now. *)
LEMMA BranchFromNow ==
  ASSUME NEW next \in Word, NEW now \in Word, NEW delta \in Int, -Half < delta
  PROVE  /\ SetNextBranch(next, now, delta) \in Word
         /\ Minus(SetNextBranch(next, now, delta), now) =
              IF delta < Minus(next, now) THEN delta ELSE Minus(next, now)
<1>1. Minus(now, now) = 0 /\ Minus(next, now) \in -Half .. Half - 1 /\ Half \in Nat
  BY MinusRange, Constants
<1>2. /\ Minus(now, now) >= 0
      /\ -Half <= Minus(next, now) + Minus(now, now)
      /\ Minus(next, now) + Minus(now, now) < Half
      /\ -Half < delta - Minus(now, now)
      /\ delta - Minus(now, now) = delta
  BY <1>1
<1>3. QED
  BY <1>2, BranchNearer

(* The time the IOP has to its branch, in the EE's cycles. *)
LEMMA Scaled ==
  ASSUME NEW m \in Int, m >= -MaxIopBlock
  PROVE  Ratio * m \in Int /\ Ratio * m >= -(Ratio * MaxIopBlock)
<1>1. Ratio \in Nat /\ MaxIopBlock \in Nat
  BY Constants
<1>2. Ratio * (m + MaxIopBlock) >= 0
  BY <1>1
<1>3. Ratio * (m + MaxIopBlock) = Ratio * m + Ratio * MaxIopBlock
  BY <1>1
<1>4. Ratio * m \in Int /\ Ratio * MaxIopBlock \in Int
  BY <1>1
<1>5. QED
  BY <1>2, <1>3, <1>4

LEMMA FirstEvents ==
  /\ \A k \in Nat : First(EeOrder, k) \subseteq EeEvents /\ First(IopOrder, k) \subseteq IopEvents
  /\ First(EeOrder, 1) = {} /\ First(IopOrder, 1) = {}
  /\ \A k \in Nat : k > Len(EeOrder) => First(EeOrder, k) = EeEvents
  /\ \A k \in Nat : k > Len(IopOrder) => First(IopOrder, k) = IopEvents
  /\ \A k \in 1 .. Len(EeOrder) : First(EeOrder, k + 1) = First(EeOrder, k) \union {EeOrder[k]}
  /\ \A k \in 1 .. Len(IopOrder) : First(IopOrder, k + 1) = First(IopOrder, k) \union {IopOrder[k]}
<1>1. /\ EeEvents = {EeOrder[i] : i \in DOMAIN EeOrder}
      /\ IopEvents = {IopOrder[i] : i \in DOMAIN IopOrder}
  BY DEF EeEvents, IopEvents
<1>2. /\ Len(EeOrder) \in Nat /\ DOMAIN EeOrder = 1 .. Len(EeOrder)
      /\ Len(IopOrder) \in Nat /\ DOMAIN IopOrder = 1 .. Len(IopOrder)
  BY EeIopEventsAssumption
<1>3. QED
  BY <1>1, <1>2 DEF First

-----------------------------------------------------------------------------
(* The EE's side. *)

LEMMA EeTypes ==
  ASSUME EeSide
  PROVE  /\ ToEeBranch \in -Half .. Half - 1 /\ SinceEeTest \in -Half .. Half - 1
         /\ -Half < ToEeBranch
         /\ \A d \in Delays : d + ToEeBranch <= Half
<1>1. ToEeBranch \in -Half .. Half - 1 /\ SinceEeTest \in -Half .. Half - 1
  BY MinusRange DEF EeSide, ToEeBranch, SinceEeTest
<1>2. ToEeBranch >= -Late /\ ToEeBranch <= eeWaitCycles
  BY <1>1, Constants DEF EeSide
<1>3. QED
  BY <1>1, <1>2, Constants

(* The branch may only come nearer, and the loop of tests may only end or *)
(* begin.                                                                 *)
LEMMA EeFrame ==
  ASSUME EeSide, UNCHANGED <<cycle, EEoCycle, interrupt>>, EeTested' \subseteq EeTested,
         g_nextBranchCycle' \in Word, ToEeBranch' >= -Late, ToEeBranch' <= ToEeBranch
  PROVE  EeSide'
<1>1. ToEeBranch \in Int /\ ToEeBranch' \in Int /\ SinceEeTest \in Int
  <2>1. Minus(g_nextBranchCycle', cycle') \in Int
    BY MinusRange DEF EeSide
  <2>2. QED
    BY <2>1, EeTypes, Constants DEF ToEeBranch
<1>2. SinceEeTest' = SinceEeTest
  BY DEF SinceEeTest
<1>3. SinceEeTest' + ToEeBranch' <= eeWaitCycles
  <2>1. SinceEeTest + ToEeBranch <= eeWaitCycles /\ eeWaitCycles \in Nat
    BY Constants DEF EeSide
  <2>2. QED
    BY <1>1, <1>2, <2>1 DEF ToEeBranch, SinceEeTest
<1>4. Ahead(interrupt, EeTested', ToEeBranch')
  BY <1>1, AheadNearer DEF EeSide, ToEeBranch
<1>5. QED
  BY <1>2, <1>3, <1>4 DEF EeSide

(* What the EE's side sees of the actions of devices: the branch, set from *)
(* now, comes nearer, an event is asked for, or neither.                   *)
LEMMA EeNearer ==
  ASSUME EeSide, UNCHANGED <<cycle, EEoCycle, interrupt, pc, ix>>,
         NEW delta \in Int, delta >= -Late,
         g_nextBranchCycle' = SetNextBranch(g_nextBranchCycle, cycle, delta)
  PROVE  EeSide'
<1>1. cycle \in Word /\ g_nextBranchCycle \in Word /\ ToEeBranch \in Int /\ ToEeBranch >= -Late
  BY EeTypes, Constants DEF EeSide
<1>2. -Half < delta
  BY Constants
<1>3. /\ g_nextBranchCycle' \in Word
      /\ ToEeBranch' = IF delta < ToEeBranch THEN delta ELSE ToEeBranch
  BY <1>1, <1>2, BranchFromNow DEF ToEeBranch
<1>4. EeTested' = EeTested
  BY DEF EeTested
<1>5. QED
  BY <1>1, <1>3, <1>4, EeFrame

LEMMA EeSame ==
  ASSUME EeSide, UNCHANGED <<cycle, EEoCycle, interrupt, g_nextBranchCycle>>,
         EeTested' \subseteq EeTested
  PROVE  EeSide'
<1>1. ToEeBranch' = ToEeBranch /\ ToEeBranch \in Int /\ ToEeBranch >= -Late
  BY EeTypes, Constants DEF ToEeBranch, EeSide
<1>2. QED
  BY <1>1, EeFrame DEF EeSide

LEMMA EeAsked ==
  ASSUME EeSide, NEW n \in EeEvents, NEW d \in Delays, CPU_INT(n, d)
  PROVE  EeSide' /\ EeAgenda!Ask(n, d)
<1>1. /\ cycle \in Word /\ cycle' = cycle /\ g_nextBranchCycle \in Word
      /\ EEoCycle' = EEoCycle /\ pc' = pc /\ ix' = ix
      /\ ToEeBranch \in Int /\ ToEeBranch >= -Late
      /\ d \in Nat /\ Half \in Nat \ {0} /\ MaxEeBlock \in Nat /\ Late \in Nat
  BY EeTypes, Constants DEF EeSide, CPU_INT, sync, control
<1>2. -Half < d
  BY <1>1
<1>3. /\ g_nextBranchCycle' \in Word
      /\ ToEeBranch' = IF d < ToEeBranch THEN d ELSE ToEeBranch
  <2>1. g_nextBranchCycle' = SetNextBranch(g_nextBranchCycle, cycle, d)
    BY DEF CPU_INT
  <2>2. /\ SetNextBranch(g_nextBranchCycle, cycle, d) \in Word
        /\ Minus(SetNextBranch(g_nextBranchCycle, cycle, d), cycle) =
             IF d < ToEeBranch THEN d ELSE ToEeBranch
    <3>1. d \in Int
      BY <1>1
    <3>2. QED
      BY <1>1, <1>2, <3>1, BranchFromNow DEF ToEeBranch
  <2>3. QED
    BY <1>1, <2>1, <2>2 DEF ToEeBranch
<1>4. /\ PendingOf(interrupt', EeEvents)
      /\ OnTheClock(interrupt', cycle, MaxEeBlock)
      /\ Ahead(interrupt', EeTested, ToEeBranch')
  <2>1. ToEeBranch' \in Int /\ ToEeBranch' <= ToEeBranch /\ ToEeBranch' <= d
    BY <1>1, <1>3 DEF ToEeBranch
  <2>2. interrupt' = Ask(interrupt, n, cycle, d)
    BY DEF CPU_INT
  <2>3. /\ PendingOf(interrupt, EeEvents) /\ OnTheClock(interrupt, cycle, MaxEeBlock)
        /\ Ahead(interrupt, EeTested, ToEeBranch)
    BY DEF EeSide
  <2>4. /\ PendingOf(Ask(interrupt, n, cycle, d), EeEvents)
        /\ OnTheClock(Ask(interrupt, n, cycle, d), cycle, MaxEeBlock)
    <3>1. cycle \in Word /\ MaxEeBlock \in Nat
      BY <1>1
    <3>2. QED
      BY <2>3, <3>1, AskKeeps
  <2>5. Ahead(interrupt, EeTested, ToEeBranch')
    <3>1. EeTested \subseteq EeTested /\ ToEeBranch \in Int
      BY <1>1
    <3>2. QED
      BY <2>1, <2>3, <3>1, AheadNearer
  <2>6. Ahead(Ask(interrupt, n, cycle, d), EeTested, ToEeBranch')
    BY <2>1, <2>5, AskAhead
  <2>7. QED
    BY <2>2, <2>4, <2>6
<1>5. SinceEeTest' = SinceEeTest /\ EeTested' = EeTested
  BY <1>1 DEF SinceEeTest, EeTested
<1>6. ToEeBranch' >= -Late /\ SinceEeTest + ToEeBranch' <= eeWaitCycles
  BY <1>1, <1>3, EeTypes, Constants DEF EeSide
<1>7. EeSide'
  BY <1>1, <1>3, <1>4, <1>5, <1>6 DEF EeSide
<1>8. EeAgenda!Ask(n, d)
  <2>1. interrupt' = Ask(interrupt, n, cycle, d)
    BY DEF CPU_INT
  <2>2. QED
    BY <2>1 DEF EeAgenda!Ask, Due, Ask
<1>9. QED
  BY <1>7, <1>8

(* The loop of tests passes an event: delivered when due, and ahead of the *)
(* branch when not.                                                        *)
LEMMA EeTests ==
  ASSUME Control, EeSide, TESTINT
  PROVE  EeSide' /\ [EeAgenda!Next]_(Due(interrupt))
<1> DEFINE n == EeOrder[ix]
<1>1. /\ pc = "eeints" /\ ix \in 1 .. Len(EeOrder) /\ ix' = ix + 1
      /\ UNCHANGED <<cycle, EEoCycle>> /\ pc' \in {"eeints", "eecall"}
      /\ cycle \in Word /\ g_nextBranchCycle \in Word /\ MaxEeBlock \in Nat
      /\ ToEeBranch \in Int /\ ToEeBranch >= -Late
  <2>1. ix \in Nat \ {0} /\ pc = "eeints" /\ ix <= Len(EeOrder) /\ ix' = ix + 1
    BY DEF Control, TESTINT
  <2>2. Len(EeOrder) \in Nat
    BY EeIopEventsAssumption
  <2>3. UNCHANGED <<cycle, EEoCycle>> /\ pc' \in {"eeints", "eecall"}
    BY <2>1 DEF TESTINT, sync
  <2>4. QED
    BY <2>1, <2>2, <2>3, EeTypes, Constants DEF EeSide
<1>2. EeTested = First(EeOrder, ix) /\ EeTested' = First(EeOrder, ix) \union {n}
  <2>1. First(EeOrder, ix + 1) = First(EeOrder, ix) \union {n}
    BY <1>1, FirstEvents
  <2>2. EeTested = First(EeOrder, ix) /\ EeTested' = First(EeOrder, ix')
    BY <1>1 DEF EeTested
  <2>3. QED
    BY <1>1, <2>1, <2>2
<1>3. /\ PendingOf(interrupt, EeEvents) /\ OnTheClock(interrupt, cycle, MaxEeBlock)
      /\ Ahead(interrupt, First(EeOrder, ix), ToEeBranch)
  BY <1>2 DEF EeSide
<1>4. CASE IsDue(interrupt, n, cycle)
  <2>1. /\ interrupt' = Clear(interrupt, n) /\ g_nextBranchCycle' = g_nextBranchCycle
    BY <1>4 DEF TESTINT
  <2>2. /\ PendingOf(interrupt', EeEvents) /\ OnTheClock(interrupt', cycle, MaxEeBlock)
        /\ Ahead(interrupt', First(EeOrder, ix) \union {n}, ToEeBranch)
    BY <1>1, <1>3, <2>1, ClearKeeps
  <2>3. EeSide'
    BY <1>1, <1>2, <2>1, <2>2 DEF EeSide, ToEeBranch, SinceEeTest
  <2>4. n \in DOMAIN interrupt /\ interrupt[n].left <= 0
    BY <1>1, <1>3, <1>4, DueInTime
  <2>5. EeAgenda!Deliver(n)
    BY <2>1, <2>4 DEF EeAgenda!Deliver, Due, Clear
  <2>6. n \in DOMAIN Due(interrupt)
    BY <2>4 DEF Due
  <2>7. QED
    BY <2>3, <2>5, <2>6 DEF EeAgenda!Next
<1>5. CASE ~IsDue(interrupt, n, cycle)
  <2>1. /\ interrupt' = interrupt
        /\ g_nextBranchCycle' = SetEventBranch(g_nextBranchCycle, interrupt, n)
    BY <1>5 DEF TESTINT
  <2>2. /\ g_nextBranchCycle' \in Word
        /\ Minus(g_nextBranchCycle', cycle) <= ToEeBranch
        /\ Minus(g_nextBranchCycle', cycle) < ToEeBranch => Minus(g_nextBranchCycle', cycle) > 0
        /\ Ahead(interrupt, First(EeOrder, ix) \union {n}, Minus(g_nextBranchCycle', cycle))
    <3>1. -Half < ToEeBranch /\ \A d \in Delays : d + ToEeBranch <= Half
      BY EeTypes
    <3>2. QED
      BY <1>1, <1>3, <1>5, <2>1, <3>1, EventBranch DEF ToEeBranch
  <2>3. Minus(g_nextBranchCycle', cycle) \in Int /\ Late \in Nat /\ SinceEeTest \in Int
    BY <1>1, <2>2, MinusRange, EeTypes, Constants
  <2>4. /\ Minus(g_nextBranchCycle', cycle) >= -Late
        /\ SinceEeTest + Minus(g_nextBranchCycle', cycle) <= eeWaitCycles
    <3>1. SinceEeTest + ToEeBranch <= eeWaitCycles /\ eeWaitCycles \in Nat
      BY Constants DEF EeSide
    <3>2. QED
      BY <1>1, <2>2, <2>3, <3>1
  <2>5. EeSide'
    BY <1>1, <1>2, <1>3, <2>1, <2>2, <2>4 DEF EeSide, ToEeBranch, SinceEeTest
  <2>6. QED
    BY <2>1, <2>5 DEF Due
<1>6. QED
  BY <1>4, <1>5

(* A block ends. *)
LEMMA EeRuns ==
  ASSUME Control, EeSide, NEW b \in 1 .. MaxEeBlock, EeBlock(b)
  PROVE  /\ EeSide'
         /\ EeAgenda!Pass(b)
         /\ Minus(cycle', EEoCycle) = SinceEeTest + b
<1>1. /\ pc = "ee" /\ cycle \in Word /\ g_nextBranchCycle \in Word /\ EEoCycle \in Word
      /\ cycle' = Plus(cycle, b) /\ interrupt' = Elapse(interrupt, b)
      /\ EeTested = EeEvents
  BY DEF EeBlock, EeSide, EeTested
<1>2. /\ ToEeBranch \in -Half .. Half - 1 /\ ToEeBranch > -Half /\ SinceEeTest \in Int
      /\ -Late <= ToEeBranch /\ SinceEeTest >= 0 /\ SinceEeTest < eeWaitCycles
      /\ SinceEeTest + ToEeBranch <= eeWaitCycles
      /\ Half \in Nat \ {0} /\ eeWaitCycles \in Nat \ {0} /\ MaxEeBlock \in Nat \ {0} /\ Late \in Nat
      /\ Late + MaxEeBlock < Half /\ eeWaitCycles + MaxEeBlock <= Half
  BY EeTypes, Constants DEF EeSide
<1>3. Minus(Plus(cycle, b), EEoCycle) = SinceEeTest + b /\ Plus(cycle, b) \in Word
  <2>1. -Half <= SinceEeTest + b /\ SinceEeTest + b < Half /\ b \in Int
    BY <1>2
  <2>2. QED
    BY <1>1, <2>1, MinusPlus DEF SinceEeTest
<1>4. /\ Minus(Plus(cycle, b), g_nextBranchCycle) = b - ToEeBranch
      /\ Minus(g_nextBranchCycle, Plus(cycle, b)) = ToEeBranch - b
  <2>1. Minus(cycle, g_nextBranchCycle) = -ToEeBranch
    BY <1>1, <1>2, MinusRange DEF ToEeBranch
  <2>2. /\ -Half <= Minus(cycle, g_nextBranchCycle) + b
        /\ Minus(cycle, g_nextBranchCycle) + b < Half
        /\ b \in Int /\ Minus(cycle, g_nextBranchCycle) + b = b - ToEeBranch
        /\ b - ToEeBranch # -Half
    BY <1>2, <2>1
  <2>3. Minus(Plus(cycle, b), g_nextBranchCycle) = b - ToEeBranch
    BY <1>1, <2>2, MinusPlus
  <2>4. Minus(g_nextBranchCycle, Plus(cycle, b)) = -(b - ToEeBranch)
    BY <1>1, <1>3, <2>2, <2>3, MinusRange
  <2>5. QED
    BY <1>2, <2>3, <2>4
<1>5. /\ PendingOf(interrupt', EeEvents)
      /\ OnTheClock(interrupt', Plus(cycle, b), MaxEeBlock)
      /\ ToEeBranch - b >= 0 => Ahead(interrupt', EeEvents, ToEeBranch - b)
      /\ \A n \in DOMAIN Due(interrupt) : Due(interrupt)[n] >= 0
  <2>1. /\ PendingOf(interrupt, EeEvents) /\ OnTheClock(interrupt, cycle, MaxEeBlock)
        /\ Ahead(interrupt, EeEvents, ToEeBranch)
    BY <1>1 DEF EeSide
  <2>2. \A d \in Delays : d + MaxEeBlock < Half
    BY Constants
  <2>3. cycle \in Word /\ MaxEeBlock \in Nat /\ ToEeBranch \in Int
    BY <1>1, <1>2
  <2>4. QED
    BY <1>1, <2>1, <2>2, <2>3, ElapseKeeps
<1>6. EeAgenda!Pass(b)
  BY <1>1, <1>5 DEF EeAgenda!Pass, Due, Elapse
<1>7. CASE Minus(cycle', g_nextBranchCycle) >= 0
  <2>1. /\ g_nextBranchCycle' = Plus(cycle', eeWaitCycles) /\ EEoCycle' = cycle'
        /\ pc' = "eeints" /\ ix' = 1
    BY <1>7 DEF EeBlock
  <2>2. cycle' \in Word /\ Minus(cycle', cycle') = 0
    BY <1>1, <1>3, MinusRange
  <2>3. Plus(cycle', eeWaitCycles) \in Word /\ Minus(Plus(cycle', eeWaitCycles), cycle') = eeWaitCycles
    <3>1. /\ -Half <= Minus(cycle', cycle') + eeWaitCycles /\ Minus(cycle', cycle') + eeWaitCycles < Half
          /\ Minus(cycle', cycle') + eeWaitCycles = eeWaitCycles /\ eeWaitCycles \in Int
      BY <1>2, <2>2
    <3>2. QED
      BY <2>2, <3>1, MinusPlus
  <2>4. EeTested' = {}
    BY <2>1, FirstEvents DEF EeTested
  <2>5. Ahead(interrupt', EeTested', ToEeBranch')
    BY <2>4 DEF Ahead
  <2>6. ToEeBranch' = eeWaitCycles /\ SinceEeTest' = 0
    BY <2>1, <2>2, <2>3 DEF ToEeBranch, SinceEeTest
  <2>7. QED
    BY <1>1, <1>2, <1>3, <1>5, <1>6, <2>1, <2>2, <2>3, <2>5, <2>6
    DEF EeSide, ToEeBranch, SinceEeTest
<1>8. CASE ~(Minus(cycle', g_nextBranchCycle) >= 0)
  <2>1. /\ g_nextBranchCycle' = g_nextBranchCycle /\ EEoCycle' = EEoCycle
        /\ pc' = pc /\ ix' = ix
    BY <1>8 DEF EeBlock
  <2>2. ToEeBranch - b > 0
    BY <1>1, <1>2, <1>4, <1>8
  <2>3. Ahead(interrupt', EeTested', Minus(g_nextBranchCycle', cycle'))
    <3>1. ToEeBranch - b >= 0
      BY <1>2, <2>2
    <3>2. QED
      BY <1>1, <1>4, <1>5, <2>1, <3>1 DEF EeTested
  <2>4. /\ Minus(g_nextBranchCycle', cycle') = ToEeBranch - b
        /\ Minus(cycle', EEoCycle') = SinceEeTest + b
    BY <1>1, <1>3, <1>4, <2>1
  <2>5. /\ ToEeBranch - b >= -Late /\ SinceEeTest + b >= 0
        /\ SinceEeTest + b < eeWaitCycles
        /\ SinceEeTest + b + (ToEeBranch - b) <= eeWaitCycles
    BY <1>2, <2>2
  <2>6. QED
    BY <1>1, <1>2, <1>3, <1>5, <1>6, <2>1, <2>3, <2>4, <2>5
    DEF EeSide, ToEeBranch, SinceEeTest
<1>9. QED
  BY <1>1, <1>3, <1>7, <1>8

-----------------------------------------------------------------------------
(* The IOP's side. *)

LEMMA IopTypes ==
  ASSUME IopSide
  PROVE  /\ ToIopBranch \in -Half .. Half - 1
         /\ -Half < ToIopBranch
         /\ \A d \in Delays : d + ToIopBranch <= Half
<1>1. ToIopBranch \in -Half .. Half - 1
  BY MinusRange DEF IopSide, ToIopBranch
<1>2. ToIopBranch >= -MaxIopBlock /\ MaxIopBlock < Half /\ MaxIopBlock \in Nat /\ Half \in Nat
  BY Constants DEF IopSide
<1>3. ASSUME NEW d \in Delays PROVE d + ToIopBranch <= Half
  <2>1. ToIopBranch + d + MaxIopBlock < Half /\ d \in Nat
    BY Constants DEF IopSide
  <2>2. QED
    BY <1>1, <1>2, <2>1
<1>4. QED
  BY <1>1, <1>2, <1>3

LEMMA IopFrame ==
  ASSUME IopSide, UNCHANGED <<psxCycle, psxInterrupt>>, IopAwaited' \subseteq IopAwaited,
         g_psxNextBranchCycle' \in Word,
         ToIopBranch' >= -MaxIopBlock, ToIopBranch' <= ToIopBranch,
         pc' \in {"iopints", "iopcall", "iop"} => ToIopBranch' >= 0
  PROVE  IopSide'
<1>1. ToIopBranch \in Int /\ ToIopBranch' \in Int
  <2>1. Minus(g_psxNextBranchCycle', psxCycle') \in Int
    BY MinusRange DEF IopSide
  <2>2. QED
    BY <2>1, IopTypes, Constants DEF ToIopBranch
<1>2. ASSUME NEW d \in Delays \union {0}
      PROVE  ToIopBranch' + d + MaxIopBlock < Half
  <2>1. ToIopBranch + d + MaxIopBlock < Half /\ d \in Nat /\ MaxIopBlock \in Nat /\ Half \in Nat
    BY Constants DEF IopSide
  <2>2. QED
    BY <1>1, <2>1 DEF ToIopBranch
<1>3. Ahead(psxInterrupt, IopAwaited', ToIopBranch')
  BY <1>1, AheadNearer DEF IopSide, ToIopBranch
<1>4. QED
  BY <1>2, <1>3 DEF IopSide

LEMMA IopSame ==
  ASSUME IopSide, UNCHANGED <<psxCycle, psxInterrupt, g_psxNextBranchCycle>>,
         IopAwaited' \subseteq IopAwaited,
         pc' \in {"iopints", "iopcall", "iop"} => pc \in {"iopints", "iopcall", "iop"}
  PROVE  IopSide'
<1>1. /\ ToIopBranch' = ToIopBranch /\ ToIopBranch \in Int /\ ToIopBranch >= -MaxIopBlock
      /\ pc \in {"iopints", "iopcall", "iop"} => ToIopBranch >= 0
  BY IopTypes, Constants DEF ToIopBranch, IopSide
<1>2. QED
  BY <1>1, IopFrame DEF IopSide

(* The branch, set from now, comes nearer. *)
LEMMA IopNearer ==
  ASSUME IopSide, UNCHANGED <<psxCycle, psxInterrupt, pc, ix>>, NEW delta \in Nat,
         g_psxNextBranchCycle' = SetNextBranch(g_psxNextBranchCycle, psxCycle, delta)
  PROVE  IopSide'
<1>1. /\ psxCycle \in Word /\ g_psxNextBranchCycle \in Word /\ ToIopBranch \in Int
      /\ ToIopBranch >= -MaxIopBlock /\ MaxIopBlock \in Nat /\ Half \in Nat \ {0}
      /\ pc \in {"iopints", "iopcall", "iop"} => ToIopBranch >= 0
  BY IopTypes, Constants DEF IopSide
<1>2. -Half < delta /\ delta \in Int
  BY <1>1
<1>3. /\ g_psxNextBranchCycle' \in Word
      /\ ToIopBranch' = IF delta < ToIopBranch THEN delta ELSE ToIopBranch
  BY <1>1, <1>2, BranchFromNow DEF ToIopBranch
<1>4. IopAwaited' = IopAwaited
  BY DEF IopAwaited
<1>5. QED
  BY <1>1, <1>3, <1>4, IopFrame DEF ToIopBranch

LEMMA IopAsked ==
  ASSUME IopSide, NEW n \in IopEvents, NEW d \in Delays, PSX_INT(n, d)
  PROVE  IopSide' /\ IopAgenda!Ask(n, d) /\ ToIopBranch' >= -MaxIopBlock
<1>1. /\ psxCycle \in Word /\ psxCycle' = psxCycle /\ g_psxNextBranchCycle \in Word
      /\ pc' = pc /\ ix' = ix
      /\ ToIopBranch \in Int /\ ToIopBranch >= -MaxIopBlock
      /\ pc \in {"iopints", "iopcall", "iop"} => ToIopBranch >= 0
      /\ d \in Nat /\ Half \in Nat \ {0} /\ MaxIopBlock \in Nat
  BY IopTypes, Constants DEF IopSide, PSX_INT, control
<1>2. -Half < d
  BY <1>1
<1>3. /\ g_psxNextBranchCycle' \in Word
      /\ ToIopBranch' = IF d < ToIopBranch THEN d ELSE ToIopBranch
  <2>1. g_psxNextBranchCycle' = SetNextBranch(g_psxNextBranchCycle, psxCycle, d)
    BY DEF PSX_INT
  <2>2. /\ SetNextBranch(g_psxNextBranchCycle, psxCycle, d) \in Word
        /\ Minus(SetNextBranch(g_psxNextBranchCycle, psxCycle, d), psxCycle) =
             IF d < ToIopBranch THEN d ELSE ToIopBranch
    <3>1. d \in Int
      BY <1>1
    <3>2. QED
      BY <1>1, <1>2, <3>1, BranchFromNow DEF ToIopBranch
  <2>3. QED
    BY <1>1, <2>1, <2>2 DEF ToIopBranch
<1>4. /\ PendingOf(psxInterrupt', IopEvents)
      /\ OnTheClock(psxInterrupt', psxCycle, MaxIopBlock)
      /\ Ahead(psxInterrupt', IopAwaited, ToIopBranch')
  <2>1. ToIopBranch' \in Int /\ ToIopBranch' <= ToIopBranch /\ ToIopBranch' <= d
    BY <1>1, <1>3 DEF ToIopBranch
  <2>2. psxInterrupt' = Ask(psxInterrupt, n, psxCycle, d)
    BY DEF PSX_INT
  <2>3. /\ PendingOf(psxInterrupt, IopEvents) /\ OnTheClock(psxInterrupt, psxCycle, MaxIopBlock)
        /\ Ahead(psxInterrupt, IopAwaited, ToIopBranch)
    BY DEF IopSide
  <2>4. /\ PendingOf(Ask(psxInterrupt, n, psxCycle, d), IopEvents)
        /\ OnTheClock(Ask(psxInterrupt, n, psxCycle, d), psxCycle, MaxIopBlock)
    <3>1. psxCycle \in Word /\ MaxIopBlock \in Nat
      BY <1>1
    <3>2. QED
      BY <2>3, <3>1, AskKeeps
  <2>5. Ahead(psxInterrupt, IopAwaited, ToIopBranch')
    <3>1. IopAwaited \subseteq IopAwaited /\ ToIopBranch \in Int
      BY <1>1
    <3>2. QED
      BY <2>1, <2>3, <3>1, AheadNearer
  <2>6. Ahead(Ask(psxInterrupt, n, psxCycle, d), IopAwaited, ToIopBranch')
    BY <2>1, <2>5, AskAhead
  <2>7. QED
    BY <2>2, <2>4, <2>6
<1>5. IopAwaited' = IopAwaited
  BY <1>1 DEF IopAwaited
<1>6. /\ ToIopBranch' >= -MaxIopBlock
      /\ pc \in {"iopints", "iopcall", "iop"} => ToIopBranch' >= 0
  BY <1>1, <1>3 DEF ToIopBranch
<1>7. ASSUME NEW e \in Delays \union {0}
      PROVE  ToIopBranch' + e + MaxIopBlock < Half
  <2>1. ToIopBranch + e + MaxIopBlock < Half /\ e \in Nat
    BY Constants DEF IopSide
  <2>2. QED
    BY <1>1, <1>3, <2>1 DEF ToIopBranch
<1>8. IopSide'
  BY <1>1, <1>3, <1>4, <1>5, <1>6, <1>7 DEF IopSide
<1>9. IopAgenda!Ask(n, d)
  <2>1. psxInterrupt' = Ask(psxInterrupt, n, psxCycle, d)
    BY DEF PSX_INT
  <2>2. QED
    BY <2>1 DEF IopAgenda!Ask, Due, Ask
<1>10. QED
  BY <1>6, <1>8, <1>9

LEMMA IopTests ==
  ASSUME Control, IopSide, IopTestEvent
  PROVE  IopSide' /\ [IopAgenda!Next]_(Due(psxInterrupt))
<1> DEFINE n == IopOrder[ix]
<1>1. /\ pc = "iopints" /\ ix \in 1 .. Len(IopOrder) /\ ix' = ix + 1
      /\ psxCycle' = psxCycle /\ pc' \in {"iopints", "iopcall"}
      /\ psxCycle \in Word /\ g_psxNextBranchCycle \in Word /\ MaxIopBlock \in Nat
      /\ ToIopBranch \in Int /\ ToIopBranch >= 0
  <2>1. ix \in Nat \ {0} /\ pc = "iopints" /\ ix <= Len(IopOrder) /\ ix' = ix + 1
    BY DEF Control, IopTestEvent
  <2>2. Len(IopOrder) \in Nat
    BY EeIopEventsAssumption
  <2>3. psxCycle' = psxCycle /\ pc' \in {"iopints", "iopcall"}
    BY <2>1 DEF IopTestEvent
  <2>4. QED
    BY <2>1, <2>2, <2>3, IopTypes, Constants DEF IopSide
<1>2. IopAwaited = First(IopOrder, ix) /\ IopAwaited' = First(IopOrder, ix) \union {n}
  <2>1. First(IopOrder, ix + 1) = First(IopOrder, ix) \union {n}
    BY <1>1, FirstEvents
  <2>2. IopAwaited = First(IopOrder, ix) /\ IopAwaited' = First(IopOrder, ix')
    BY <1>1 DEF IopAwaited
  <2>3. QED
    BY <1>1, <2>1, <2>2
<1>3. /\ PendingOf(psxInterrupt, IopEvents) /\ OnTheClock(psxInterrupt, psxCycle, MaxIopBlock)
      /\ Ahead(psxInterrupt, First(IopOrder, ix), ToIopBranch)
  BY <1>2 DEF IopSide
<1>4. CASE IsDue(psxInterrupt, n, psxCycle)
  <2>1. /\ psxInterrupt' = Clear(psxInterrupt, n) /\ g_psxNextBranchCycle' = g_psxNextBranchCycle
    BY <1>4 DEF IopTestEvent
  <2>2. /\ PendingOf(psxInterrupt', IopEvents) /\ OnTheClock(psxInterrupt', psxCycle, MaxIopBlock)
        /\ Ahead(psxInterrupt', First(IopOrder, ix) \union {n}, ToIopBranch)
    BY <1>1, <1>3, <2>1, ClearKeeps
  <2>3. IopSide'
    BY <1>1, <1>2, <2>1, <2>2 DEF IopSide, ToIopBranch
  <2>4. n \in DOMAIN psxInterrupt /\ psxInterrupt[n].left <= 0
    BY <1>1, <1>3, <1>4, DueInTime
  <2>5. IopAgenda!Deliver(n)
    BY <2>1, <2>4 DEF IopAgenda!Deliver, Due, Clear
  <2>6. n \in DOMAIN Due(psxInterrupt)
    BY <2>4 DEF Due
  <2>7. QED
    BY <2>3, <2>5, <2>6 DEF IopAgenda!Next
<1>5. CASE ~IsDue(psxInterrupt, n, psxCycle)
  <2>1. /\ psxInterrupt' = psxInterrupt
        /\ g_psxNextBranchCycle' = SetEventBranch(g_psxNextBranchCycle, psxInterrupt, n)
    BY <1>5 DEF IopTestEvent
  <2>2. /\ g_psxNextBranchCycle' \in Word
        /\ Minus(g_psxNextBranchCycle', psxCycle) <= ToIopBranch
        /\ Minus(g_psxNextBranchCycle', psxCycle) < ToIopBranch
             => Minus(g_psxNextBranchCycle', psxCycle) > 0
        /\ Ahead(psxInterrupt, First(IopOrder, ix) \union {n}, Minus(g_psxNextBranchCycle', psxCycle))
    <3>1. -Half < ToIopBranch /\ \A d \in Delays : d + ToIopBranch <= Half
      BY IopTypes
    <3>2. QED
      BY <1>1, <1>3, <1>5, <2>1, <3>1, EventBranch DEF ToIopBranch
  <2>3. Minus(g_psxNextBranchCycle', psxCycle) \in Int
    BY <1>1, <2>2, MinusRange
  <2>4. Minus(g_psxNextBranchCycle', psxCycle) >= 0
    BY <1>1, <2>2, <2>3
  <2>5. ASSUME NEW d \in Delays \union {0}
        PROVE  Minus(g_psxNextBranchCycle', psxCycle) + d + MaxIopBlock < Half
    <3>1. ToIopBranch + d + MaxIopBlock < Half /\ d \in Nat /\ Half \in Nat
      BY Constants DEF IopSide
    <3>2. QED
      BY <1>1, <2>2, <2>3, <3>1
  <2>6. Minus(g_psxNextBranchCycle', psxCycle) >= -MaxIopBlock
    BY <1>1, <2>3, <2>4
  <2>7. IopSide'
    BY <1>1, <1>2, <1>3, <2>1, <2>2, <2>4, <2>5, <2>6 DEF IopSide, ToIopBranch
  <2>8. QED
    BY <2>1, <2>7 DEF Due
<1>6. QED
  BY <1>4, <1>5

(* psxBranchTest begins: whatever the counters say, no event has been *)
(* passed by the loop of tests yet.                                   *)
LEMMA IopBegins ==
  ASSUME psxCycle' \in Word, PendingOf(psxInterrupt', IopEvents),
         OnTheClock(psxInterrupt', psxCycle', MaxIopBlock), NEW c \in CounterDelays,
         g_psxNextBranchCycle' = Plus(psxCycle', c), pc' = "iopints", ix' = 1
  PROVE  IopSide'
<1>1. c \in Nat \ {0} /\ c + MaxIopBlock < Half /\ MaxIopBlock \in Nat /\ Half \in Nat \ {0}
  BY Constants
<1>2. Plus(psxCycle', c) \in Word /\ Minus(Plus(psxCycle', c), psxCycle') = c
  <2>1. Minus(psxCycle', psxCycle') = 0
    BY MinusRange
  <2>2. /\ -Half <= Minus(psxCycle', psxCycle') + c /\ Minus(psxCycle', psxCycle') + c < Half
        /\ Minus(psxCycle', psxCycle') + c = c /\ c \in Int
    BY <1>1, <2>1
  <2>3. QED
    BY <2>2, MinusPlus
<1>3. ToIopBranch' = c
  BY <1>2 DEF ToIopBranch
<1>4. ASSUME NEW d \in Delays \union {0}
      PROVE  c + d + MaxIopBlock < Half
  <2>1. d + c + MaxIopBlock < Half /\ d \in Nat
    BY HorizonAssumption, Constants
  <2>2. QED
    BY <1>1, <2>1
<1>5. Ahead(psxInterrupt', IopAwaited', ToIopBranch')
  <2>1. IopAwaited' = {}
    BY FirstEvents DEF IopAwaited
  <2>2. QED
    BY <2>1 DEF Ahead
<1>6. c >= -MaxIopBlock /\ c >= 0
  BY <1>1
<1>7. QED
  BY <1>2, <1>4, <1>5, <1>6 DEF IopSide, ToIopBranch

LEMMA IopRuns ==
  ASSUME Control, IopSide, NEW b \in 1 .. MaxIopBlock, IopBlock(b)
  PROVE  IopSide' /\ IopAgenda!Pass(b)
<1>1. /\ pc = "iop" /\ psxCycle \in Word /\ g_psxNextBranchCycle \in Word
      /\ psxCycle' = Plus(psxCycle, b) /\ psxInterrupt' = Elapse(psxInterrupt, b)
      /\ IopAwaited = IopEvents
  BY DEF IopBlock, IopSide, IopAwaited
<1>2. /\ ToIopBranch \in -Half .. Half - 1 /\ ToIopBranch >= 0
      /\ Half \in Nat \ {0} /\ MaxIopBlock \in Nat \ {0} /\ MaxIopBlock < Half
  BY <1>1, IopTypes, Constants DEF IopSide
<1>3. /\ Plus(psxCycle, b) \in Word
      /\ Minus(Plus(psxCycle, b), g_psxNextBranchCycle) = b - ToIopBranch
      /\ Minus(g_psxNextBranchCycle, Plus(psxCycle, b)) = ToIopBranch - b
  <2>1. Minus(psxCycle, g_psxNextBranchCycle) = -ToIopBranch
    BY <1>1, <1>2, MinusRange DEF ToIopBranch
  <2>2. /\ -Half <= Minus(psxCycle, g_psxNextBranchCycle) + b
        /\ Minus(psxCycle, g_psxNextBranchCycle) + b < Half
        /\ b \in Int /\ Minus(psxCycle, g_psxNextBranchCycle) + b = b - ToIopBranch
        /\ b - ToIopBranch # -Half
    BY <1>2, <2>1
  <2>3. /\ Minus(Plus(psxCycle, b), g_psxNextBranchCycle) = b - ToIopBranch
        /\ Plus(psxCycle, b) \in Word
    BY <1>1, <2>2, MinusPlus
  <2>4. Minus(g_psxNextBranchCycle, Plus(psxCycle, b)) = -(b - ToIopBranch)
    BY <1>1, <2>2, <2>3, MinusRange
  <2>5. QED
    BY <1>2, <2>3, <2>4
<1>4. /\ PendingOf(psxInterrupt', IopEvents)
      /\ OnTheClock(psxInterrupt', Plus(psxCycle, b), MaxIopBlock)
      /\ ToIopBranch - b >= 0 => Ahead(psxInterrupt', IopEvents, ToIopBranch - b)
      /\ \A n \in DOMAIN Due(psxInterrupt) : Due(psxInterrupt)[n] >= 0
  <2>1. /\ PendingOf(psxInterrupt, IopEvents) /\ OnTheClock(psxInterrupt, psxCycle, MaxIopBlock)
        /\ Ahead(psxInterrupt, IopEvents, ToIopBranch)
    BY <1>1 DEF IopSide
  <2>2. \A d \in Delays : d + MaxIopBlock < Half
    BY Constants
  <2>3. psxCycle \in Word /\ MaxIopBlock \in Nat /\ ToIopBranch \in Int
    BY <1>1, <1>2
  <2>4. QED
    BY <1>1, <2>1, <2>2, <2>3, ElapseKeeps
<1>5. IopAgenda!Pass(b)
  BY <1>1, <1>4 DEF IopAgenda!Pass, Due, Elapse
<1>6. ToIopBranch - b >= -MaxIopBlock
  BY <1>2
<1>7. ASSUME NEW d \in Delays \union {0}
      PROVE  ToIopBranch - b + d + MaxIopBlock < Half
  <2>1. ToIopBranch + d + MaxIopBlock < Half /\ d \in Nat
    BY Constants DEF IopSide
  <2>2. QED
    BY <1>2, <2>1
<1>8. CASE psxCycleEE - Ratio * b <= 0
  <2>1. g_psxNextBranchCycle' = g_psxNextBranchCycle /\ pc' = "resched"
    BY <1>8 DEF IopBlock
  <2>2. Ahead(psxInterrupt', IopAwaited', Minus(g_psxNextBranchCycle', psxCycle'))
    BY <2>1 DEF IopAwaited, Ahead
  <2>3. IopSide'
    BY <1>1, <1>3, <1>4, <1>6, <1>7, <2>1, <2>2 DEF IopSide, ToIopBranch
  <2>4. QED
    BY <1>5, <2>3
<1>9. CASE ~(psxCycleEE - Ratio * b <= 0) /\ Minus(psxCycle', g_psxNextBranchCycle) >= 0
  <2>1. PICK c \in CounterDelays :
          g_psxNextBranchCycle' = Plus(psxCycle', c) /\ pc' = "iopints" /\ ix' = 1
    BY <1>9 DEF IopBlock
  <2>2. IopSide'
    BY <1>1, <1>3, <1>4, <2>1, IopBegins
  <2>3. QED
    BY <1>5, <2>2
<1>10. CASE ~(psxCycleEE - Ratio * b <= 0) /\ ~(Minus(psxCycle', g_psxNextBranchCycle) >= 0)
  <2>1. g_psxNextBranchCycle' = g_psxNextBranchCycle /\ pc' = "iop"
    BY <1>1, <1>10 DEF IopBlock
  <2>2. ToIopBranch - b >= 0
    BY <1>1, <1>2, <1>3, <1>10
  <2>3. Ahead(psxInterrupt', IopAwaited', Minus(g_psxNextBranchCycle', psxCycle'))
    BY <1>1, <1>3, <1>4, <2>1, <2>2 DEF IopAwaited
  <2>4. IopSide'
    BY <1>1, <1>3, <1>4, <1>6, <1>7, <2>1, <2>2, <2>3 DEF IopSide, ToIopBranch
  <2>5. QED
    BY <1>5, <2>4
<1>11. QED
  BY <1>8, <1>9, <1>10

-----------------------------------------------------------------------------
(* The end of the event test of the EE: three branches set from now. *)
LEMMA EeReschedules ==
  ASSUME EventsInv, NEW c \in CounterDelays, Reschedule(c)
  PROVE  EeSide' /\ IopSide'
<1>1. /\ Control /\ ClocksAgree /\ EeSide /\ IopSide
      /\ pc = "resched" /\ pc' = "ee"
      /\ UNCHANGED <<cycle, EEoCycle, interrupt, psxCycle, g_psxNextBranchCycle, psxInterrupt>>
      /\ cycle \in Word /\ g_nextBranchCycle \in Word
  BY DEF EventsInv, Reschedule, sync, EeSide
<1>2. /\ EEsCycle \in Int /\ EEsCycle <= MaxBehind
  <2>1. Minus(cycle, EEoCycle) = 0
    BY <1>1, MinusRange DEF Control
  <2>2. lag = EEsCycle + 0 /\ lag <= MaxBehind /\ EEsCycle \in Int
    BY <1>1, <2>1 DEF Control, ClocksAgree
  <2>3. QED
    BY <2>2
<1> DEFINE delta == Ratio * Minus(g_psxNextBranchCycle, psxCycle) - EEsCycle
           n0 == IF EEsCycle > AheadLimit
                 THEN SetNextBranch(g_nextBranchCycle, cycle, Rapid) ELSE g_nextBranchCycle
           n1 == SetNextBranch(n0, cycle, delta)
           n2 == SetNextBranch(n1, cycle, c)
<1>3. delta \in Int /\ delta >= -Late
  <2>1. ToIopBranch \in Int /\ ToIopBranch >= -MaxIopBlock
    BY <1>1, IopTypes, Constants DEF IopSide
  <2>2. Ratio * ToIopBranch \in Int /\ Ratio * ToIopBranch >= -(Ratio * MaxIopBlock)
    BY <2>1, Scaled
  <2>3. Ratio * MaxIopBlock \in Nat /\ MaxBehind \in Nat
    BY Constants
  <2>4. QED
    BY <1>2, <2>2, <2>3 DEF ToIopBranch, Late
<1>4. /\ Late \in Nat /\ Late < Half /\ Half \in Nat \ {0} /\ Rapid \in Nat /\ c \in Nat
      /\ ToEeBranch \in Int /\ ToEeBranch >= -Late
  BY <1>1, EeTypes, Constants DEF EeSide
<1>5. n0 \in Word /\ Minus(n0, cycle) \in Int
      /\ Minus(n0, cycle) <= ToEeBranch /\ Minus(n0, cycle) >= -Late
  <2>1. /\ SetNextBranch(g_nextBranchCycle, cycle, Rapid) \in Word
        /\ Minus(SetNextBranch(g_nextBranchCycle, cycle, Rapid), cycle) =
             IF Rapid < ToEeBranch THEN Rapid ELSE ToEeBranch
    <3>1. Rapid \in Int /\ -Half < Rapid
      BY <1>4
    <3>2. QED
      BY <1>1, <3>1, BranchFromNow DEF ToEeBranch
  <2>2. QED
    BY <1>1, <1>4, <2>1 DEF ToEeBranch
<1> HIDE DEF n0, delta
<1>6. /\ n1 \in Word /\ Minus(n1, cycle) = IF delta < Minus(n0, cycle) THEN delta ELSE Minus(n0, cycle)
  <2>1. -Half < delta
    BY <1>3, <1>4
  <2>2. QED
    BY <1>1, <1>3, <1>5, <2>1, BranchFromNow
<1> HIDE DEF n1
<1>7. /\ n2 \in Word /\ Minus(n2, cycle) = IF c < Minus(n1, cycle) THEN c ELSE Minus(n1, cycle)
  <2>1. -Half < c /\ c \in Int
    BY <1>4
  <2>2. QED
    BY <1>1, <1>6, <2>1, BranchFromNow
<1> HIDE DEF n2
<1>8. g_nextBranchCycle' = n2
  BY DEF Reschedule, n0, n1, n2, delta
<1>9. Minus(n2, cycle) <= ToEeBranch /\ Minus(n2, cycle) >= -Late
  BY <1>3, <1>4, <1>5, <1>6, <1>7
<1>10. EeTested' \subseteq EeTested
  BY <1>1 DEF EeTested
<1>11. EeSide'
  BY <1>1, <1>7, <1>8, <1>9, <1>10, EeFrame DEF ToEeBranch
<1>12. IopSide'
  <2>1. IopAwaited' \subseteq IopAwaited
    BY <1>1 DEF IopAwaited
  <2>2. QED
    BY <1>1, <2>1, IopSame
<1>13. QED
  BY <1>11, <1>12

(* An instruction forces an event test at the end of its block.  An overdue *)
(* branch may move away, but no event is overdue.                           *)
LEMMA EeForced ==
  ASSUME EventsInv, recBranchCall
  PROVE  EeSide'
<1>1. /\ EeSide /\ pc = "ee" /\ pc' = "ee" /\ g_nextBranchCycle' = cycle
      /\ UNCHANGED <<cycle, EEoCycle, interrupt>> /\ cycle \in Word
  BY DEF EventsInv, recBranchCall, sync, control, EeSide
<1>2. Minus(cycle, cycle) = 0 /\ Late \in Nat /\ eeWaitCycles \in Nat /\ SinceEeTest \in Int
      /\ SinceEeTest < eeWaitCycles
  BY <1>1, MinusRange, Constants, EeTypes DEF EeSide
<1>3. Ahead(interrupt, EeEvents, 0)
  BY <1>1 DEF EeSide, EeTested, Ahead
<1>4. 0 >= -Late /\ SinceEeTest + 0 <= eeWaitCycles
  BY <1>2
<1>5. EeTested' = EeEvents
  BY <1>1 DEF EeTested
<1>6. QED
  BY <1>1, <1>2, <1>3, <1>4, <1>5 DEF EeSide, ToEeBranch, SinceEeTest

(* Every step keeps the EE's side, and is a step of its agenda. *)
LEMMA EeStep ==
  ASSUME EventsInv, [Next]_vars
  PROVE  EeSide' /\ [EeAgenda!Next]_(Due(interrupt))
<1> USE DEF EventsInv
<1>1. ASSUME NEW n \in EeEvents, NEW d \in Delays, CPU_INT(n, d)
      PROVE  EeSide' /\ [EeAgenda!Next]_(Due(interrupt))
  BY <1>1, EeAsked DEF EeAgenda!Next
<1>2. ASSUME NEW n \in IopEvents, NEW d \in Delays, PSX_INT(n, d)
      PROVE  EeSide' /\ interrupt' = interrupt
  <2>1. /\ UNCHANGED <<cycle, EEoCycle, interrupt, pc, ix, psxCycle>>
        /\ EeTested' = EeTested
    BY <1>2 DEF PSX_INT, sync, control, EeTested
  <2>2. CASE psxCycleEE < 0
    <3> DEFINE m == Minus(g_psxNextBranchCycle', psxCycle)
    <3>1. m \in Int /\ m >= -MaxIopBlock
      <4>1. IopSide' /\ ToIopBranch' >= -MaxIopBlock
        BY <1>2, IopAsked
      <4>2. QED
        BY <2>1, <4>1, MinusRange, Constants DEF IopSide, ToIopBranch
    <3>2. Ratio * m \in Int /\ Ratio * m >= -(Ratio * MaxIopBlock)
      BY <3>1, Scaled
    <3>3. g_nextBranchCycle' = SetNextBranch(g_nextBranchCycle, cycle, Ratio * m)
      BY <1>2, <2>2 DEF PSX_INT
    <3>4. Ratio * m >= -Late
      <4>1. Ratio * MaxIopBlock \in Nat /\ MaxBehind \in Nat
        BY Constants
      <4>2. QED
        BY <3>2, <4>1 DEF Late
    <3> HIDE DEF m
    <3>5. QED
      BY <2>1, <3>2, <3>3, <3>4, EeNearer
  <2>3. CASE ~(psxCycleEE < 0)
    <3>1. g_nextBranchCycle' = g_nextBranchCycle
      BY <1>2, <2>3 DEF PSX_INT
    <3>2. QED
      BY <2>1, <3>1, EeSame
  <2>4. QED
    BY <2>1, <2>2, <2>3
<1>3. ASSUME iopTestIntc PROVE EeSide' /\ interrupt' = interrupt
  <2>1. /\ UNCHANGED <<cycle, EEoCycle, interrupt, pc, ix>>
        /\ EeTested' = EeTested
        /\ \/ g_nextBranchCycle' = SetNextBranch(g_nextBranchCycle, cycle, IntcDelta)
           \/ g_nextBranchCycle' = g_nextBranchCycle
    BY <1>3 DEF iopTestIntc, sync, control, EeTested
  <2>2. IntcDelta \in Int /\ IntcDelta >= -Late
    BY Constants
  <2>3. QED
    BY <2>1, <2>2, EeNearer, EeSame
<1>4. ASSUME recBranchCall PROVE EeSide' /\ interrupt' = interrupt
  BY <1>4, EeForced DEF recBranchCall
<1>5. ASSUME NEW b \in 1 .. MaxEeBlock, EeBlock(b)
      PROVE  EeSide' /\ [EeAgenda!Next]_(Due(interrupt))
  BY <1>5, EeRuns DEF EeAgenda!Next
<1>6. ASSUME TESTINT PROVE EeSide' /\ [EeAgenda!Next]_(Due(interrupt))
  BY <1>6, EeTests
<1>7. ASSUME NEW c \in CounterDelays, Reschedule(c) PROVE EeSide' /\ interrupt' = interrupt
  BY <1>7, EeReschedules DEF Reschedule
<1>8. ASSUME \/ cpuTestINTCInts \/ CallbackReturns \/ CallPsxBranchTest \/ IopTestEvent \/ IopTested
             \/ \E b \in 1 .. MaxIopBlock : IopBlock(b)
             \/ UNCHANGED vars
      PROVE  EeSide' /\ interrupt' = interrupt
  <2>1. UNCHANGED <<cycle, EEoCycle, interrupt, g_nextBranchCycle>>
    BY <1>8 DEF cpuTestINTCInts, CallbackReturns, CallPsxBranchTest, IopTestEvent, IopTested,
                IopBlock, vars, sync
  <2>2. EeTested' \subseteq EeTested
    <3>1. CASE UNCHANGED <<pc, ix>>
      BY <3>1 DEF EeTested
    <3>2. CASE CallbackReturns
      BY <3>2 DEF CallbackReturns, EeTested
    <3>3. CASE CallPsxBranchTest
      BY <3>3, FirstEvents DEF CallPsxBranchTest, EeTested, psxBranchTest, Control
    <3>4. CASE pc \in {"iopints", "iop"} /\ pc' \in {"iopints", "iopcall", "iop", "resched"}
      BY <3>4 DEF EeTested
    <3>5. QED
      BY <1>8, <3>1, <3>2, <3>3, <3>4
      DEF cpuTestINTCInts, IopTestEvent, IopTested, IopBlock, vars, control
  <2>3. QED
    BY <2>1, <2>2, EeSame
<1>9. ASSUME EeSide', interrupt' = interrupt
      PROVE  EeSide' /\ [EeAgenda!Next]_(Due(interrupt))
  BY <1>9 DEF Due
<1>10. QED
  BY <1>1, <1>2, <1>3, <1>4, <1>5, <1>6, <1>7, <1>8, <1>9 DEF Next, Device, Step

(* The same of the IOP's side and its agenda. *)
LEMMA IopStep ==
  ASSUME EventsInv, [Next]_vars
  PROVE  IopSide' /\ [IopAgenda!Next]_(Due(psxInterrupt))
<1> USE DEF EventsInv
<1>1. ASSUME NEW n \in IopEvents, NEW d \in Delays, PSX_INT(n, d)
      PROVE  IopSide' /\ [IopAgenda!Next]_(Due(psxInterrupt))
  BY <1>1, IopAsked DEF IopAgenda!Next
<1>2. ASSUME iopTestIntc PROVE IopSide' /\ psxInterrupt' = psxInterrupt
  <2>1. /\ UNCHANGED <<psxCycle, psxInterrupt, pc, ix>>
        /\ IopAwaited' = IopAwaited
        /\ \/ g_psxNextBranchCycle' = SetNextBranch(g_psxNextBranchCycle, psxCycle, 2)
           \/ g_psxNextBranchCycle' = g_psxNextBranchCycle
    BY <1>2 DEF iopTestIntc, control, IopAwaited
  <2>2. QED
    BY <2>1, IopNearer, IopSame
<1>3. ASSUME IopTestEvent PROVE IopSide' /\ [IopAgenda!Next]_(Due(psxInterrupt))
  BY <1>3, IopTests
<1>4. ASSUME NEW b \in 1 .. MaxIopBlock, IopBlock(b)
      PROVE  IopSide' /\ [IopAgenda!Next]_(Due(psxInterrupt))
  BY <1>4, IopRuns DEF IopAgenda!Next
<1>5. ASSUME CallPsxBranchTest PROVE IopSide' /\ psxInterrupt' = psxInterrupt
  <2>1. PICK c \in CounterDelays :
          g_psxNextBranchCycle' = Plus(psxCycle, c) /\ pc' = "iopints" /\ ix' = 1
    BY <1>5 DEF CallPsxBranchTest, psxBranchTest
  <2>2. UNCHANGED <<psxCycle, psxInterrupt>>
    BY <1>5 DEF CallPsxBranchTest
  <2>3. QED
    BY <2>1, <2>2, IopBegins DEF IopSide
<1>6. ASSUME NEW c \in CounterDelays, Reschedule(c) PROVE IopSide' /\ psxInterrupt' = psxInterrupt
  BY <1>6, EeReschedules DEF Reschedule
<1>7. ASSUME \/ \E n \in EeEvents, d \in Delays : CPU_INT(n, d)
             \/ cpuTestINTCInts \/ recBranchCall \/ CallbackReturns \/ TESTINT \/ IopTested
             \/ \E b \in 1 .. MaxEeBlock : EeBlock(b)
             \/ UNCHANGED vars
      PROVE  IopSide' /\ psxInterrupt' = psxInterrupt
  <2>1. UNCHANGED <<psxCycle, psxInterrupt, g_psxNextBranchCycle>>
    BY <1>7 DEF CPU_INT, cpuTestINTCInts, recBranchCall, CallbackReturns, TESTINT, IopTested,
                EeBlock, vars
  <2>2. /\ IopAwaited' \subseteq IopAwaited
        /\ pc' \in {"iopints", "iopcall", "iop"} => pc \in {"iopints", "iopcall", "iop"}
    <3>1. CASE UNCHANGED <<pc, ix>>
      BY <3>1 DEF IopAwaited
    <3>2. CASE CallbackReturns
      BY <3>2 DEF CallbackReturns, IopAwaited
    <3>3. CASE IopTested
      <4>1. /\ pc = "iopints" /\ ix > Len(IopOrder) /\ ix \in Nat /\ pc' \in {"iop", "resched"}
        BY <3>3 DEF IopTested, Control
      <4>2. First(IopOrder, ix) = IopEvents
        BY <4>1, FirstEvents
      <4>3. QED
        BY <4>1, <4>2 DEF IopAwaited
    <3>4. CASE pc' \in {"ee", "eeints", "eecall"}
      BY <3>4 DEF IopAwaited
    <3>5. QED
      BY <1>7, <3>1, <3>2, <3>3, <3>4
      DEF CPU_INT, cpuTestINTCInts, recBranchCall, TESTINT, EeBlock, vars, control
  <2>3. QED
    BY <2>1, <2>2, IopSame
<1>8. ASSUME IopSide', psxInterrupt' = psxInterrupt
      PROVE  IopSide' /\ [IopAgenda!Next]_(Due(psxInterrupt))
  BY <1>8 DEF Due
<1>9. QED
  BY <1>1, <1>2, <1>3, <1>4, <1>5, <1>6, <1>7, <1>8 DEF Next, Device, Step

(* Every step keeps the account of the IOP's time. *)
LEMMA TimeStep ==
  ASSUME EventsInv, [Next]_vars
  PROVE  Control' /\ ClocksAgree'
<1> USE DEF EventsInv
<1>1. /\ MaxBehind \in Nat /\ Ratio \in Nat
      /\ \A w \in Word : Minus(w, w) = 0
  BY Constants, MinusRange
<1>2. ASSUME NEW n \in EeEvents, NEW d \in Delays, CPU_INT(n, d)
      PROVE  Control' /\ ClocksAgree'
  BY <1>2 DEF CPU_INT, BreakIop, Control, ClocksAgree, sync, slice, control
<1>3. ASSUME cpuTestINTCInts PROVE Control' /\ ClocksAgree'
  BY <1>3 DEF cpuTestINTCInts, BreakIop, Control, ClocksAgree, sync, slice, control
<1>4. ASSUME NEW b \in 1 .. MaxEeBlock, EeBlock(b)
      PROVE  Control' /\ ClocksAgree'
  <2>1. /\ pc = "ee" /\ inBlock = FALSE /\ inBlock' = FALSE /\ lag' = lag + b /\ lag + b <= MaxBehind
        /\ lag = EEsCycle + SinceEeTest /\ cycle' = Plus(cycle, b)
        /\ lag \in Int /\ EEsCycle \in Int /\ SinceEeTest \in Int
    BY <1>4, EeTypes DEF EeBlock, Control, ClocksAgree, SinceEeTest
  <2>2. Minus(cycle', EEoCycle) = SinceEeTest + b
    BY <1>4, EeRuns
  <2>3. cycle' \in Word
    BY <1>4, EeRuns DEF EeSide
  <2>4. CASE Minus(cycle', g_nextBranchCycle) >= 0
    <3>1. /\ EEsCycle' = EEsCycle + Minus(cycle', EEoCycle) /\ EEoCycle' = cycle'
          /\ iopBranchAction' \in BOOLEAN /\ pc' = "eeints" /\ ix' = 1
          /\ psxCycleEE' = psxCycleEE /\ psxBreak' = psxBreak
      BY <1>4, <2>4 DEF EeBlock, slice, Control
    <3>2. Minus(cycle', EEoCycle') = 0
      BY <1>1, <2>3, <3>1
    <3>3. EEsCycle' \in Int /\ lag' = EEsCycle' + 0
      BY <2>1, <2>2, <3>1
    <3>4. ClocksAgree'
      BY <2>1, <3>2, <3>3 DEF ClocksAgree
    <3>5. /\ lag' \in Int /\ lag' <= MaxBehind
          /\ psxCycleEE' \in Int /\ psxBreak' \in Int /\ psxCycleEE' <= 0
          /\ 1 \in Nat \ {0}
      BY <2>1, <3>1, <3>3 DEF Control
    <3>6. Control'
      BY <2>1, <3>1, <3>3, <3>5, Zenon DEF Control
    <3>7. QED
      BY <3>4, <3>6
  <2>5. CASE ~(Minus(cycle', g_nextBranchCycle) >= 0)
    <3>1. /\ UNCHANGED <<EEsCycle, EEoCycle, iopBranchAction, pc, ix, psxCycleEE, psxBreak>>
      BY <1>4, <2>5 DEF EeBlock, slice
    <3>2. lag' = EEsCycle' + Minus(cycle', EEoCycle')
      BY <2>1, <2>2, <3>1
    <3>3. ClocksAgree'
      BY <2>1, <3>2 DEF ClocksAgree
    <3>4. lag' \in Int /\ lag' <= MaxBehind
      BY <2>1
    <3>5. Control'
      BY <2>1, <3>1, <3>4, Zenon DEF Control
    <3>6. QED
      BY <3>3, <3>5
  <2>6. QED
    BY <2>4, <2>5
<1>5. ASSUME IopTested PROVE Control' /\ ClocksAgree'
  <2>1. /\ pc = "iopints" /\ EEoCycle = cycle /\ Minus(cycle, EEoCycle) = 0
        /\ UNCHANGED <<cycle, EEsCycle, EEoCycle, lag, ix>>
    BY <1>1, <1>5 DEF IopTested, sync, Control, EeSide
  <2>2. /\ iopBranchAction' \in BOOLEAN
        /\ \/ pc' = "iop" /\ inBlock' = TRUE
           \/ pc' = "resched" /\ inBlock' = inBlock /\ ~inBlock
        /\ \/ UNCHANGED <<psxCycleEE, psxBreak>> /\ inBlock = (pc' = "iop")
           \/ ~inBlock /\ pc' = "iop" /\ psxCycleEE' = EEsCycle /\ psxBreak' = 0
    BY <1>5 DEF IopTested, Control, slice
  <2>3. Control'
    <3>1. inBlock' = FALSE => psxCycleEE' = psxCycleEE /\ inBlock = FALSE
      BY <2>2 DEF Control
    <3>2. EEsCycle' \in Int /\ psxCycleEE' \in Int /\ psxBreak' \in Int /\ 0 \in Int
      BY <2>1, <2>2 DEF Control
    <3>3. inBlock' \in BOOLEAN /\ pc' \in {"iop", "resched"}
          /\ (inBlock' = TRUE <=> pc' = "iop")
      BY <2>2, Zenon DEF Control
    <3>4. QED
      BY <2>1, <2>2, <3>1, <3>2, <3>3, Zenon DEF Control
  <2>4. lag \in Int /\ EEsCycle \in Int /\ (~inBlock => lag = EEsCycle + 0)
        /\ (inBlock => lag = psxCycleEE + psxBreak)
    BY <2>1 DEF Control, ClocksAgree
  <2>5. ClocksAgree'
    BY <2>1, <2>2, <2>4 DEF ClocksAgree
  <2>6. QED
    BY <2>3, <2>5
<1>6. ASSUME NEW b \in 1 .. MaxIopBlock, IopBlock(b)
      PROVE  Control' /\ ClocksAgree'
  <2>1. Ratio * b \in Nat
    BY <1>1
  <2>2. /\ pc = "iop" /\ inBlock = TRUE /\ EEoCycle = cycle /\ Minus(cycle, EEoCycle) = 0
        /\ lag = psxCycleEE + psxBreak /\ lag' = lag - Ratio * b
        /\ psxCycleEE' = psxCycleEE - Ratio * b
        /\ cycle' = cycle /\ EEoCycle' = EEoCycle /\ psxBreak' = psxBreak
    BY <1>1, <1>6 DEF IopBlock, Control, ClocksAgree, EeSide
  <2>3. CASE psxCycleEE - Ratio * b <= 0
    <3>1. /\ EEsCycle' = psxBreak + (psxCycleEE - Ratio * b) /\ iopBranchAction' = FALSE
          /\ pc' = "resched" /\ inBlock' = FALSE /\ ix' = ix
      BY <1>6, <2>3 DEF IopBlock
    <3>2. lag \in Int /\ psxCycleEE \in Int /\ psxBreak \in Int /\ lag <= MaxBehind /\ ix \in Nat \ {0}
      BY DEF Control
    <3>3. lag' = EEsCycle' + 0 /\ Minus(cycle', EEoCycle') = 0
      BY <2>1, <2>2, <3>1, <3>2
    <3>4. ClocksAgree'
      BY <3>1, <3>3 DEF ClocksAgree
    <3>5. /\ lag' \in Int /\ lag' <= MaxBehind /\ EEsCycle' \in Int
          /\ psxCycleEE' \in Int /\ psxBreak' \in Int /\ psxCycleEE' <= 0
      BY <1>1, <2>1, <2>2, <2>3, <3>1, <3>2
    <3>6. Control'
      BY <2>2, <3>1, <3>2, <3>5, Zenon DEF Control
    <3>7. QED
      BY <3>4, <3>6
  <2>4. CASE ~(psxCycleEE - Ratio * b <= 0)
    <3>1. /\ UNCHANGED <<EEsCycle, iopBranchAction, inBlock>>
          /\ pc' \in {"iop", "iopints"} /\ ix' \in Nat \ {0}
      BY <1>6, <2>2, <2>4 DEF IopBlock, Control
    <3>2. QED
      BY <1>1, <2>1, <2>2, <2>4, <3>1 DEF Control, ClocksAgree
  <2>5. QED
    BY <2>3, <2>4
<1>7. ASSUME \/ \E n \in IopEvents, d \in Delays : PSX_INT(n, d)
             \/ iopTestIntc \/ recBranchCall \/ TESTINT \/ CallbackReturns \/ CallPsxBranchTest
             \/ IopTestEvent
             \/ \E c \in CounterDelays : Reschedule(c)
             \/ UNCHANGED vars
      PROVE  Control' /\ ClocksAgree'
  <2>1. UNCHANGED <<cycle, EEsCycle, EEoCycle, lag, psxCycleEE, psxBreak>>
    BY <1>7 DEF PSX_INT, iopTestIntc, recBranchCall, TESTINT, CallbackReturns, CallPsxBranchTest,
                IopTestEvent, Reschedule, vars, sync, slice
  <2>2. /\ iopBranchAction' \in BOOLEAN /\ ix' \in Nat \ {0}
        /\ \/ UNCHANGED <<pc, inBlock>>
           \/ pc \in {"eeints", "eecall"} /\ pc' \in {"eeints", "eecall"} /\ inBlock' = inBlock
           \/ pc \in {"iopints", "iopcall"} /\ pc' \in {"iopints", "iopcall"} /\ inBlock' = inBlock
           \/ pc = "eeints" /\ pc' = "iopints" /\ inBlock' = FALSE
           \/ pc = "resched" /\ pc' = "ee" /\ inBlock' = inBlock
    <3>1. ix' = ix \/ ix' = ix + 1 \/ ix' = 1
      BY <1>7 DEF PSX_INT, iopTestIntc, recBranchCall, TESTINT, CallbackReturns, CallPsxBranchTest,
                  psxBranchTest, IopTestEvent, Reschedule, vars, control
    <3>2. iopBranchAction' = iopBranchAction \/ iopBranchAction' = TRUE
      BY <1>7 DEF PSX_INT, iopTestIntc, recBranchCall, TESTINT, CallbackReturns, CallPsxBranchTest,
                  psxBranchTest, IopTestEvent, Reschedule, vars
    <3>3. ix \in Nat \ {0} /\ iopBranchAction \in BOOLEAN
      BY DEF Control
    <3>4. ix' \in Nat \ {0}
      BY <3>1, <3>3
    <3>5. iopBranchAction' \in BOOLEAN
      BY <3>2, <3>3
    <3>6. \/ UNCHANGED <<pc, inBlock>>
          \/ pc \in {"eeints", "eecall"} /\ pc' \in {"eeints", "eecall"} /\ inBlock' = inBlock
          \/ pc \in {"iopints", "iopcall"} /\ pc' \in {"iopints", "iopcall"} /\ inBlock' = inBlock
          \/ pc = "eeints" /\ pc' = "iopints" /\ inBlock' = FALSE
          \/ pc = "resched" /\ pc' = "ee" /\ inBlock' = inBlock
      BY <1>7 DEF PSX_INT, iopTestIntc, recBranchCall, TESTINT, CallbackReturns, CallPsxBranchTest,
                  psxBranchTest, IopTestEvent, Reschedule, vars, control
    <3>7. QED
      BY <3>4, <3>5, <3>6
  <2>3. Control'
    BY <2>1, <2>2 DEF Control
  <2>4. ClocksAgree'
    BY <2>1, <2>2 DEF Control, ClocksAgree
  <2>5. QED
    BY <2>3, <2>4
<1>8. QED
  BY <1>2, <1>3, <1>4, <1>5, <1>6, <1>7 DEF Next, Device, Step

LEMMA EventsInit == Init => EventsInv
<1> SUFFICES ASSUME Init PROVE EventsInv
  OBVIOUS
<1>1. /\ cycle = 0 /\ g_nextBranchCycle = Plus(0, 4) /\ interrupt = NoEvents
      /\ EEsCycle = 0 /\ EEoCycle = 0 /\ psxCycle = 0 /\ g_psxNextBranchCycle = Plus(0, 4)
      /\ psxInterrupt = NoEvents /\ psxCycleEE = -1 /\ psxBreak = 0 /\ iopBranchAction = FALSE
      /\ pc = "ee" /\ ix = 1 /\ inBlock = FALSE /\ lag = 0
  BY DEF Init
<1>2. 0 \in Word /\ Minus(0, 0) = 0
  BY Constants, MinusRange DEF Word
<1>3. Plus(0, 4) \in Word /\ Minus(Plus(0, 4), 0) = 4
  <2>1. /\ -Half <= Minus(0, 0) + 4 /\ Minus(0, 0) + 4 < Half
        /\ Minus(0, 0) + 4 = 4 /\ 4 \in Int
    BY <1>2, Constants
  <2>2. QED
    BY <1>2, <2>1, MinusPlus
<1>4. /\ PendingOf(NoEvents, EeEvents) /\ PendingOf(NoEvents, IopEvents)
      /\ OnTheClock(NoEvents, 0, MaxEeBlock) /\ OnTheClock(NoEvents, 0, MaxIopBlock)
      /\ \A S, next : Ahead(NoEvents, S, next)
  BY DEF NoEvents, PendingOf, OnTheClock, Ahead
<1>5. Control /\ ClocksAgree
  <2>1. 0 <= MaxBehind /\ -1 <= 0 /\ -1 \in Int /\ 0 \in Int /\ 1 \in Nat \ {0}
    BY Constants
  <2>2. Control
    BY <1>1, <2>1 DEF Control
  <2>3. ClocksAgree
    BY <1>1, <1>2 DEF ClocksAgree
  <2>4. QED
    BY <2>2, <2>3
<1>6. ToEeBranch = 4 /\ SinceEeTest = 0 /\ ToIopBranch = 4
  BY <1>1, <1>2, <1>3 DEF ToEeBranch, SinceEeTest, ToIopBranch
<1>7. EeSide
  BY <1>1, <1>2, <1>3, <1>4, <1>6, Constants DEF EeSide
<1>8. IopSide
  <2>1. ASSUME NEW d \in Delays \union {0} PROVE ToIopBranch + d + MaxIopBlock < Half
    <3>1. d + 4 + MaxIopBlock < Half /\ d \in Nat
      BY HorizonAssumption, Constants
    <3>2. QED
      BY <1>6, <3>1, Constants
  <2>2. 4 >= -MaxIopBlock
    BY Constants
  <2>3. QED
    BY <1>1, <1>2, <1>3, <1>4, <1>6, <2>1, <2>2 DEF IopSide
<1>9. QED
  BY <1>5, <1>7, <1>8 DEF EventsInv

(* The clocks, the tables of events, the next branches and the place in the   *)
(* dispatcher stay in step, whoever asks for an event when.                   *)
THEOREM EventsInvariant == Spec => []EventsInv
<1>1. EventsInv /\ [Next]_vars => EventsInv'
  BY EeStep, IopStep, TimeStep DEF EventsInv
<1>2. QED
  BY <1>1, EventsInit, PTL DEF Spec

(* The time the emulator says the IOP owes is the time it owes. *)
THEOREM ClocksAlwaysAgree == Spec => []ClocksAgree
<1>1. EventsInv => ClocksAgree
  BY DEF EventsInv
<1>2. QED
  BY <1>1, EventsInvariant, PTL

(* The EE's events are delivered once, never early, and at the end of the *)
(* block in which they fall due.                                          *)
THEOREM EeEventsOnTime == Spec => EeKeepsAgenda
<1>1. Init => EeAgenda!Init
  BY DEF Init, EeAgenda!Init, NoEvents, Due
<1>2. EventsInv /\ [Next]_vars => [EeAgenda!Next]_(Due(interrupt))
  BY EeStep
<1>3. QED
  BY <1>1, <1>2, EventsInvariant, PTL DEF Spec, EeKeepsAgenda, EeAgenda!Spec

(* And so are the IOP's, in the IOP's time. *)
THEOREM IopEventsOnTime == Spec => IopKeepsAgenda
<1>1. Init => IopAgenda!Init
  BY DEF Init, IopAgenda!Init, NoEvents, Due
<1>2. EventsInv /\ [Next]_vars => [IopAgenda!Next]_(Due(psxInterrupt))
  BY IopStep
<1>3. QED
  BY <1>1, <1>2, EventsInvariant, PTL DEF Spec, IopKeepsAgenda, IopAgenda!Spec

-----------------------------------------------------------------------------
(* The event test ends.  It is a loop within a loop: the IOP runs a block,    *)
(* tests its events, calls whoever is due, who may ask for more, runs another *)
(* block.  What bounds it is that the time the IOP owes only shrinks, and     *)
(* that between two blocks each event is tested once.                         *)

IopPlaces == Len(IopOrder) + 1
EePlaces == Len(EeOrder) + 1

Positive(x) == IF x > 0 THEN x ELSE 0

(* The time the IOP has to run yet, at most.                                  *)
Owed == Positive(IF inBlock THEN psxCycleEE ELSE EEsCycle)

(* The steps from a place of the test to the end of the next block.           *)
StepsLeft(at, i) ==
  CASE at = "ee" -> 0
    [] at = "resched" -> 1
    [] at = "iop" -> 2
    [] at = "iopints" -> 2 * (IopPlaces - i) + 3
    [] at = "iopcall" -> 2 * (IopPlaces - i) + 4
    [] at = "eeints" -> 2 * IopPlaces + 2 * (EePlaces - i) + 3
    [] at = "eecall" -> 2 * IopPlaces + 2 * (EePlaces - i) + 4

TestRank == (IF pc \in {"ee", "resched"} THEN 0 ELSE (2 * IopPlaces) * Owed) + StepsLeft(pc, ix)

(* A loop of tests stays within its table.                                    *)
InTable ==
  /\ pc \in {"iopints", "iopcall"} => ix <= IopPlaces
  /\ pc \in {"eeints", "eecall"} => ix <= EePlaces

(* What the EE waits for is a natural number ...                              *)
TestRankOK == TestRank \in Nat

(* ... that every step of the test lowers, and nothing the callbacks and the  *)
(* code of the IOP ask for raises.                                            *)
TestRunsDown == [][pc # "ee" => /\ Step => TestRank' < TestRank
                                /\ Device => TestRank' <= TestRank]_vars

(* Less time is at least one round less.                                      *)
LEMMA LessTime ==
  ASSUME NEW k \in Nat, NEW x \in Nat, NEW y \in Nat
  PROVE  /\ k * x \in Nat /\ k * y \in Nat
         /\ x < y => k * x + k <= k * y
         /\ x <= y => k * x <= k * y
<1>1. k * x \in Nat /\ k * y \in Nat
  OBVIOUS
<1>2. ASSUME x < y PROVE k * x + k <= k * y
  <2>1. PICK d \in Nat : y = x + 1 + d
    <3>1. y - x - 1 \in Nat /\ y = x + 1 + (y - x - 1)
      BY <1>2
    <3> QED BY <3>1
  <2>2. k * (x + 1 + d) = k * x + k + k * d /\ k * d \in Nat
    OBVIOUS
  <2>3. PICK e \in Nat, a \in Nat : e = k * d /\ a = k * x
    BY <1>1, <2>2
  <2>4. k * y = a + k + e
    BY <2>1, <2>2, <2>3
  <2>5. a + k <= a + k + e
    OBVIOUS
  <2> QED BY <2>3, <2>4, <2>5
<1>3. x = y => k * x <= k * y
  BY <1>1
<1>4. ASSUME x <= y PROVE k * x <= k * y
  <2>1. CASE x < y
    <3>1. PICK a \in Nat, b \in Nat : a = k * x /\ b = k * y
      BY <1>1
    <3>2. a + k <= b
      BY <1>2, <2>1, <3>1
    <3>3. a <= b
      BY <3>2
    <3> QED BY <3>1, <3>3
  <2>2. CASE x = y
    BY <1>3, <2>2
  <2> QED BY <1>4, <2>1, <2>2
<1> QED BY <1>1, <1>2, <1>4

(* The table of steps, place by place.                                        *)
LEMMA StepsAre ==
  ASSUME NEW i
  PROVE  /\ StepsLeft("ee", i) = 0 /\ StepsLeft("resched", i) = 1 /\ StepsLeft("iop", i) = 2
         /\ StepsLeft("iopints", i) = 2 * (IopPlaces - i) + 3
         /\ StepsLeft("iopcall", i) = 2 * (IopPlaces - i) + 4
         /\ StepsLeft("eeints", i) = 2 * IopPlaces + 2 * (EePlaces - i) + 3
         /\ StepsLeft("eecall", i) = 2 * IopPlaces + 2 * (EePlaces - i) + 4
BY DEF StepsLeft

(* Both tables have an end.                                                   *)
LEMMA PlacesAre == IopPlaces \in Nat \ {0} /\ EePlaces \in Nat \ {0}
BY EeIopEventsAssumption DEF IopPlaces, EePlaces

(* The loops of tests go one place on, and begin with the first.              *)
LEMMA InTableAlways == Spec => []InTable
<1>1. Init => InTable
  BY DEF Init, InTable
<1>2. EventsInv /\ InTable /\ [Next]_vars => InTable'
  <2> SUFFICES ASSUME EventsInv, InTable, [Next]_vars PROVE InTable'
    OBVIOUS
  <2>0. ix \in Nat /\ IopPlaces \in Nat \ {0} /\ EePlaces \in Nat \ {0}
    BY PlacesAre DEF EventsInv, Control
  <2>1. CASE Device \/ UNCHANGED vars
    <3>1. pc' = pc /\ ix' = ix
      BY <2>1 DEF Device, CPU_INT, PSX_INT, iopTestIntc, cpuTestINTCInts, recBranchCall, vars, control
    <3> QED BY <3>1 DEF InTable
  <2>2. ASSUME NEW b \in 1 .. MaxEeBlock, EeBlock(b) PROVE InTable'
    BY <2>0, <2>2 DEF EeBlock, InTable
  <2>3. CASE TESTINT \/ IopTestEvent
    <3>1. /\ ix' = ix + 1
          /\ \/ pc = "eeints" /\ pc' \in {"eeints", "eecall"} /\ ix <= Len(EeOrder)
             \/ pc = "iopints" /\ pc' \in {"iopints", "iopcall"} /\ ix <= Len(IopOrder)
      BY <2>3 DEF TESTINT, IopTestEvent
    <3>2. Len(EeOrder) = EePlaces - 1 /\ Len(IopOrder) = IopPlaces - 1
      BY EeIopEventsAssumption DEF IopPlaces, EePlaces
    <3> QED BY <2>0, <3>1, <3>2 DEF InTable
  <2>4. CASE CallbackReturns
    BY <2>4 DEF CallbackReturns, InTable
  <2>5. CASE CallPsxBranchTest \/ IopTested
    BY <2>0, <2>5 DEF CallPsxBranchTest, psxBranchTest, IopTested, InTable
  <2>6. ASSUME NEW b \in 1 .. MaxIopBlock, IopBlock(b) PROVE InTable'
    <3>1. pc' \in {"resched", "iop"} \/ (pc' = "iopints" /\ ix' = 1)
      BY <2>6 DEF IopBlock
    <3> QED BY <2>0, <3>1 DEF InTable
  <2>7. ASSUME NEW c \in CounterDelays, Reschedule(c) PROVE InTable'
    BY <2>7 DEF Reschedule, InTable
  <2> QED BY <2>1, <2>2, <2>3, <2>4, <2>5, <2>6, <2>7 DEF Next, Step
<1> QED BY <1>1, <1>2, EventsInvariant, PTL DEF Spec

(* Neither the callbacks nor IOP code make it longer: what breaks off a slice *)
(* takes the time from it.                                                    *)
LEMMA DeviceAsks ==
  ASSUME EventsInv, Device, pc # "ee"
  PROVE  pc' = pc /\ ix' = ix /\ Owed \in Nat /\ Owed' \in Nat /\ Owed' <= Owed
<1>0. EEsCycle \in Int /\ psxCycleEE \in Int /\ inBlock \in BOOLEAN
  BY DEF EventsInv, Control
<1>1. /\ UNCHANGED <<pc, ix, inBlock, EEsCycle>>
      /\ psxCycleEE' = psxCycleEE \/ (psxCycleEE > 0 /\ psxCycleEE' = 0)
  BY DEF Device, CPU_INT, PSX_INT, iopTestIntc, cpuTestINTCInts, recBranchCall, BreakIop,
         control, sync, slice
<1>2. CASE inBlock
  <2>1. Owed = Positive(psxCycleEE) /\ Owed' = Positive(psxCycleEE')
    BY <1>1, <1>2, Zenon DEF Owed
  <2> QED BY <1>0, <1>1, <2>1 DEF Positive
<1>3. CASE ~inBlock
  <2>1. Owed = Positive(EEsCycle) /\ Owed' = Owed
    BY <1>1, <1>3, Zenon DEF Owed
  <2> QED BY <1>0, <1>1, <2>1 DEF Positive
<1> QED BY <1>2, <1>3

(* A step of the test outside the IOP's blocks leaves the time as it is.      *)
LEMMA StepKeepsTime ==
  ASSUME EventsInv,
         TESTINT \/ CallbackReturns \/ CallPsxBranchTest \/ IopTestEvent \/ IopTested,
         pc' # "resched"
  PROVE  Owed' = Owed
<1>1. CASE TESTINT \/ CallbackReturns \/ IopTestEvent
  <2>1. UNCHANGED <<inBlock, EEsCycle, psxCycleEE>>
    BY <1>1 DEF TESTINT, CallbackReturns, IopTestEvent, sync, slice
  <2> QED BY <2>1 DEF Owed
<1>2. CASE CallPsxBranchTest
  <2>1. inBlock = FALSE /\ UNCHANGED <<inBlock, EEsCycle, psxCycleEE>>
    BY <1>2 DEF CallPsxBranchTest, sync, slice, EventsInv, Control
  <2> QED BY <2>1 DEF Owed
<1>3. CASE IopTested
  <2>1. /\ inBlock' = TRUE /\ inBlock \in BOOLEAN
        /\ psxCycleEE' = IF inBlock THEN psxCycleEE ELSE EEsCycle
    BY <1>3 DEF IopTested, slice, EventsInv, Control
  <2> QED BY <2>1, Zenon DEF Owed
<1> QED BY <1>1, <1>2, <1>3

(* A block of the IOP leaves it less time, or none.                           *)
LEMMA BlockTakesTime ==
  ASSUME EventsInv, NEW b \in 1 .. MaxIopBlock, IopBlock(b), pc' # "resched"
  PROVE  Owed' \in Nat /\ Owed \in Nat /\ Owed' < Owed
<1>1. /\ inBlock = TRUE /\ psxCycleEE \in Int
      /\ Ratio \in Nat \ {0} /\ b \in Nat \ {0}
  BY Constants DEF IopBlock, EventsInv, Control
<1>2. Ratio * b \in Nat /\ Ratio * b > 0
  BY <1>1
<1>3. PICK t \in Nat : t = Ratio * b /\ t > 0
  BY <1>2
<1>4. psxCycleEE' = psxCycleEE - t /\ psxCycleEE - t > 0 /\ inBlock' = TRUE
  <2> DEFINE owed == psxCycleEE - Ratio * b
  <2>1. /\ psxCycleEE' = owed
        /\ IF owed <= 0 THEN pc' = "resched" ELSE UNCHANGED inBlock
    BY Zenon DEF IopBlock
  <2>2. owed = psxCycleEE - t /\ owed \in Int
    BY <1>1, <1>3
  <2> HIDE DEF owed
  <2>3. ~(owed <= 0) /\ inBlock' = inBlock
    BY <2>1, Zenon
  <2>4. owed > 0
    BY <2>2, <2>3
  <2> QED BY <1>1, <2>1, <2>2, <2>3, <2>4
<1>5. Owed = Positive(psxCycleEE) /\ Owed' = Positive(psxCycleEE')
  BY <1>1, <1>4, Zenon DEF Owed
<1> QED BY <1>1, <1>3, <1>4, <1>5 DEF Positive

(* Control comes back to the EE after at most TestRank steps of the test,     *)
(* whatever the callbacks and the IOP's code ask for in between.              *)
THEOREM EventTestRunsDown == Spec => []TestRankOK /\ TestRunsDown
<1>1. EventsInv /\ InTable => TestRankOK
  <2> SUFFICES ASSUME EventsInv, InTable PROVE TestRank \in Nat
    BY DEF TestRankOK
  <2>1. /\ EEsCycle \in Int /\ psxCycleEE \in Int /\ inBlock \in BOOLEAN /\ ix \in Nat
        /\ pc \in {"ee", "eeints", "eecall", "iopints", "iopcall", "iop", "resched"}
        /\ IopPlaces \in Nat /\ EePlaces \in Nat
    BY PlacesAre DEF EventsInv, Control
  <2>2. Owed \in Nat
    BY <2>1 DEF Owed, Positive
  <2>3. (2 * IopPlaces) * Owed \in Nat
    BY <2>1, <2>2, LessTime
  <2>4. StepsLeft(pc, ix) \in Nat
    BY <2>1, StepsAre DEF InTable
  <2> QED BY <2>3, <2>4 DEF TestRank
<1>2. EventsInv /\ InTable
        => [pc # "ee" => /\ Step => TestRank' < TestRank
                         /\ Device => TestRank' <= TestRank]_vars
  <2> SUFFICES ASSUME EventsInv, InTable, pc # "ee"
               PROVE  (Step => TestRank' < TestRank) /\ (Device => TestRank' <= TestRank)
    OBVIOUS
  <2>0. /\ EEsCycle \in Int /\ psxCycleEE \in Int /\ inBlock \in BOOLEAN /\ ix \in Nat
        /\ pc \in {"ee", "eeints", "eecall", "iopints", "iopcall", "iop", "resched"}
        /\ IopPlaces \in Nat \ {0} /\ EePlaces \in Nat \ {0}
        /\ Len(EeOrder) = EePlaces - 1 /\ Len(IopOrder) = IopPlaces - 1
    BY PlacesAre, EeIopEventsAssumption DEF EventsInv, Control, IopPlaces, EePlaces
  <2>n. PICK n \in Nat : n = IopPlaces /\ 2 * IopPlaces = 2 * n
    BY <2>0
  <2>e. PICK e \in Nat, i \in Nat : e = EePlaces /\ i = ix
    BY <2>0
  <2>o. PICK o \in Nat : o = Owed
    BY <2>0 DEF Owed, Positive
  <2>p. PICK p \in Nat : p = (2 * IopPlaces) * Owed
    BY <2>o, <2>n, LessTime
  <2>1. CASE pc = "resched"
    <3>1. TestRank = 1
      BY <2>1, StepsAre DEF TestRank
    <3>2. ASSUME Step PROVE TestRank' < TestRank
      <4>1. pc' = "ee"
        BY <2>1, <3>2 DEF Step, EeBlock, TESTINT, CallbackReturns, CallPsxBranchTest, IopTestEvent,
                          IopTested, IopBlock, Reschedule
      <4>2. TestRank' = 0
        BY <4>1, StepsAre DEF TestRank
      <4> QED BY <3>1, <4>2
    <3>3. ASSUME Device PROVE TestRank' <= TestRank
      <4>1. pc' = "resched"
        BY <2>1, <3>3, DeviceAsks
      <4>2. TestRank' = 1
        BY <4>1, StepsAre DEF TestRank
      <4> QED BY <3>1, <4>2
    <3> QED BY <3>2, <3>3
  <2>2. CASE pc # "resched"
    <3> DEFINE s == StepsLeft(pc, ix)
               t == StepsLeft(pc', ix')
    <3>1. TestRank = p + s
      BY <2>2, <2>p, Zenon DEF TestRank
    <3>2. s \in Nat
      BY <2>0, <2>2, StepsAre, SMTT(30) DEF InTable
    <3>3. ASSUME Device PROVE TestRank' <= TestRank
      <4>1. pc' = pc /\ ix' = ix /\ Owed \in Nat /\ Owed' \in Nat /\ Owed' <= Owed
        BY <3>3, DeviceAsks
      <4>2. 2 * IopPlaces \in Nat
        BY <2>n
      <4>3. (2 * IopPlaces) * Owed' \in Nat /\ (2 * IopPlaces) * Owed' <= (2 * IopPlaces) * Owed
        BY <4>1, <4>2, LessTime
      <4>4. PICK q \in Nat : q = (2 * IopPlaces) * Owed' /\ q <= p
        BY <4>3, <2>p
      <4> HIDE DEF s
      <4>5. TestRank' = q + s
        BY <2>2, <4>1, <4>4, Zenon DEF TestRank, s
      <4>6. q <= p
        BY <4>4
      <4>7. q + s <= p + s
        BY <3>2, <4>6
      <4> QED BY <3>1, <4>5, <4>7, Zenon
    <3>4. ASSUME Step, pc' = "resched" PROVE TestRank' < TestRank
      <4>1. TestRank' = 1
        BY <3>4, StepsAre DEF TestRank
      <4>2. s > 1
        BY <2>0, <2>2, StepsAre DEF InTable
      <4> QED BY <3>1, <3>2, <4>1, <4>2
    <3>5. ASSUME TESTINT \/ CallbackReturns \/ CallPsxBranchTest \/ IopTestEvent \/ IopTested,
                 pc' # "resched"
          PROVE  TestRank' < TestRank
      <4>1. pc' # "ee" /\ t \in Nat /\ t < s
        <5>1. CASE TESTINT
          <6>1. /\ pc = "eeints" /\ pc' \in {"eeints", "eecall"} /\ ix' = ix + 1
                /\ ix <= Len(EeOrder)
            BY <5>1 DEF TESTINT
          <6>2. i + 1 <= e /\ ix' = i + 1
            BY <2>0, <2>e, <6>1
          <6>3. s = 2 * n + 2 * (e - i) + 3 /\ t \in {2 * n + 2 * (e - (i + 1)) + 3,
                                                     2 * n + 2 * (e - (i + 1)) + 4}
            BY <2>e, <2>n, <6>1, <6>2, StepsAre
          <6> HIDE DEF s, t
          <6> QED BY <6>1, <6>2, <6>3
        <5>2. CASE IopTestEvent
          <6>1. /\ pc = "iopints" /\ pc' \in {"iopints", "iopcall"} /\ ix' = ix + 1
                /\ ix <= Len(IopOrder)
            BY <5>2 DEF IopTestEvent
          <6>2. i + 1 <= n /\ ix' = i + 1
            BY <2>0, <2>n, <2>e, <6>1
          <6>3. s = 2 * (n - i) + 3 /\ t \in {2 * (n - (i + 1)) + 3, 2 * (n - (i + 1)) + 4}
            BY <2>e, <2>n, <6>1, <6>2, StepsAre
          <6> HIDE DEF s, t
          <6> QED BY <6>1, <6>2, <6>3
        <5>3. CASE CallbackReturns
          <6>1. /\ <<pc, pc'>> \in {<<"eecall", "eeints">>, <<"iopcall", "iopints">>}
                /\ ix' = i
            BY <2>e, <5>3 DEF CallbackReturns
          <6>2. \/ pc = "eecall" /\ pc' = "eeints" /\ i <= e
                \/ pc = "iopcall" /\ pc' = "iopints" /\ i <= n
            BY <2>n, <2>e, <6>1 DEF InTable
          <6>3. \/ s = 2 * n + 2 * (e - i) + 4 /\ t = 2 * n + 2 * (e - i) + 3 /\ i <= e
                \/ s = 2 * (n - i) + 4 /\ t = 2 * (n - i) + 3 /\ i <= n
            BY <2>e, <2>n, <6>1, <6>2, StepsAre
          <6> HIDE DEF s, t
          <6> QED BY <6>2, <6>3
        <5>4. CASE CallPsxBranchTest
          <6>1. /\ pc = "eeints" /\ pc' = "iopints" /\ ix' = 1 /\ ix > Len(EeOrder)
            BY <5>4 DEF CallPsxBranchTest, psxBranchTest
          <6>2. i = e
            BY <2>0, <2>e, <6>1 DEF InTable
          <6>3. s = 2 * n + 2 * (e - e) + 3 /\ t = 2 * (n - 1) + 3 /\ n # 0
            BY <2>0, <2>e, <2>n, <6>1, <6>2, StepsAre
          <6> HIDE DEF s, t
          <6> QED BY <6>1, <6>3
        <5>5. CASE IopTested
          <6>1. /\ pc = "iopints" /\ pc' = "iop" /\ ix > Len(IopOrder)
            BY <3>5, <5>5 DEF IopTested
          <6>2. i = n
            BY <2>0, <2>n, <2>e, <6>1 DEF InTable
          <6>3. s = 2 * (n - n) + 3 /\ t = 2
            BY <2>e, <2>n, <6>1, <6>2, StepsAre
          <6> HIDE DEF s, t
          <6> QED BY <6>1, <6>3
        <5> QED BY <3>5, <5>1, <5>2, <5>3, <5>4, <5>5
      <4>2. Owed' = Owed
        BY <3>5, StepKeepsTime
      <4> HIDE DEF s, t
      <4>3. TestRank' = p + t
        BY <3>5, <4>1, <4>2, <2>p, Zenon DEF TestRank, t
      <4> QED BY <3>1, <3>2, <4>1, <4>3
    <3>6. ASSUME NEW b \in 1 .. MaxIopBlock, IopBlock(b), pc' # "resched"
          PROVE  TestRank' < TestRank
      <4>1. /\ pc = "iop" /\ pc' \in {"iop", "iopints"} /\ (pc' = "iopints" => ix' = 1)
        BY <3>6 DEF IopBlock
      <4>2. s = 2 /\ t \in Nat /\ t <= 2 * n + 1
        BY <2>0, <2>n, <4>1, StepsAre, SMTT(30)
      <4>3. Owed' \in Nat /\ Owed \in Nat /\ Owed' < Owed /\ 2 * IopPlaces \in Nat
        BY <2>n, <3>6, BlockTakesTime
      <4>4. /\ (2 * IopPlaces) * Owed' \in Nat
            /\ (2 * IopPlaces) * Owed' + 2 * IopPlaces <= (2 * IopPlaces) * Owed
        BY <4>3, LessTime
      <4>5. PICK q \in Nat : q = (2 * IopPlaces) * Owed'
        BY <4>4
      <4>6. q + 2 * n <= p
        BY <2>n, <2>p, <4>4, <4>5, Zenon
      <4> HIDE DEF s, t
      <4>7. TestRank' = q + t
        BY <3>6, <4>1, <4>5, Zenon DEF TestRank, t
      <4>8. q + t < p + s
        BY <4>2, <4>6
      <4> QED BY <3>1, <4>7, <4>8, Zenon
    <3>7. ASSUME Step, pc' # "resched" PROVE TestRank' < TestRank
      <4>1. ~(\E b \in 1 .. MaxEeBlock : EeBlock(b)) /\ ~(\E c \in CounterDelays : Reschedule(c))
        BY <2>2 DEF EeBlock, Reschedule
      <4> QED BY <3>5, <3>6, <3>7, <4>1 DEF Step
    <3> QED BY <3>3, <3>4, <3>7
  <2> QED BY <2>1, <2>2
<1> QED BY <1>1, <1>2, EventsInvariant, InTableAlways, PTL DEF Spec, TestRunsDown
=============================================================================
