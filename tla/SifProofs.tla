------------------------------ MODULE SifProofs ------------------------------
(* Proofs about both directions of the SIF, for any FIFO, addresses and       *)
(* packets: the inductive invariants of Sif0 and of Sif1, and that each       *)
(* direction implements the channel of SifChannel.                            *)
(*                                                                            *)
(* Sif0 for chains whose tags do not set END (with END nothing is stored any  *)
(* more: see StopsOnTagEnd).  Sif1 for whatever chains it builds; its names   *)
(* are those behind Up, and its variables are the ones of Sif0 that are the   *)
(* same in the code's terms, with three of its own.                           *)
EXTENDS Sif0, SequenceTheorems, FiniteSetTheorems, WellFoundedInduction, TLAPS

(* What sifman sends. *)
NoEnd == TRUE \notin TagEnds

-----------------------------------------------------------------------------
(* Sequences. *)

(* A set of naturals that is not empty has a least element: what induction    *)
(* over a sequence rests on.  It is the one whose predecessors are the least in  *)
(* the order of finite sets by inclusion.                                     *)
LEMMA LeastNatural ==
  ASSUME NEW S \in SUBSET Nat, S # {}
  PROVE  \E m \in S : \A k \in S : m <= k
<1> DEFINE T == {0 .. k : k \in S}
<1>1. T \subseteq FiniteSubsetsOf(Nat) /\ T # {}
  <2>1. \A k \in S : 0 .. k \in SUBSET Nat /\ IsFiniteSet(0 .. k)
    BY FS_Interval
  <2> QED BY <2>1 DEF FiniteSubsetsOf
<1>2. IsWellFoundedOn(StrictSubsetOrdering(Nat), FiniteSubsetsOf(Nat))
  BY FS_StrictSubsetOrderingWellFounded
<1> HIDE DEF T
<1>3. PICK x \in T : \A y \in T : ~(<<y, x>> \in StrictSubsetOrdering(Nat))
  BY <1>1, <1>2, WFMin
<1>4. PICK m \in S : x = 0 .. m
  BY <1>3 DEF T
<1>5. ASSUME NEW k \in S, ~(m <= k)
      PROVE  FALSE
  <2>1. k \in Nat /\ m \in Nat /\ k < m
    BY <1>5
  <2>2. 0 .. k \subseteq 0 .. m /\ 0 .. k \subseteq Nat /\ 0 .. m \subseteq Nat
    BY <2>1
  <2>3. m \in 0 .. m /\ m \notin 0 .. k
    BY <2>1
  <2>4. <<0 .. k, 0 .. m>> \in StrictSubsetOrdering(Nat)
    BY <2>2, <2>3, Zenon DEF StrictSubsetOrdering
  <2>5. 0 .. k \in T
    BY DEF T
  <2> QED BY <1>3, <1>4, <2>4, <2>5
<1> QED BY <1>5

(* One sequence behind another, for the provers not to look into.             *)
Joined(v, w) == v \o w

LEMMA JoinExists ==
  ASSUME NEW s, NEW n \in Nat, n # 0
  PROVE  \E f : f = [i \in 1 .. n |-> IF i = 1 THEN s[i] ELSE Joined(f[i - 1], s[i])]
<1> DEFINE Is(f, m) == f = [i \in 1 .. m |-> IF i = 1 THEN s[i] ELSE Joined(f[i - 1], s[i])]
           bad == {m \in 1 .. n : ~ \E f : Is(f, m)}
<1>1. ASSUME bad # {} PROVE FALSE
  <2>1. bad \in SUBSET Nat
    OBVIOUS
  <2>2. PICK m \in bad : \A k \in bad : m <= k
    BY <1>1, <2>1, LeastNatural
  <2>3. m \in 1 .. n /\ m \in Nat /\ ~ \E f : Is(f, m)
    BY <2>2
  <2>4. CASE m = 1
    <3>1. Is([i \in 1 .. 1 |-> s[i]], 1)
      OBVIOUS
    <3> QED BY <2>3, <2>4, <3>1
  <2>5. CASE m # 1
    <3>1. m - 1 \in 1 .. n /\ m - 1 \notin bad
      <4>1. m - 1 \in 1 .. n /\ ~(m <= m - 1)
        BY <2>3, <2>5
      <4> QED BY <2>2, <4>1
    <3>2. PICK f : Is(f, m - 1)
      BY <3>1
    <3> DEFINE g == [i \in 1 .. m |-> IF i = m THEN Joined(f[m - 1], s[m]) ELSE f[i]]
    <3>3. ASSUME NEW i \in 1 .. m
          PROVE  g[i] = IF i = 1 THEN s[i] ELSE Joined(g[i - 1], s[i])
      <4>1. CASE i = m
        <5>1. m - 1 \in 1 .. m /\ m - 1 # m
          BY <2>3, <2>5
        <5> QED BY <2>5, <4>1, <5>1
      <4>2. CASE i # m
        <5>1. i \in 1 .. m - 1 /\ (i # 1 => i - 1 \in 1 .. m /\ i - 1 # m)
          BY <2>3, <4>2
        <5> QED BY <3>2, <4>2, <5>1
      <4> QED BY <4>1, <4>2
    <3>4. Is(g, m)
      BY <3>3
    <3> QED BY <2>3, <3>4
  <2> QED BY <2>4, <2>5
<1>2. n \in 1 .. n
  OBVIOUS
<1> QED BY <1>1, <1>2

(* FlattenSeq joins them one after another.                                   *)
LEMMA FlattenSteps ==
  ASSUME NEW Q, NEW s \in Seq(Seq(Q)), NEW n \in Nat, n = Len(s), n # 0
  PROVE  \E f : /\ FlattenSeq(s) = f[n] /\ f[1] = s[1]
                /\ \A i \in 2 .. n : f[i] = Joined(f[i - 1], s[i])
                /\ \A i \in 1 .. n : f[i] \in Seq(Q)
<1> DEFINE Is(f) == f = [i \in 1 .. n |-> IF i = 1 THEN s[i] ELSE Joined(f[i - 1], s[i])]
           F == CHOOSE f : Is(f)
<1>3. FlattenSeq(s) = F[n]
  BY DEF FlattenSeq, Joined
<1>4. Is(F)
  <2>1. \E f : Is(f)
    BY JoinExists
  <2> HIDE DEF Is
  <2> QED BY <2>1
<1> HIDE DEF F
<1>5. F[1] = s[1] /\ \A i \in 2 .. n : F[i] = Joined(F[i - 1], s[i])
  <2>1. 1 \in 1 .. n /\ \A i \in 2 .. n : i \in 1 .. n /\ i # 1
    OBVIOUS
  <2> QED BY <1>4, <2>1
<1>6. \A i \in 1 .. n : s[i] \in Seq(Q)
  BY ElementOfSeq
<1>7. \A i \in 1 .. n : F[i] \in Seq(Q)
  <2> DEFINE odd == {i \in 1 .. n : F[i] \notin Seq(Q)}
  <2>1. ASSUME odd # {} PROVE FALSE
    <3>1. odd \in SUBSET Nat
      OBVIOUS
    <3>2. PICK m \in odd : \A k \in odd : m <= k
      BY <2>1, <3>1, LeastNatural
    <3>3. m \in 1 .. n /\ F[m] \notin Seq(Q)
      BY <3>2
    <3>4. m # 1
      <4>1. 1 \in 1 .. n
        OBVIOUS
      <4> QED BY <1>5, <1>6, <3>3, <4>1
    <3>5. m \in 2 .. n /\ m - 1 \in 1 .. n /\ ~(m <= m - 1)
      BY <3>3, <3>4
    <3>6. F[m - 1] \in Seq(Q)
      BY <3>2, <3>5
    <3>7. F[m] = Joined(F[m - 1], s[m]) /\ s[m] \in Seq(Q)
      BY <1>5, <1>6, <3>3, <3>5
    <3> QED BY <3>3, <3>6, <3>7, ConcatProperties DEF Joined
  <2> QED BY <2>1
<1> QED BY <1>3, <1>5, <1>7

LEMMA FlattenTyped ==
  ASSUME NEW Q, NEW s \in Seq(Seq(Q))
  PROVE  FlattenSeq(s) \in Seq(Q) /\ (s = <<>> => FlattenSeq(s) = <<>>)
<1>1. Len(s) \in Nat /\ (s = <<>> <=> Len(s) = 0)
  BY LenProperties, EmptySeq
<1>2. CASE Len(s) = 0
  <2>1. FlattenSeq(s) = s
    BY <1>2 DEF FlattenSeq
  <2> QED BY <1>1, <1>2, <2>1, EmptySeq
<1>3. CASE Len(s) # 0
  <2>1. PICK f : FlattenSeq(s) = f[Len(s)] /\ \A i \in 1 .. Len(s) : f[i] \in Seq(Q)
    BY <1>1, <1>3, FlattenSteps
  <2>2. Len(s) \in 1 .. Len(s)
    BY <1>1, <1>3
  <2> QED BY <1>1, <1>3, <2>1, <2>2
<1> QED BY <1>2, <1>3

LEMMA JoinThree ==
  ASSUME NEW Q, NEW u \in Seq(Q), NEW v \in Seq(Q), NEW w \in Seq(Q)
  PROVE  Joined(Joined(u, v), w) = Joined(u, Joined(v, w))
BY ConcatAssociative, SMTT(30) DEF Joined

(* The first of them is ahead of the others.                                  *)
LEMMA FlattenHead ==
  ASSUME NEW Q, NEW s \in Seq(Seq(Q)), s # <<>>
  PROVE  FlattenSeq(s) = Head(s) \o FlattenSeq(Tail(s))
<1> DEFINE t == Tail(s)
<1>1. /\ Len(s) \in Nat /\ Len(s) # 0 /\ Head(s) = s[1] /\ s[1] \in Seq(Q)
      /\ t \in Seq(Seq(Q)) /\ Len(t) = Len(s) - 1
      /\ \A i \in 1 .. Len(t) : t[i] = s[i + 1]
  <2>1. Len(s) \in Nat /\ Len(s) # 0
    BY LenProperties, EmptySeq
  <2>2. 1 \in 1 .. Len(s)
    BY <2>1
  <2>3. s[1] \in Seq(Q)
    BY <2>2, ElementOfSeq
  <2> QED BY <2>1, <2>3, HeadTailProperties
<1> HIDE DEF t
<1> SUFFICES FlattenSeq(s) = Joined(s[1], FlattenSeq(t))
  BY <1>1 DEF t, Joined
<1>2. PICK f : /\ FlattenSeq(s) = f[Len(s)] /\ f[1] = s[1]
               /\ \A i \in 2 .. Len(s) : f[i] = Joined(f[i - 1], s[i])
               /\ \A i \in 1 .. Len(s) : f[i] \in Seq(Q)
  BY <1>1, FlattenSteps
<1>3. CASE Len(t) = 0
  <2>1. FlattenSeq(t) = <<>>
    BY <1>1, <1>3, EmptySeq, FlattenTyped
  <2>2. Len(s) = 1
    BY <1>1, <1>3
  <2> QED BY <1>1, <1>2, <2>1, <2>2, ConcatEmptySeq DEF Joined
<1>4. CASE Len(t) # 0
  <2>1. Len(t) \in Nat
    BY <1>1
  <2>2. PICK g : /\ FlattenSeq(t) = g[Len(t)] /\ g[1] = t[1]
                 /\ \A i \in 2 .. Len(t) : g[i] = Joined(g[i - 1], t[i])
                 /\ \A i \in 1 .. Len(t) : g[i] \in Seq(Q)
    BY <1>1, <1>4, <2>1, FlattenSteps, ZenonT(30)
  <2> DEFINE h == [i \in 1 .. Len(t) |-> f[i + 1]]
  <2>3. h[1] = Joined(s[1], t[1])
    <3>1. 1 \in 1 .. Len(t) /\ 2 \in 2 .. Len(s) /\ 1 + 1 = 2 /\ 2 - 1 = 1 /\ t[1] = s[2]
      BY <1>1, <1>4, <2>1
    <3>2. f[2] = Joined(f[1], s[2])
      BY <1>2, <3>1
    <3> QED BY <1>2, <3>1, <3>2
  <2>4. ASSUME NEW i \in 2 .. Len(t)
        PROVE  h[i] = Joined(h[i - 1], t[i])
    <3>1. PICK k : k = i + 1
      OBVIOUS
    <3>2. /\ i \in 1 .. Len(t) /\ i - 1 \in 1 .. Len(t) /\ i - 1 + 1 = i
          /\ k \in 2 .. Len(s) /\ k - 1 = i /\ t[i] = s[k]
      BY <1>1, <2>1, <3>1
    <3>3. f[k] = Joined(f[k - 1], s[k])
      BY <1>2, <3>2
    <3>4. h[i] = f[k] /\ h[i - 1] = f[i]
      BY <3>1, <3>2
    <3> HIDE DEF h
    <3> QED BY <3>2, <3>3, <3>4
  <2>5. \A i \in 1 .. Len(t) : t[i] \in Seq(Q)
    BY <1>1, ElementOfSeq
  <2> HIDE DEF h
  <2>6. \A i \in 1 .. Len(t) : h[i] = Joined(s[1], g[i])
    <3>1. \A i \in 1 .. Len(t) : t[i] \in Seq(Q) /\ g[i] \in Seq(Q)
      BY <2>2, <2>5
    <3>2. \A i \in 2 .. Len(t) : g[i] = Joined(g[i - 1], t[i]) /\ h[i] = Joined(h[i - 1], t[i])
      BY <2>2, <2>4, Zenon
    <3>3. s[1] \in Seq(Q) /\ g[1] = t[1]
      BY <1>1, <2>2
    <3> DEFINE odd == {i \in 1 .. Len(t) : h[i] # Joined(s[1], g[i])}
    <3>4. ASSUME odd # {} PROVE FALSE
      <4>1. odd \in SUBSET Nat
        OBVIOUS
      <4>2. PICK m \in odd : \A k \in odd : m <= k
        BY <3>4, <4>1, LeastNatural
      <4>3. m \in 1 .. Len(t) /\ h[m] # Joined(s[1], g[m])
        BY <4>2
      <4>4. m # 1
        BY <2>3, <3>3, <4>3, Zenon
      <4>5. PICK k : k = m - 1
        OBVIOUS
      <4>6. m \in 2 .. Len(t) /\ k \in 1 .. Len(t) /\ ~(m <= k)
        BY <2>1, <4>3, <4>4, <4>5
      <4>7. h[k] = Joined(s[1], g[k])
        BY <4>2, <4>6
      <4>8. g[m] = Joined(g[k], t[m]) /\ h[m] = Joined(h[k], t[m])
        BY <3>2, <4>5, <4>6
      <4>9. t[m] \in Seq(Q) /\ g[k] \in Seq(Q)
        BY <3>1, <4>3, <4>6
      <4>10. Joined(Joined(s[1], g[k]), t[m]) = Joined(s[1], Joined(g[k], t[m]))
        BY <3>3, <4>9, JoinThree
      <4> QED BY <4>3, <4>7, <4>8, <4>10, Zenon
    <3> QED BY <3>4
  <2>7. Len(t) \in 1 .. Len(t) /\ Len(t) + 1 = Len(s)
    BY <1>1, <1>4, <2>1
  <2>8. h[Len(t)] = f[Len(s)]
    BY <2>7 DEF h
  <2> QED BY <1>2, <2>2, <2>6, <2>7, <2>8
<1> QED BY <1>3, <1>4

-----------------------------------------------------------------------------
(* Places, and the items of the FIFO.                                        *)

LEMMA NowhereIsPlace == Nowhere \in Place /\ NoTag.irq = FALSE
<1>1. (CHOOSE a \in Addr : TRUE) \in Addr
  BY Sif0Assumption
<1> QED BY <1>1, Sif0Assumption DEF Nowhere, Place, NoTag

(* From, without EXCEPT.                                                     *)
LEMMA FromIs ==
  ASSUME NEW pl \in Place, NEW i
  PROVE  From(pl, i) = [addr |-> pl.addr, k |-> pl.k + i]
<1>1. pl = [addr |-> pl.addr, k |-> pl.k]
  BY DEF Place
<1> QED BY <1>1 DEF From, Place

LEMMA Advance ==
  ASSUME NEW pl \in Place, NEW i \in Nat, pl.k + i <= MaxQwc
  PROVE  /\ From(pl, i) \in Place
         /\ From(pl, i).addr = pl.addr
         /\ From(pl, i).k = pl.k + i
<1>1. From(pl, i) = [addr |-> pl.addr, k |-> pl.k + i]
  BY FromIs
<1>2. pl.addr \in Addr /\ pl.k \in 0 .. MaxQwc /\ MaxQwc \in Nat
  BY Sif0Assumption DEF Place
<1>3. pl.k + i \in 0 .. MaxQwc
  BY <1>2
<1> QED BY <1>1, <1>2, <1>3 DEF Place

LEMMA Start ==
  ASSUME NEW a \in Addr
  PROVE  [addr |-> a, k |-> 0] \in Place
BY Sif0Assumption DEF Place

LEMMA Stay ==
  ASSUME NEW pl \in Place
  PROVE  From(pl, 0) = pl
<1>1. From(pl, 0) = [addr |-> pl.addr, k |-> pl.k + 0]
  BY FromIs
<1>2. pl.k + 0 = pl.k /\ pl = [addr |-> pl.addr, k |-> pl.k]
  BY Sif0Assumption DEF Place
<1> QED BY <1>1, <1>2

LEMMA Items ==
  /\ \A p \in Packet : TagItem(p) \in Item /\ TagItem(p).tag = p
  /\ \A pl \in Place : DataItem(pl) \in Item /\ DataItem(pl).place = pl
BY NowhereIsPlace DEF TagItem, DataItem, Item

(* A tag that asks for an interrupt has data behind it, and none ends.       *)
LEMMA Tags ==
  ASSUME NoEnd, NEW p \in Sendable
  PROVE  /\ p \in Packet /\ p.addr \in Addr /\ p.len \in 0 .. MaxQwc /\ p.len \in Nat
         /\ p.irq \in BOOLEAN /\ (p.irq => p.len > 0)
         /\ p.end = FALSE
<1>1. p \in Packet /\ (p.irq => p.len > 0) /\ p.end \in TagEnds
  BY DEF Sendable, Packet
<1>2. p.end \in BOOLEAN /\ p.end # TRUE
  BY <1>1, Sif0Assumption DEF NoEnd
<1>3. /\ p.addr \in Addr /\ p.len \in 0 .. MaxQwc
      /\ p.irq \in BOOLEAN
  BY <1>1 DEF Packet
<1>4. p.len \in Nat
  BY <1>3, Sif0Assumption
<1>5. p.end = FALSE
  BY <1>2
<1> QED BY <1>1, <1>3, <1>4, <1>5

(* Sequences made by a rule.                                                 *)
LEMMA Made ==
  ASSUME NEW S, NEW n \in Nat, NEW f \in [1 .. n -> S]
  PROVE  f \in Seq(S) /\ Len(f) = n
BY SeqDef, LenProperties

-----------------------------------------------------------------------------
(* The initial state.                                                        *)
LEMMA InitInv == Init => SifInv
<1> SUFFICES ASSUME Init PROVE SifInv
  OBVIOUS
<1>1. Nowhere \in Place /\ Nowhere.k = MaxQwc /\ NoTag.irq = FALSE
  BY NowhereIsPlace DEF Nowhere
<1>2. /\ FifoSize \in Nat /\ MaxQwc \in Nat
      /\ <<>> \in Seq(Item) /\ <<>> \in Seq(Sendable)
      /\ <<>> \in Seq([place : Place, qword : Place])
      /\ Len(<<>>) = 0
  BY Sif0Assumption, EmptySeq
<1>3. TypeOK
  <2>1. /\ fifo \in Seq(Item) /\ Len(fifo) <= FifoSize
        /\ chain \in Seq(Sendable)
        /\ stored \in Seq([place : Place, qword : Place])
    BY <1>2 DEF Init
  <2>2. counter \in 0 .. MaxQwc /\ qwc \in 0 .. MaxQwc
    BY <1>2 DEF Init
  <2>3. madr9 \in Place /\ madr \in Place /\ tag \in Packet \cup {NoTag}
    BY <1>1 DEF Init
  <2> QED BY <2>1, <2>2, <2>3 DEF Init, TypeOK
<1>4. InStep /\ DoneMeansStored /\ InterruptBehindPacket /\ StoredInPlace
  BY <1>2 DEF Init, InStep, DoneMeansStored, InterruptBehindPacket, StoredInPlace
<1>5. IopChannel /\ EeChannel
  BY <1>1, <1>2 DEF Init, IopChannel, EeChannel
<1>6. TagTaken
  BY <1>1 DEF Init, TagTaken
<1>7. LoopState
  BY DEF Init, LoopState
<1> QED BY <1>3, <1>4, <1>5, <1>6, <1>7 DEF SifInv
-----------------------------------------------------------------------------
(* A step of a channel being started or interrupted: the loop stands still.  *)

LEMMA NothingStored == stored' = <<>> => /\ stored' \in Seq([place : Place, qword : Place])
                                         /\ StoredInPlace'
<1> SUFFICES ASSUME stored' = <<>>
             PROVE  /\ stored' \in Seq([place : Place, qword : Place])
                    /\ StoredInPlace'
  OBVIOUS
<1>1. Len(stored') = 0 /\ stored' \in Seq([place : Place, qword : Place])
  BY EmptySeq
<1> QED BY <1>1 DEF StoredInPlace

LEMMA psxDma9Inv == SifInv /\ psxDma9 => SifInv'
<1> SUFFICES ASSUME SifInv, psxDma9 PROVE SifInv'
  OBVIOUS
<1> USE DEF SifInv
<1>1. chain' \in Seq(Sendable) /\ chain' # <<>>
  <2>1. PICK n \in 1 .. MaxChain : \E c \in [1 .. n -> Sendable] : chain' = c
    BY DEF psxDma9
  <2>2. n \in Nat /\ n > 0
    BY Sif0Assumption
  <2>3. chain' \in Seq(Sendable) /\ Len(chain') = n
    BY <2>1, <2>2, Made
  <2>4. Len(<<>>) = 0
    OBVIOUS
  <2> QED BY <2>2, <2>3, <2>4
<1>2. /\ pc = "idle" /\ ~iopTR /\ iopTR' /\ iopsifbusy' /\ ~iopsifbusy /\ ~iopEvt
      /\ iopTR' = TRUE /\ iopsifbusy' = TRUE
      /\ counter = 0 /\ qwc = 0 /\ ~stop /\ fifo = <<>>
      /\ fifo' = fifo /\ stop' = stop /\ counter' = counter /\ madr9' = madr9
      /\ iopEvt' = iopEvt /\ stored' = <<>>
      /\ \/ eesifbusy /\ pc' = "iop" /\ notDone' = TRUE
         \/ ~eesifbusy /\ pc' = pc /\ notDone' = notDone
  BY DEF psxDma9, Kick, TypeOK, InStep, IopChannel, LoopState
<1>3. /\ eeSTR' = eeSTR /\ eesifbusy' = eesifbusy /\ qwc' = qwc /\ madr' = madr
      /\ chcrIRQ' = chcrIRQ /\ end' = end /\ eeEvt' = eeEvt /\ tag' = tag
  BY DEF psxDma9, eeVars
<1>4. TypeOK'
  BY <1>1, <1>2, <1>3, NothingStored DEF TypeOK
<1>5. InStep'
  BY <1>2, <1>3 DEF InStep
<1>6. DoneMeansStored' /\ InterruptBehindPacket'
  BY <1>2, <1>3 DEF DoneMeansStored, InterruptBehindPacket
<1>7. StoredInPlace'
  BY <1>2, NothingStored
<1>8. IopChannel'
  BY <1>1, <1>2 DEF IopChannel
<1>9. EeChannel' /\ TagTaken'
  BY <1>3 DEF EeChannel, TagTaken
<1>10. LoopState'
  BY <1>2, <1>3 DEF LoopState
<1> QED BY <1>4, <1>5, <1>6, <1>7, <1>8, <1>9, <1>10

LEMMA dmaSIF0Inv == SifInv /\ dmaSIF0 => SifInv'
<1> SUFFICES ASSUME SifInv, dmaSIF0 PROVE SifInv'
  OBVIOUS
<1> USE DEF SifInv
<1>1. /\ pc = "idle" /\ ~eeSTR /\ eeSTR' = TRUE /\ eesifbusy' = TRUE /\ ~eesifbusy /\ ~eeEvt
      /\ counter = 0 /\ qwc = 0 /\ qwc' = 0 /\ fifo = <<>> /\ fifo' = fifo
      /\ chcrIRQ' = FALSE /\ tag' = NoTag /\ madr' = madr /\ end' = end
      /\ eeEvt' = eeEvt /\ stored' = <<>>
      /\ \/ iopsifbusy /\ pc' = "iop" /\ notDone' = TRUE
         \/ ~iopsifbusy /\ pc' = pc /\ notDone' = notDone
  BY DEF dmaSIF0, Kick, TypeOK, InStep, EeChannel, LoopState
<1>2. /\ iopTR' = iopTR /\ iopsifbusy' = iopsifbusy /\ chain' = chain /\ stop' = stop
      /\ counter' = counter /\ madr9' = madr9 /\ iopEvt' = iopEvt
  BY DEF dmaSIF0, iopVars
<1>3. TypeOK'
  BY <1>1, <1>2, NothingStored DEF TypeOK
<1>4. InStep'
  BY <1>1, <1>2 DEF InStep
<1>5. DoneMeansStored' /\ InterruptBehindPacket'
  BY <1>1, <1>2 DEF DoneMeansStored, InterruptBehindPacket
<1>6. StoredInPlace'
  BY <1>1, NothingStored
<1>7. IopChannel'
  BY <1>2 DEF IopChannel
<1>8. EeChannel'
  BY <1>1 DEF EeChannel
<1>9. TagTaken'
  BY <1>1, NowhereIsPlace DEF TagTaken
<1>10. LoopState'
  BY <1>1, <1>2 DEF LoopState
<1> QED BY <1>3, <1>4, <1>5, <1>6, <1>7, <1>8, <1>9, <1>10

LEMMA InterruptsInv == SifInv /\ (sif0Interrupt \/ EEsif0Interrupt) => SifInv'
<1> SUFFICES ASSUME SifInv, sif0Interrupt \/ EEsif0Interrupt PROVE SifInv'
  OBVIOUS
<1> USE DEF SifInv
<1>1. /\ pc = "idle" /\ pc' = pc /\ notDone' = notDone /\ fifo' = fifo /\ stored' = <<>>
      /\ iopsifbusy' = iopsifbusy /\ chain' = chain /\ stop' = stop
      /\ counter' = counter /\ madr9' = madr9
      /\ eesifbusy' = eesifbusy /\ qwc' = qwc /\ madr' = madr /\ chcrIRQ' = chcrIRQ
      /\ end' = end /\ tag' = tag
  BY DEF sif0Interrupt, EEsif0Interrupt, eeVars, iopVars
<1>2. \/ iopEvt /\ iopEvt' = FALSE /\ iopTR' = FALSE /\ eeEvt' = eeEvt /\ eeSTR' = eeSTR
      \/ eeEvt /\ eeEvt' = FALSE /\ eeSTR' = FALSE /\ iopEvt' = iopEvt /\ iopTR' = iopTR
  BY DEF sif0Interrupt, EEsif0Interrupt, eeVars, iopVars
<1>3. TypeOK'
  BY <1>1, <1>2, NothingStored, ZenonT(30) DEF TypeOK
<1>4. InStep'
  BY <1>1 DEF InStep
<1>5. DoneMeansStored' /\ InterruptBehindPacket'
  BY <1>1, <1>2 DEF DoneMeansStored, InterruptBehindPacket
<1>6. StoredInPlace'
  BY <1>1, NothingStored
<1>7. IopChannel' /\ EeChannel'
  BY <1>1, <1>2 DEF IopChannel, EeChannel
<1>8. TagTaken' /\ LoopState'
  BY <1>1 DEF TagTaken, LoopState
<1> QED BY <1>3, <1>4, <1>5, <1>6, <1>7, <1>8
-----------------------------------------------------------------------------
(* A step of the IOP side, which leaves the EE side alone.                   *)

LEMMA IopKeeps ==
  ASSUME SifInv, IopSide
  PROVE  /\ pc = "iop" /\ pc' = "ee" /\ stored' = <<>>
         /\ iopsifbusy = TRUE /\ eesifbusy = TRUE /\ notDone = TRUE
         /\ fifo = <<>> /\ qwc = counter /\ (qwc > 0 => madr9 = madr)
         /\ iopTR = TRUE /\ iopEvt = FALSE /\ (stop <=> chain = <<>>)
         /\ eeSTR' = eeSTR /\ eesifbusy' = eesifbusy /\ qwc' = qwc /\ madr' = madr
         /\ chcrIRQ' = chcrIRQ /\ end' = end /\ eeEvt' = eeEvt /\ tag' = tag
         /\ EeChannel' /\ TagTaken' /\ InterruptBehindPacket' /\ StoredInPlace'
         /\ stored' \in Seq([place : Place, qword : Place])
<1> USE DEF SifInv
<1>1. /\ pc = "iop" /\ pc' = "ee" /\ stored' = <<>> /\ iopsifbusy = TRUE /\ eesifbusy = TRUE
      /\ notDone = TRUE /\ fifo = <<>> /\ qwc = counter /\ (qwc > 0 => madr9 = madr)
  BY DEF IopSide, TypeOK, InStep, LoopState
<1>2. iopTR = TRUE /\ iopEvt = FALSE /\ (stop <=> chain = <<>>)
  BY <1>1 DEF TypeOK, IopChannel
<1>3. /\ eeSTR' = eeSTR /\ eesifbusy' = eesifbusy /\ qwc' = qwc /\ madr' = madr
      /\ chcrIRQ' = chcrIRQ /\ end' = end /\ eeEvt' = eeEvt /\ tag' = tag
  BY DEF IopSide, eeVars
<1>4. EeChannel' /\ TagTaken' /\ InterruptBehindPacket'
  BY <1>3 DEF EeChannel, TagTaken, InterruptBehindPacket
<1> QED BY <1>1, <1>2, <1>3, <1>4, NothingStored

LEMMA IopStopInv == SifInv /\ IopSide /\ IopStop => SifInv'
<1> SUFFICES ASSUME SifInv, IopSide, IopStop PROVE SifInv'
  OBVIOUS
<1> USE DEF SifInv
<1>1. /\ counter = 0 /\ stop = TRUE /\ iopsifbusy' = FALSE /\ iopEvt' = TRUE
      /\ stop' = FALSE /\ notDone' = FALSE /\ fifo' = fifo /\ iopTR' = iopTR
      /\ chain' = chain /\ counter' = counter /\ madr9' = madr9
  BY DEF IopStop, TypeOK
<1>2. TypeOK'
  BY <1>1, IopKeeps DEF TypeOK
<1>3. fifo' = <<>> /\ Len(fifo') = 0 /\ qwc' = 0 /\ chain' = <<>> /\ counter' = 0
  BY <1>1, IopKeeps
<1>4. InStep'
  <2>1. qwc' = counter' + Len(fifo')
    BY <1>3
  <2>2. pc' = "ee" /\ eesifbusy'
    BY IopKeeps
  <2> QED BY <2>1, <2>2 DEF InStep
<1>5. DoneMeansStored' /\ IopChannel'
  BY <1>1, <1>3, IopKeeps DEF DoneMeansStored, IopChannel
<1>6. LoopState'
  BY <1>1, <1>3, IopKeeps DEF LoopState
<1> QED BY <1>2, <1>4, <1>5, <1>6, IopKeeps

LEMMA IopTagInv == NoEnd /\ SifInv /\ IopSide /\ IopTag => SifInv'
<1> SUFFICES ASSUME NoEnd, SifInv, IopSide, IopTag PROVE SifInv'
  OBVIOUS
<1> USE DEF SifInv
<1> DEFINE p == Head(chain)
<1>1. /\ counter = 0 /\ stop = FALSE /\ fifo' = Append(fifo, TagItem(p)) /\ counter' = p.len
      /\ madr9' = [addr |-> p.addr, k |-> 0] /\ stop' = (Len(chain) = 1)
      /\ chain' = Tail(chain) /\ notDone' = TRUE
      /\ iopTR' = iopTR /\ iopsifbusy' = iopsifbusy /\ iopEvt' = iopEvt
  BY DEF IopTag, TypeOK
<1>2. chain \in Seq(Sendable) /\ chain # <<>> /\ fifo = <<>> /\ qwc' = 0
  BY <1>1, IopKeeps DEF TypeOK
<1>3. /\ p \in Sendable /\ chain' \in Seq(Sendable) /\ Len(chain) \in Nat
      /\ Len(chain') = Len(chain) - 1
  BY <1>1, <1>2, HeadTailProperties, LenProperties
<1>4. stop' \in BOOLEAN /\ (stop' <=> chain' = <<>>)
  <2>1. chain' = <<>> <=> Len(chain') = 0
    BY <1>3, EmptySeq
  <2>2. Len(chain) = 1 <=> Len(chain') = 0
    BY <1>3
  <2>3. stop' \in BOOLEAN /\ (stop' <=> Len(chain) = 1)
    BY <1>1
  <2> QED BY <2>1, <2>2, <2>3
<1> HIDE DEF p
<1>5. /\ p \in Packet /\ p.addr \in Addr /\ p.len \in 0 .. MaxQwc /\ p.len \in Nat
      /\ madr9' \in Place /\ madr9'.k = 0
  BY <1>1, <1>3, Tags, Start
<1>6. /\ fifo' \in Seq(Item) /\ Len(fifo') = 1 /\ fifo'[1] = TagItem(p) /\ fifo' # <<>>
      /\ fifo'[1].tag = p
  <2>1. TagItem(p) \in Item /\ TagItem(p).tag = p
    BY <1>5, Items
  <2>2. <<>> \in Seq(Item) /\ Len(<<>>) = 0
    BY EmptySeq
  <2> QED BY <1>1, <1>2, <2>1, <2>2, AppendProperties
<1>7. Len(fifo') <= FifoSize
  BY <1>6, Sif0Assumption
<1>8. TypeOK'
  BY <1>1, <1>3, <1>4, <1>5, <1>6, <1>7, IopKeeps DEF TypeOK
<1>9. InStep'
  BY <1>1, <1>2, <1>6, IopKeeps DEF InStep
<1>10. DoneMeansStored'
  BY <1>1, IopKeeps DEF DoneMeansStored
<1>11. IopChannel'
  <2>1. madr9'.k + counter' <= MaxQwc
    BY <1>1, <1>5, Sif0Assumption
  <2> QED BY <1>1, <1>4, <2>1, IopKeeps DEF IopChannel
<1>12. LoopState'
  BY <1>1, <1>2, <1>3, <1>6, IopKeeps DEF LoopState
<1> QED BY <1>8, <1>9, <1>10, <1>11, <1>12, IopKeeps

LEMMA IopDataInv == SifInv /\ IopSide /\ IopData => SifInv'
<1> SUFFICES ASSUME SifInv, IopSide, IopData PROVE SifInv'
  OBVIOUS
<1> USE DEF SifInv
<1> DEFINE n == Least(counter, FifoSize - Len(fifo))
           d == [i \in 1 .. n |-> DataItem(From(madr9, i - 1))]
<1>1. /\ counter > 0 /\ fifo' = fifo \o d /\ madr9' = From(madr9, n)
      /\ counter' = counter - n /\ iopTR' = iopTR /\ iopsifbusy' = iopsifbusy
      /\ chain' = chain /\ stop' = stop /\ iopEvt' = iopEvt /\ notDone' = notDone
  BY DEF IopData
<1>2. /\ counter \in Nat /\ MaxQwc \in Nat /\ FifoSize \in Nat \ {0} /\ Len(<<>>) = 0
      /\ fifo = <<>> /\ qwc = counter /\ madr9 = madr /\ madr \in Place
      /\ madr.k \in Nat /\ madr.k + counter <= MaxQwc
  <2>1. fifo = <<>> /\ qwc = counter /\ (qwc > 0 => madr9 = madr)
    BY IopKeeps
  <2>2. madr9 = madr
    BY <1>1, <2>1
  <2>3. /\ MaxQwc \in Nat /\ FifoSize \in Nat \ {0}
        /\ counter \in 0 .. MaxQwc /\ madr \in Place
    BY Sif0Assumption DEF TypeOK
  <2>4. madr.k \in Nat /\ madr.k + counter <= MaxQwc
    BY <2>1, <2>3 DEF EeChannel, Place
  <2> QED BY <2>1, <2>2, <2>3, <2>4
<1>3. n \in Nat /\ n > 0 /\ n <= counter /\ n <= FifoSize
  BY <1>1, <1>2 DEF Least
<1> HIDE DEF n
<1>4. \A i \in 1 .. n : /\ From(madr, i - 1) \in Place
                       /\ DataItem(From(madr, i - 1)) \in Item
                       /\ DataItem(From(madr, i - 1)).place = From(madr, i - 1)
  <2> SUFFICES ASSUME NEW i \in 1 .. n PROVE From(madr, i - 1) \in Place
    BY Items
  <2>1. i - 1 \in Nat /\ madr.k + (i - 1) <= MaxQwc
    BY <1>2, <1>3
  <2> QED BY <1>2, <2>1, Advance
<1>5. d \in [1 .. n -> Item] /\ \A i \in 1 .. n : d[i].place = From(madr, i - 1)
  BY <1>2, <1>4
<1> HIDE DEF d
<1>6. fifo' = d /\ fifo' \in Seq(Item) /\ Len(fifo') = n
  BY <1>1, <1>2, <1>3, <1>5, Made, ConcatEmptySeq
<1>7. madr9' \in Place /\ madr9'.k = madr.k + n
  BY <1>1, <1>2, <1>3, Advance
<1>8. counter' \in 0 .. MaxQwc
  BY <1>1, <1>2, <1>3
<1>9. TypeOK'
  BY <1>1, <1>3, <1>6, <1>7, <1>8, IopKeeps DEF TypeOK
<1>10. qwc' = counter' + Len(fifo') /\ qwc' > 0
  BY <1>1, <1>2, <1>3, <1>6, IopKeeps
<1>11. InStep'
  BY <1>10, IopKeeps DEF InStep
<1>12. DoneMeansStored' 
  BY <1>1, IopKeeps DEF DoneMeansStored
<1>13. IopChannel'
  <2>1. madr9'.k + counter' <= MaxQwc
    BY <1>1, <1>2, <1>3, <1>7
  <2> QED BY <1>1, <2>1, IopKeeps DEF IopChannel
<1>14. LoopState'
  <2>1. madr9' = From(madr', Len(fifo'))
    BY <1>1, <1>2, <1>6, IopKeeps
  <2>2. \A i \in 1 .. Len(fifo') : fifo'[i].place = From(madr', i - 1)
    BY <1>5, <1>6, IopKeeps
  <2>3. pc' = "ee" /\ notDone' = TRUE /\ iopsifbusy' = TRUE
    BY <1>1, IopKeeps
  <2>4. qwc' # 0
    BY <1>10
  <2> QED BY <2>1, <2>2, <2>3, <2>4 DEF LoopState
<1> QED BY <1>9, <1>11, <1>12, <1>13, <1>14, IopKeeps

-----------------------------------------------------------------------------
(* A step of the EE side: it empties the FIFO.                               *)

LEMMA EeKeeps ==
  ASSUME SifInv, EeSide
  PROVE  /\ pc = "ee" /\ eesifbusy = TRUE /\ eeSTR = TRUE /\ eeEvt = FALSE /\ end = FALSE
         /\ pc' = (IF notDone' THEN "iop" ELSE "idle")
         /\ iopTR' = iopTR /\ iopsifbusy' = iopsifbusy /\ chain' = chain /\ stop' = stop
         /\ counter' = counter /\ madr9' = madr9 /\ iopEvt' = iopEvt /\ eeSTR' = eeSTR
         /\ IopChannel'
         /\ (notDone <=> iopsifbusy) /\ (~notDone => qwc = 0 /\ fifo = <<>>)
         /\ \/ qwc = counter + Len(fifo)
            \/ qwc = 0 /\ Len(fifo) = 1 /\ counter = fifo[1].tag.len
<1> USE DEF SifInv
<1>1. /\ pc = "ee" /\ eesifbusy = TRUE
      /\ pc' = (IF notDone' THEN "iop" ELSE "idle")
      /\ iopTR' = iopTR /\ iopsifbusy' = iopsifbusy /\ chain' = chain /\ stop' = stop
      /\ counter' = counter /\ madr9' = madr9 /\ iopEvt' = iopEvt /\ eeSTR' = eeSTR
  BY DEF EeSide, iopVars, TypeOK
<1>2. eeSTR = TRUE /\ eeEvt = FALSE /\ end = FALSE
  BY <1>1 DEF EeChannel, TypeOK
<1>3. IopChannel'
  BY <1>1 DEF IopChannel
<1>4. (notDone <=> iopsifbusy) /\ (~notDone => qwc = 0 /\ fifo = <<>>)
  BY <1>1 DEF LoopState
<1>5. \/ qwc = counter + Len(fifo)
      \/ qwc = 0 /\ Len(fifo) = 1 /\ counter = fifo[1].tag.len
  BY <1>1 DEF InStep
<1> QED BY <1>1, <1>2, <1>3, <1>4, <1>5
(* What it stores: all of the FIFO when it waits for data, else nothing.     *)
LEMMA EeReads ==
  ASSUME SifInv, EeSide
  PROVE  /\ qwc \in Nat /\ counter \in Nat /\ Len(fifo) \in Nat /\ fifo \in Seq(Item)
         /\ Readable \in Nat /\ Left = qwc - Readable
         /\ qwc > 0 => /\ Readable = Len(fifo) /\ Left = counter
                       /\ From(madr, Readable) = madr9
         /\ qwc = 0 => Readable = 0
         /\ From(madr, Readable) \in Place
         /\ From(madr, Readable).addr = madr.addr
         /\ From(madr, Readable).k = madr.k + Readable
         /\ madr.k \in Nat
         /\ Len(fifo) = Readable => Drop(fifo, Readable) = <<>>
         /\ stored' \in Seq([place : Place, qword : Place])
         /\ StoredInPlace'
<1> USE DEF SifInv
<1>1. /\ MaxQwc \in Nat /\ qwc \in 0 .. MaxQwc /\ counter \in 0 .. MaxQwc
      /\ fifo \in Seq(Item) /\ madr \in Place
  BY Sif0Assumption DEF TypeOK
<1>2. Len(fifo) \in Nat /\ qwc \in Nat /\ counter \in Nat /\ madr.k \in Nat
  BY <1>1, LenProperties DEF Place
<1>3. madr.k + qwc <= MaxQwc
  BY DEF EeChannel
<1>4. pc = "ee"
  BY EeKeeps
<1>5. qwc = 0 => Readable = 0
  BY <1>2 DEF Readable, Least
<1>6. qwc > 0 => Readable = Len(fifo) /\ qwc - Readable = counter
  <2>1. qwc > 0 => qwc = counter + Len(fifo)
    BY <1>2, <1>4 DEF InStep
  <2> QED BY <1>2, <2>1 DEF Readable, Least
<1>7. Readable \in Nat /\ Readable <= qwc /\ Readable <= Len(fifo)
  BY <1>2 DEF Readable, Least
<1>8. Left = qwc - Readable
  BY DEF Left
<1> DEFINE r == Readable
<1> HIDE DEF r
<1>9. /\ From(madr, Readable) \in Place /\ From(madr, Readable).addr = madr.addr
      /\ From(madr, Readable).k = madr.k + Readable
  <2>1. madr.k + Readable <= MaxQwc
    BY <1>1, <1>2, <1>3, <1>7
  <2> QED BY <1>1, <1>7, <2>1, Advance
<1>10. qwc > 0 => /\ \A i \in 1 .. Len(fifo) : fifo[i].place = From(madr, i - 1)
                  /\ madr9 = From(madr, Len(fifo))
  BY <1>2, <1>4 DEF LoopState
<1>11. qwc > 0 => From(madr, Readable) = madr9
  BY <1>6, <1>10
<1>12. Len(fifo) = Readable => Drop(fifo, Readable) = <<>>
  BY <1>2, SubSeqEmpty DEF Drop
<1>13. \A i \in 1 .. Readable : /\ From(madr, i - 1) \in Place
                                /\ fifo[i].place = From(madr, i - 1)
  <2> SUFFICES ASSUME NEW i \in 1 .. Readable
               PROVE  /\ From(madr, i - 1) \in Place
                      /\ fifo[i].place = From(madr, i - 1)
    OBVIOUS
  <2>1. qwc > 0 /\ i - 1 \in Nat /\ madr.k + (i - 1) <= MaxQwc /\ i \in 1 .. Len(fifo)
    BY <1>1, <1>2, <1>3, <1>7
  <2>2. From(madr, i - 1) \in Place
    BY <1>1, <2>1, Advance
  <2> QED BY <1>10, <2>1, <2>2
<1> DEFINE s == [i \in 1 .. r |-> [place |-> From(madr, i - 1), qword |-> fifo[i].place]]
<1>14. /\ s \in [1 .. r -> [place : Place, qword : Place]]
       /\ \A i \in 1 .. r : s[i].place = s[i].qword
  BY <1>13 DEF r
<1>15. stored' = s
  BY DEF EeSide, EeRead, r
<1> HIDE DEF s
<1>16. stored' \in Seq([place : Place, qword : Place]) /\ Len(stored') = r
  BY <1>7, <1>14, <1>15, Made DEF r
<1>17. StoredInPlace'
  BY <1>14, <1>15, <1>16 DEF StoredInPlace
<1> QED BY <1>1, <1>2, <1>5, <1>6, <1>7, <1>8, <1>9, <1>11, <1>12, <1>16, <1>17

LEMMA EeStoreInv == SifInv /\ EeSide /\ EeStore => SifInv'
<1> SUFFICES ASSUME SifInv, EeSide, EeStore PROVE SifInv'
  OBVIOUS
<1> USE DEF SifInv
<1>1. /\ Left > 0 /\ qwc' = Left /\ madr' = From(madr, Readable)
      /\ fifo' = Drop(fifo, Readable) /\ eesifbusy' = eesifbusy /\ eeEvt' = eeEvt
      /\ notDone' = notDone /\ chcrIRQ' = chcrIRQ /\ end' = end /\ tag' = tag
  BY DEF EeStore
<1>2. /\ qwc > 0 /\ Readable = Len(fifo) /\ Left = counter /\ qwc' = counter
      /\ qwc' > 0 /\ fifo' = <<>> /\ madr' = madr9 /\ Len(<<>>) = 0
  <2>1. qwc > 0
    BY <1>1, EeReads
  <2> QED BY <1>1, <2>1, EeReads
<1>3. notDone = TRUE /\ iopsifbusy = TRUE /\ pc' = "iop"
  <2>1. notDone /\ iopsifbusy
    BY <1>2, EeKeeps
  <2>2. notDone \in BOOLEAN /\ iopsifbusy \in BOOLEAN
    BY DEF TypeOK
  <2> QED BY <1>1, <2>1, <2>2, EeKeeps
<1>4. TypeOK'
  <2>1. fifo' \in Seq(Item) /\ Len(fifo') <= FifoSize
    BY <1>2, EmptySeq, Sif0Assumption
  <2> QED BY <1>1, <1>2, <1>3, <2>1, EeKeeps, EeReads DEF TypeOK
<1>5. InStep'
  BY <1>1, <1>2, <1>3, EeKeeps DEF InStep
<1>6. DoneMeansStored' /\ InterruptBehindPacket'
  BY <1>1, <1>3, EeKeeps DEF DoneMeansStored, InterruptBehindPacket, IopChannel
<1>7. madr'.addr = madr.addr /\ madr'.k + qwc' = madr.k + qwc
  BY <1>1, EeReads
<1>8. EeChannel' /\ TagTaken'
  BY <1>1, <1>2, <1>7, EeKeeps DEF EeChannel, TagTaken
<1>9. LoopState'
  BY <1>1, <1>2, <1>3, EeKeeps DEF LoopState
<1> QED BY <1>4, <1>5, <1>6, <1>8, <1>9, EeKeeps, EeReads

LEMMA EeStopInv == SifInv /\ EeSide /\ EeStop => SifInv'
<1> SUFFICES ASSUME SifInv, EeSide, EeStop PROVE SifInv'
  OBVIOUS
<1> USE DEF SifInv
<1>1. /\ Left = 0 /\ (chcrIRQ \/ end) /\ eesifbusy' = FALSE /\ eeEvt' = TRUE
      /\ notDone' = FALSE /\ qwc' = 0 /\ madr' = From(madr, Readable)
      /\ fifo' = Drop(fifo, Readable) /\ chcrIRQ' = chcrIRQ /\ end' = end /\ tag' = tag
  BY DEF EeStop
<1>2. chcrIRQ /\ qwc > 0
  BY <1>1, EeKeeps DEF EeChannel
<1>3. /\ counter = 0 /\ Readable = Len(fifo) /\ Readable = qwc /\ fifo' = <<>>
      /\ Len(<<>>) = 0
  BY <1>1, <1>2, EeReads
<1>4. TypeOK'
  <2>1. fifo' \in Seq(Item) /\ Len(fifo') <= FifoSize /\ qwc' \in 0 .. MaxQwc
    BY <1>1, <1>3, EmptySeq, Sif0Assumption
  <2>2. pc' = "idle"
    BY <1>1, EeKeeps
  <2> QED BY <1>1, <2>1, <2>2, EeKeeps, EeReads DEF TypeOK
<1>5. InStep'
  BY <1>1, <1>3, EeKeeps DEF InStep
<1>6. DoneMeansStored'
  BY <1>3, EeKeeps DEF DoneMeansStored
<1>7. /\ tag'.irq /\ madr'.addr = tag'.addr /\ madr'.k = tag'.len /\ madr' \in Place
      /\ madr'.k <= MaxQwc /\ madr'.k \in Nat
  <2>1. tag.irq /\ madr.addr = tag.addr /\ madr.k + qwc = tag.len
    BY <1>2 DEF TagTaken
  <2> QED BY <1>1, <1>3, <2>1, EeReads DEF EeChannel
<1>8. InterruptBehindPacket'
  <2>1. madr' = [addr |-> madr'.addr, k |-> madr'.k]
    BY <1>7 DEF Place
  <2> QED BY <1>7, <2>1 DEF InterruptBehindPacket
<1>9. EeChannel'
  <2>1. eeSTR' = TRUE /\ ~end'
    BY <1>1, EeKeeps
  <2>2. madr'.k + qwc' <= MaxQwc
    BY <1>1, <1>7, Sif0Assumption
  <2> QED BY <1>1, <2>1, <2>2 DEF EeChannel
<1>10. TagTaken'
  BY <1>1, <1>7 DEF TagTaken
<1>11. LoopState'
  BY <1>1, <1>3, EeKeeps DEF LoopState
<1> QED BY <1>4, <1>5, <1>6, <1>8, <1>9, <1>10, <1>11, EeKeeps, EeReads

LEMMA EeTagInv == NoEnd /\ SifInv /\ EeSide /\ EeTag => SifInv'
<1> SUFFICES ASSUME NoEnd, SifInv, EeSide, EeTag PROVE SifInv'
  OBVIOUS
<1> USE DEF SifInv
<1>1. qwc = 0 /\ Readable = 0
  BY EeReads DEF EeTag
<1> DEFINE p == fifo[1].tag
<1>2. /\ tag' = p /\ qwc' = p.len /\ madr' = [addr |-> p.addr, k |-> 0] /\ chcrIRQ' = p.irq
      /\ end' = (end \/ p.end) /\ fifo' = Drop(fifo, 1) /\ notDone' = TRUE
      /\ eesifbusy' = eesifbusy /\ eeEvt' = eeEvt /\ Len(fifo) > Readable
  <2>1. Readable + 1 = 1
    BY <1>1
  <2> QED BY <2>1 DEF EeTag
<1>3. fifo # <<>> /\ Len(fifo) = 1 /\ counter = p.len /\ p \in Sendable
  <2>1. fifo # <<>> /\ Len(fifo) > 0
    <3>1. Len(<<>>) = 0
      BY EmptySeq
    <3> QED BY <1>1, <1>2, <3>1
  <2>2. Len(fifo) = 1 /\ counter = p.len
    BY <1>1, <2>1, EeKeeps, EeReads
  <2>3. p \in Sendable
    BY <1>1, <2>1, EeKeeps DEF LoopState
  <2> QED BY <2>1, <2>2, <2>3
<1>4. madr9 = [addr |-> p.addr, k |-> 0]
  BY <1>1, <1>3, EeKeeps DEF LoopState
<1> HIDE DEF p
<1>5. /\ p \in Packet /\ p.addr \in Addr /\ p.len \in 0 .. MaxQwc /\ p.len \in Nat
      /\ p.irq \in BOOLEAN /\ (p.irq => p.len > 0) /\ p.end = FALSE
      /\ madr' \in Place /\ madr'.addr = p.addr /\ madr'.k = 0
  BY <1>2, <1>3, Tags, Start
<1>6. end' = FALSE
  BY <1>2, <1>5, EeKeeps
<1>7. fifo' = <<>> /\ Len(<<>>) = 0
  BY <1>2, <1>3, SubSeqEmpty DEF Drop
<1>8. pc' = "iop" /\ iopsifbusy = TRUE
  <2>1. notDone = TRUE
    BY <1>3, EeKeeps DEF LoopState, TypeOK
  <2> QED BY <1>2, <2>1, EeKeeps DEF LoopState, TypeOK
<1>9. TypeOK'
  <2>1. fifo' \in Seq(Item) /\ Len(fifo') <= FifoSize
    BY <1>7, EmptySeq, Sif0Assumption
  <2>2. chcrIRQ' \in BOOLEAN /\ tag' \in Packet \cup {NoTag} /\ qwc' \in 0 .. MaxQwc
    BY <1>2, <1>5
  <2> QED BY <1>2, <1>5, <1>6, <1>8, <2>1, <2>2, EeKeeps, EeReads DEF TypeOK
<1>10. InStep'
  BY <1>2, <1>3, <1>7, <1>8, EeKeeps DEF InStep
<1>11. DoneMeansStored' /\ InterruptBehindPacket'
  BY <1>2, <1>8, EeKeeps DEF DoneMeansStored, InterruptBehindPacket, IopChannel
<1>12. EeChannel'
  <2>1. chcrIRQ' => qwc' > 0
    BY <1>2, <1>5
  <2>2. madr'.k + qwc' <= MaxQwc
    BY <1>2, <1>5, Sif0Assumption
  <2> QED BY <1>2, <1>6, <2>1, <2>2, EeKeeps DEF EeChannel
<1>13. TagTaken'
  <2>1. chcrIRQ' = tag'.irq
    BY <1>2
  <2>2. madr'.addr = tag'.addr /\ madr'.k + qwc' = tag'.len
    BY <1>2, <1>5
  <2> QED BY <2>1, <2>2 DEF TagTaken
<1>14. LoopState'
  BY <1>2, <1>4, <1>8, EeKeeps DEF LoopState
<1> QED BY <1>9, <1>10, <1>11, <1>12, <1>13, <1>14, EeKeeps, EeReads

LEMMA EeWaitInv == SifInv /\ EeSide /\ EeWait => SifInv'
<1> SUFFICES ASSUME SifInv, EeSide, EeWait PROVE SifInv'
  OBVIOUS
<1> USE DEF SifInv
<1>1. /\ Left = 0 /\ ~chcrIRQ /\ Len(fifo) = Readable /\ qwc' = 0
      /\ madr' = From(madr, Readable) /\ fifo' = Drop(fifo, Readable)
      /\ eesifbusy' = eesifbusy /\ eeEvt' = eeEvt /\ notDone' = notDone
      /\ chcrIRQ' = chcrIRQ /\ end' = end /\ tag' = tag
  BY DEF EeWait
<1>2. fifo' = <<>> /\ Len(<<>>) = 0 /\ counter = 0 /\ Readable = qwc
  <2>1. CASE qwc > 0
    BY <1>1, <2>1, EeReads
  <2>2. CASE qwc = 0
    <3>1. Len(fifo) = 0
      BY <1>1, <2>2, EeReads
    <3> QED BY <1>1, <2>2, <3>1, EeKeeps, EeReads
  <2> QED BY <2>1, <2>2, EeReads
<1>3. madr'.addr = madr.addr /\ madr'.k + qwc' = madr.k + qwc
  BY <1>1, <1>2, EeReads
<1>4. TypeOK'
  <2>1. fifo' \in Seq(Item) /\ Len(fifo') <= FifoSize /\ qwc' \in 0 .. MaxQwc
    BY <1>1, <1>2, EmptySeq, Sif0Assumption
  <2>2. pc' \in {"idle", "iop", "ee"}
    BY EeKeeps
  <2> QED BY <1>1, <2>1, <2>2, EeKeeps, EeReads DEF TypeOK
<1>5. notDone' <=> iopsifbusy'
  BY <1>1, EeKeeps
<1>6. InStep'
  BY <1>1, <1>2, <1>5, EeKeeps DEF InStep
<1>7. DoneMeansStored' /\ InterruptBehindPacket'
  <2>1. iopEvt => chain = <<>>
    BY DEF DoneMeansStored
  <2>2. eeEvt' = FALSE
    BY <1>1, EeKeeps
  <2>3. iopEvt' = iopEvt /\ chain' = chain /\ counter' = 0
    BY <1>2, EeKeeps
  <2> QED BY <1>2, <2>1, <2>2, <2>3 DEF DoneMeansStored, InterruptBehindPacket
<1>8. EeChannel' /\ TagTaken'
  BY <1>1, <1>3, EeKeeps DEF EeChannel, TagTaken
<1>9. LoopState'
  <2>1. qwc' = 0 /\ counter' = 0
    BY <1>1, <1>2, EeKeeps
  <2>2. CASE notDone'
    <3>1. pc' = "iop"
      BY <2>2, EeKeeps
    <3> QED BY <2>1, <2>2, <3>1 DEF LoopState
  <2>3. CASE ~notDone'
    <3>1. pc' = "idle"
      BY <2>3, EeKeeps
    <3> QED BY <2>1, <3>1 DEF LoopState
  <2> QED BY <2>2, <2>3
<1> QED BY <1>4, <1>6, <1>7, <1>8, <1>9, EeKeeps, EeReads
-----------------------------------------------------------------------------
(* The theorems.                                                             *)

LEMMA StutterInv == SifInv /\ UNCHANGED vars => SifInv'
<1> SUFFICES ASSUME SifInv, UNCHANGED vars PROVE SifInv'
  OBVIOUS
<1> USE DEF SifInv, vars, iopVars, eeVars
<1>1. TypeOK'
  BY DEF TypeOK
<1>2. InStep' /\ DoneMeansStored' /\ InterruptBehindPacket' /\ StoredInPlace'
  BY DEF InStep, DoneMeansStored, InterruptBehindPacket, StoredInPlace
<1>3. IopChannel' /\ EeChannel' /\ TagTaken' /\ LoopState'
  BY DEF IopChannel, EeChannel, TagTaken, LoopState
<1> QED BY <1>1, <1>2, <1>3

(* Every step keeps the invariant: whichever side moves, and whenever the    *)
(* processors start their channels or take their interrupts.                 *)
THEOREM SifInvariant ==
  ASSUME NoEnd
  PROVE  Spec => []SifInv
<1>1. SifInv /\ [Next]_vars => SifInv'
  <2> SUFFICES ASSUME SifInv, [Next]_vars PROVE SifInv'
    OBVIOUS
  <2>1. CASE psxDma9
    BY <2>1, psxDma9Inv
  <2>2. CASE dmaSIF0
    BY <2>2, dmaSIF0Inv
  <2>3. CASE IopSide
    BY <2>3, IopStopInv, IopTagInv, IopDataInv, Zenon DEF IopSide
  <2>4. CASE EeSide
    BY <2>4, EeStoreInv, EeStopInv, EeTagInv, EeWaitInv, Zenon DEF EeSide
  <2>5. CASE sif0Interrupt \/ EEsif0Interrupt
    BY <2>5, InterruptsInv
  <2>6. CASE UNCHANGED vars
    BY <2>6, StutterInv
  <2> QED BY <2>1, <2>2, <2>3, <2>4, <2>5, <2>6 DEF Next, SIF0Dma
<1> QED BY <1>1, InitInv, PTL DEF Spec

(* The variables stay in their domains, and the FIFO within its array: the   *)
(* tag that the IOP side writes without looking for room always finds some.  *)
THEOREM TypeCorrect ==
  ASSUME NoEnd
  PROVE  Spec => []TypeOK
<1>1. SifInv => TypeOK
  BY DEF SifInv
<1> QED BY <1>1, SifInvariant, PTL

(* The two sides of the loop stay in step, whatever the size of the FIFO and *)
(* of the packets, so that none of them waits for one that has stopped.      *)
THEOREM SidesInStep ==
  ASSUME NoEnd
  PROVE  Spec => []InStep
<1>1. SifInv => InStep
  BY DEF SifInv
<1> QED BY <1>1, SifInvariant, PTL

(* The interrupts of both processors come when the data has arrived.         *)
THEOREM InterruptsAreTrue ==
  ASSUME NoEnd
  PROVE  Spec => [](DoneMeansStored /\ InterruptBehindPacket)
<1>1. SifInv => DoneMeansStored /\ InterruptBehindPacket
  BY DEF SifInv
<1> QED BY <1>1, SifInvariant, PTL

(* Every qword is stored where it is meant to go.                            *)
THEOREM PlacesAreTrue ==
  ASSUME NoEnd
  PROVE  Spec => []StoredInPlace
<1>1. SifInv => StoredInPlace
  BY DEF SifInv
<1> QED BY <1>1, SifInvariant, PTL

-----------------------------------------------------------------------------
(* The qwords in transit, as the refinement mapping has them.                 *)

LEMMA DataIs ==
  ASSUME NEW pl \in Place, NEW n \in Nat, pl.k + n <= MaxQwc
  PROVE  /\ Data(pl, n) \in Seq(Place) /\ Len(Data(pl, n)) = n
         /\ \A i \in 1 .. n : Data(pl, n)[i] = From(pl, i - 1)
<1>1. ASSUME NEW i \in 1 .. n
      PROVE  From(pl, i - 1) \in Place
  <2>1. i - 1 \in Nat /\ pl.k + (i - 1) <= MaxQwc
    BY Sif0Assumption DEF Place
  <2> QED BY <2>1, Advance
<1> DEFINE d == [i \in 1 .. n |-> From(pl, i - 1)]
<1>2. d \in [1 .. n -> Place] /\ \A i \in 1 .. n : d[i] = From(pl, i - 1)
  BY <1>1
<1>3. Data(pl, n) = d
  BY DEF Data
<1> HIDE DEF d
<1>4. d \in Seq(Place) /\ Len(d) = n
  BY <1>2, Made
<1> QED BY <1>2, <1>3, <1>4

(* The places of a packet, taken in two parts.                                *)
LEMMA DataSplit ==
  ASSUME NEW pl \in Place, NEW m \in Nat, NEW n \in Nat, pl.k + (m + n) <= MaxQwc
  PROVE  Data(pl, m + n) = Joined(Data(pl, m), Data(From(pl, m), n))
<1> DEFINE a == Data(pl, m)
           b == Data(From(pl, m), n)
           c == Data(pl, m + n)
<1>0. pl.k \in Nat /\ pl.k + m <= MaxQwc /\ m + n \in Nat /\ MaxQwc \in Nat
  BY Sif0Assumption DEF Place
<1>1. /\ From(pl, m) \in Place /\ From(pl, m).addr = pl.addr /\ From(pl, m).k = pl.k + m
  BY <1>0, Advance
<1>2. From(pl, m).k + n <= MaxQwc
  BY <1>0, <1>1
<1>3. a \in Seq(Place) /\ Len(a) = m /\ \A i \in 1 .. m : a[i] = From(pl, i - 1)
  BY <1>0, DataIs
<1>4. b \in Seq(Place) /\ Len(b) = n /\ \A i \in 1 .. n : b[i] = From(From(pl, m), i - 1)
  BY <1>1, <1>2, DataIs
<1>5. c \in Seq(Place) /\ Len(c) = m + n /\ \A i \in 1 .. m + n : c[i] = From(pl, i - 1)
  BY <1>0, DataIs
<1> HIDE DEF a, b, c
<1>6. /\ a \o b \in Seq(Place) /\ Len(a \o b) = m + n
      /\ \A i \in 1 .. m + n : (a \o b)[i] = IF i <= m THEN a[i] ELSE b[i - m]
  BY <1>3, <1>4, ConcatProperties
<1>7. ASSUME NEW i \in 1 .. m + n
      PROVE  c[i] = (a \o b)[i]
  <2>1. CASE i <= m
    <3>1. i \in 1 .. m
      BY <2>1
    <3> QED BY <1>3, <1>5, <1>6, <2>1, <3>1
  <2>2. CASE ~(i <= m)
    <3>1. i - m \in 1 .. n /\ i - m - 1 \in Nat /\ m + (i - m - 1) = i - 1
      BY <2>2
    <3>2. From(From(pl, m), i - m - 1) = [addr |-> pl.addr, k |-> pl.k + m + (i - m - 1)]
      BY <1>1, FromIs
    <3>3. From(pl, i - 1) = [addr |-> pl.addr, k |-> pl.k + (i - 1)]
      BY FromIs
    <3>4. pl.k + m + (i - m - 1) = pl.k + (i - 1)
      BY <1>0, <3>1
    <3>5. From(From(pl, m), i - m - 1) = From(pl, i - 1)
      BY <3>2, <3>3, <3>4
    <3>6. (a \o b)[i] = b[i - m] /\ b[i - m] = From(From(pl, m), i - m - 1)
      BY <1>4, <1>6, <2>2, <3>1
    <3> QED BY <1>5, <3>5, <3>6
  <2> QED BY <2>1, <2>2
<1>8. c = a \o b
  BY <1>5, <1>6, <1>7, SeqEqual
<1> QED BY <1>8 DEF a, b, c, Joined

LEMMA DataNone ==
  ASSUME NEW pl
  PROVE  Data(pl, 0) = <<>>
<1>1. 1 .. 0 = {}
  OBVIOUS
<1> QED BY <1>1 DEF Data

(* The packets behind the tags of a chain.                                    *)
LEMMA BehindIs ==
  ASSUME NoEnd, NEW c \in Seq(Sendable)
  PROVE  /\ DataBehind(c) \in Seq(Place)
         /\ c = <<>> => DataBehind(c) = <<>>
         /\ c # <<>> => DataBehind(c) = Joined(Data([addr |-> Head(c).addr, k |-> 0], Head(c).len),
                                               DataBehind(Tail(c)))
<1> DEFINE packets(x) ==
             [i \in 1 .. Len(x) |-> Data([addr |-> x[i].addr, k |-> 0], x[i].len)]
<1>1. ASSUME NEW x \in Seq(Sendable)
      PROVE  packets(x) \in Seq(Seq(Place)) /\ Len(packets(x)) = Len(x) /\ Len(x) \in Nat
  <2>1. Len(x) \in Nat
    BY LenProperties
  <2>2. ASSUME NEW i \in 1 .. Len(x)
        PROVE  Data([addr |-> x[i].addr, k |-> 0], x[i].len) \in Seq(Place)
    <3>1. x[i] \in Sendable
      BY ElementOfSeq
    <3>2. x[i].addr \in Addr /\ x[i].len \in Nat /\ x[i].len \in 0 .. MaxQwc
      BY <3>1, Tags
    <3> DEFINE pl == [addr |-> x[i].addr, k |-> 0]
    <3>3. pl \in Place /\ pl.k + x[i].len <= MaxQwc
      BY <3>2, Start, Sif0Assumption
    <3> HIDE DEF pl
    <3>4. Data(pl, x[i].len) \in Seq(Place)
      BY <3>2, <3>3, DataIs
    <3> QED BY <3>4 DEF pl
  <2>3. packets(x) \in [1 .. Len(x) -> Seq(Place)]
    BY <2>2
  <2> HIDE DEF packets
  <2> QED BY <2>1, <2>3, Made
<1>2. \A x : DataBehind(x) = FlattenSeq(packets(x))
  BY DEF DataBehind
<1>3. packets(c) \in Seq(Seq(Place)) /\ Len(packets(c)) = Len(c)
  BY <1>1
<1>4. DataBehind(c) \in Seq(Place) /\ (packets(c) = <<>> => DataBehind(c) = <<>>)
  <2> HIDE DEF packets
  <2> QED BY <1>2, <1>3, FlattenTyped
<1>5. c = <<>> <=> packets(c) = <<>>
  <2> HIDE DEF packets
  <2> QED BY <1>3, EmptySeq
<1>6. ASSUME c # <<>>
      PROVE  DataBehind(c) = Joined(Data([addr |-> Head(c).addr, k |-> 0], Head(c).len),
                                    DataBehind(Tail(c)))
  <2>1. /\ Tail(c) \in Seq(Sendable) /\ Len(Tail(c)) = Len(c) - 1 /\ Len(c) \in Nat /\ Len(c) # 0
        /\ Head(c) = c[1] /\ \A i \in 1 .. Len(Tail(c)) : Tail(c)[i] = c[i + 1]
    BY <1>6, HeadTailProperties, LenProperties, EmptySeq
  <2>2. FlattenSeq(packets(c)) = Head(packets(c)) \o FlattenSeq(Tail(packets(c)))
    <3> HIDE DEF packets
    <3> QED BY <1>3, <1>5, <1>6, FlattenHead
  <2>3. Head(packets(c)) = Data([addr |-> Head(c).addr, k |-> 0], Head(c).len)
    <3>1. 1 \in 1 .. Len(c)
      BY <2>1
    <3>2. packets(c)[1] = Data([addr |-> c[1].addr, k |-> 0], c[1].len)
      BY <3>1
    <3> HIDE DEF packets
    <3> QED BY <1>3, <1>5, <1>6, <2>1, <3>2
  <2>4. Tail(packets(c)) = packets(Tail(c))
    <3>1. /\ Tail(packets(c)) \in Seq(Seq(Place))
          /\ Len(Tail(packets(c))) = Len(c) - 1
          /\ \A i \in 1 .. Len(c) - 1 : Tail(packets(c))[i] = packets(c)[i + 1]
      <4> HIDE DEF packets
      <4> QED BY <1>3, <1>5, <1>6, HeadTailProperties
    <3>2. packets(Tail(c)) \in Seq(Seq(Place)) /\ Len(packets(Tail(c))) = Len(c) - 1
      BY <1>1, <2>1
    <3>3. ASSUME NEW i \in 1 .. Len(c) - 1
          PROVE  packets(Tail(c))[i] = Tail(packets(c))[i]
      <4>1. i \in 1 .. Len(Tail(c)) /\ i + 1 \in 1 .. Len(c) /\ Tail(c)[i] = c[i + 1]
        BY <2>1
      <4>2. packets(Tail(c))[i] = Data([addr |-> Tail(c)[i].addr, k |-> 0], Tail(c)[i].len)
        BY <4>1
      <4>3. packets(c)[i + 1] = Data([addr |-> c[i + 1].addr, k |-> 0], c[i + 1].len)
        BY <4>1
      <4> QED BY <3>1, <4>1, <4>2, <4>3
    <3> HIDE DEF packets
    <3> QED BY <3>1, <3>2, <3>3, SeqEqual
  <2> HIDE DEF packets
  <2> QED BY <1>2, <2>2, <2>3, <2>4 DEF Joined
<1> HIDE DEF packets
<1> QED BY <1>4, <1>5, <1>6

(* A tag in the FIFO is no data; data is all of the FIFO.                      *)
LEMMA TagIsNoData ==
  ASSUME NEW f, f = <<>> \/ (f \in Seq(Item) /\ Len(f) = 1 /\ f[1] = TagItem(f[1].tag))
  PROVE  DataOf(f) = <<>>
<1>1. Len(f) - Lead(f) = 0
  <2>1. CASE f = <<>>
    BY <2>1 DEF Lead
  <2>2. CASE f # <<>>
    <3>1. f[1].place = Nowhere
      BY <2>2 DEF TagItem
    <3> QED BY <2>2, <3>1 DEF Lead
  <2> QED BY <2>1, <2>2
<1>2. 1 .. 0 = {}
  OBVIOUS
<1> QED BY <1>1, <1>2 DEF DataOf

LEMMA DataOfFifo ==
  ASSUME NEW f \in Seq(Item), NEW q \in Place, q.k + Len(f) <= MaxQwc,
         \A i \in 1 .. Len(f) : f[i].place = From(q, i - 1)
  PROVE  DataOf(f) = Data(q, Len(f))
<1>1. Len(f) \in Nat
  BY LenProperties
<1>2. Lead(f) = 0
  <2>1. ASSUME f # <<>> PROVE f[1].place # Nowhere
    <3>1. Len(f) # 0
      BY <2>1, EmptySeq
    <3>2. f[1].place = From(q, 0) /\ From(q, 0) = q
      <4>1. 1 \in 1 .. Len(f) /\ 1 - 1 = 0
        BY <1>1, <3>1
      <4> QED BY <4>1, Stay
    <3>3. q.k \in Nat /\ q.k < MaxQwc /\ MaxQwc \in Nat
      BY <1>1, <3>1, Sif0Assumption DEF Place
    <3> QED BY <3>2, <3>3 DEF Nowhere
  <2> QED BY <2>1 DEF Lead
<1>3. \A i \in 1 .. Len(f) : f[i + 0].place = From(q, i - 1)
  BY <1>1
<1> DEFINE d == [i \in 1 .. Len(f) - 0 |-> f[i + 0].place]
           e == [i \in 1 .. Len(f) |-> From(q, i - 1)]
<1>4. d = e
  <2>1. Len(f) - 0 = Len(f)
    BY <1>1
  <2> QED BY <1>3, <2>1
<1>5. DataOf(f) = d
  BY <1>2 DEF DataOf
<1>6. Data(q, Len(f)) = e
  BY DEF Data
<1> QED BY <1>4, <1>5, <1>6

(* InTransit of its parts.                                                    *)
Flow(f, pl, n, c) == DataOf(f) \o Data(pl, n) \o DataBehind(c)

(* ... when the FIFO is empty or holds a tag ...                               *)
LEMMA FlowAhead ==
  ASSUME NoEnd, NEW f, f = <<>> \/ (f \in Seq(Item) /\ Len(f) = 1 /\ f[1] = TagItem(f[1].tag)),
         NEW pl \in Place, NEW n \in Nat, pl.k + n <= MaxQwc, NEW c \in Seq(Sendable)
  PROVE  /\ Flow(f, pl, n, c) = Joined(Data(pl, n), DataBehind(c))
         /\ Flow(f, pl, n, c) \in Seq(Place)
         /\ n = 0 => Flow(f, pl, n, c) = DataBehind(c)
<1>1. DataOf(f) = <<>>
  BY TagIsNoData
<1>2. Data(pl, n) \in Seq(Place) /\ DataBehind(c) \in Seq(Place)
  BY DataIs, BehindIs
<1>3. Flow(f, pl, n, c) = Joined(Joined(<<>>, Data(pl, n)), DataBehind(c))
  BY <1>1 DEF Flow, Joined
<1>4. Joined(<<>>, Data(pl, n)) = Data(pl, n) /\ Joined(<<>>, DataBehind(c)) = DataBehind(c)
  BY <1>2, ConcatEmptySeq DEF Joined
<1>5. Joined(Data(pl, n), DataBehind(c)) \in Seq(Place)
  BY <1>2, ConcatProperties DEF Joined
<1>6. n = 0 => Data(pl, n) = <<>>
  BY DataNone
<1> QED BY <1>3, <1>4, <1>5, <1>6

(* ... and when it holds data that the rest of the packet follows.            *)
LEMMA FlowBegun ==
  ASSUME NoEnd, NEW f \in Seq(Item), NEW q \in Place,
         \A i \in 1 .. Len(f) : f[i].place = From(q, i - 1),
         NEW pl, pl = From(q, Len(f)), NEW n \in Nat, q.k + (Len(f) + n) <= MaxQwc,
         NEW c \in Seq(Sendable)
  PROVE  /\ Flow(f, pl, n, c) = Joined(Data(q, Len(f)), Joined(Data(pl, n), DataBehind(c)))
         /\ Data(q, Len(f)) \in Seq(Place) /\ Len(Data(q, Len(f))) = Len(f)
         /\ \A i \in 1 .. Len(f) : Data(q, Len(f))[i] = From(q, i - 1)
         /\ Joined(Data(pl, n), DataBehind(c)) \in Seq(Place)
         /\ Len(Flow(f, pl, n, c)) = Len(f) + Len(Joined(Data(pl, n), DataBehind(c)))
<1>1. Len(f) \in Nat /\ MaxQwc \in Nat /\ q.k \in Nat
  BY LenProperties, Sif0Assumption DEF Place
<1>2. q.k + Len(f) <= MaxQwc
  BY <1>1
<1>3. pl \in Place /\ pl.k + n <= MaxQwc
  <2>1. pl \in Place /\ pl.k = q.k + Len(f)
    BY <1>1, <1>2, Advance
  <2> QED BY <1>1, <2>1
<1>4. DataOf(f) = Data(q, Len(f))
  BY <1>2, DataOfFifo
<1>5. Data(pl, n) \in Seq(Place) /\ DataBehind(c) \in Seq(Place)
  BY <1>3, DataIs, BehindIs
<1>6. /\ Data(q, Len(f)) \in Seq(Place) /\ Len(Data(q, Len(f))) = Len(f)
      /\ \A i \in 1 .. Len(f) : Data(q, Len(f))[i] = From(q, i - 1)
  BY <1>1, <1>2, DataIs
<1>7. Flow(f, pl, n, c) = Joined(Joined(Data(q, Len(f)), Data(pl, n)), DataBehind(c))
  BY <1>4 DEF Flow, Joined
<1>9. Joined(Joined(Data(q, Len(f)), Data(pl, n)), DataBehind(c))
        = Joined(Data(q, Len(f)), Joined(Data(pl, n), DataBehind(c)))
  BY <1>5, <1>6, JoinThree
<1> DEFINE a == Data(q, Len(f))
           b == Joined(Data(pl, n), DataBehind(c))
<1>10. b \in Seq(Place)
  BY <1>5, ConcatProperties DEF Joined
<1>11. Flow(f, pl, n, c) = Joined(a, b) /\ a \in Seq(Place) /\ Len(a) = Len(f)
  BY <1>6, <1>7, <1>9
<1> HIDE DEF a, b
<1>12. Len(Flow(f, pl, n, c)) = Len(f) + Len(b)
  <2>1. Len(Joined(a, b)) = Len(a) + Len(b)
    BY <1>10, <1>11, ConcatProperties DEF Joined
  <2> QED BY <1>11, <2>1
<1> QED BY <1>6, <1>7, <1>9, <1>10, <1>12 DEF a, b

-----------------------------------------------------------------------------
(* What a step is for the channel.                                            *)

(* A step of SifChannel: from the qwords a to the qwords b, storing st.       *)
Moves(Q, a, b, st) ==
  \/ b \in Seq(Q) /\ Len(a) <= Len(b) /\ a = SubSeq(b, 1, Len(a)) /\ st = <<>>
  \/ \E n \in 0 .. Len(a) : /\ st = [i \in 1 .. n |-> [place |-> a[i], qword |-> a[i]]]
                            /\ b = SubSeq(a, n + 1, Len(a))

LEMMA MovesNone ==
  ASSUME NEW Q, NEW a \in Seq(Q)
  PROVE  Moves(Q, a, a, <<>>)
<1>1. SubSeq(a, 1, Len(a)) = a
  BY SubSeqFull
<1>2. Len(a) <= Len(a)
  <2>1. Len(a) \in Nat
    BY LenProperties
  <2> QED BY <2>1
<1> QED BY <1>1, <1>2 DEF Moves

LEMMA MovesIn ==
  ASSUME NEW Q, NEW b \in Seq(Q)
  PROVE  Moves(Q, <<>>, b, <<>>)
<1>1. Len(<<>>) = 0 /\ SubSeq(b, 1, 0) = <<>>
  BY SubSeqEmpty
<1>2. Len(b) \in Nat
  BY LenProperties
<1>3. 0 <= Len(b)
  BY <1>2
<1> QED BY <1>1, <1>3 DEF Moves

LEMMA MovesOut ==
  ASSUME NEW Q, NEW x \in Seq(Q), NEW y \in Seq(Q)
  PROVE  Moves(Q, Joined(x, y), y, [i \in 1 .. Len(x) |-> [place |-> x[i], qword |-> x[i]]])
<1> DEFINE t == Joined(x, y)
<1>1. /\ Len(x) \in Nat /\ Len(y) \in Nat
      /\ t \in Seq(Q) /\ Len(t) = Len(x) + Len(y)
      /\ \A i \in 1 .. Len(x) + Len(y) : t[i] = IF i <= Len(x) THEN x[i] ELSE y[i - Len(x)]
  BY ConcatProperties, LenProperties DEF Joined
<1>2. SubSeq(t, Len(x) + 1, Len(t)) = y
  <2>1. CASE Len(y) = 0
    <3>1. y = <<>>
      BY <2>1, EmptySeq
    <3>2. Len(t) = Len(x)
      BY <1>1, <2>1
    <3> HIDE DEF t
    <3> QED BY <1>1, <3>1, <3>2, SubSeqEmpty
  <2>2. CASE Len(y) # 0
    <3>1. /\ Len(x) + 1 \in Len(x) + 1 .. Len(x) + Len(y)
          /\ Len(x) + Len(y) \in Len(x) + 1 .. Len(x) + Len(y)
          /\ Len(x) + 1 - Len(x) = 1 /\ Len(x) + Len(y) - Len(x) = Len(y)
      BY <1>1, <2>2
    <3>2. SubSeq(x \o y, Len(x) + 1, Len(x) + Len(y)) = SubSeq(y, 1, Len(y))
      BY <3>1, SubSeqOfConcat2
    <3>3. SubSeq(y, 1, Len(y)) = y
      BY SubSeqFull
    <3> QED BY <1>1, <3>2, <3>3 DEF Joined
  <2> QED BY <2>1, <2>2
<1> HIDE DEF t
<1>3. \A i \in 1 .. Len(x) : t[i] = x[i]
  BY <1>1
<1>4. [i \in 1 .. Len(x) |-> [place |-> x[i], qword |-> x[i]]]
        = [i \in 1 .. Len(x) |-> [place |-> t[i], qword |-> t[i]]]
  <2>1. \A i \in 1 .. Len(x) : [place |-> t[i], qword |-> t[i]] = [place |-> x[i], qword |-> x[i]]
    BY <1>3
  <2> QED BY <2>1
<1>5. Len(x) \in 0 .. Len(t)
  BY <1>1
<1>6. Moves(Q, t, y, [i \in 1 .. Len(x) |-> [place |-> x[i], qword |-> x[i]]])
  BY <1>2, <1>4, <1>5 DEF Moves
<1> QED BY <1>6 DEF t

LEMMA MovesAre ==
  Moves(Place, InTransit, InTransit', stored') => Channel!Next
BY DEF Moves, Channel!Next, Channel!Send, Channel!Store

LEMMA ChannelKeeps ==
  ASSUME InTransit \in Seq(Place), InTransit' = InTransit, stored' = <<>>
  PROVE  Channel!Next
BY MovesNone, MovesAre

LEMMA ChannelSends ==
  ASSUME InTransit = <<>>, InTransit' \in Seq(Place), stored' = <<>>
  PROVE  Channel!Next
BY MovesIn, MovesAre

LEMMA ChannelStores ==
  ASSUME NEW x \in Seq(Place), NEW y \in Seq(Place),
         InTransit = Joined(x, y), InTransit' = y,
         stored' = [i \in 1 .. Len(x) |-> [place |-> x[i], qword |-> x[i]]]
  PROVE  Channel!Next
<1>1. Moves(Place, Joined(x, y), y, [i \in 1 .. Len(x) |-> [place |-> x[i], qword |-> x[i]]])
  BY MovesOut
<1> QED BY <1>1, MovesAre

(* What the invariant says of what is in transit.                             *)
LEMMA StateFlow ==
  ASSUME SifInv
  PROVE  /\ madr9 \in Place /\ counter \in Nat /\ madr9.k + counter <= MaxQwc
         /\ chain \in Seq(Sendable) /\ fifo \in Seq(Item)
         /\ InTransit = Flow(fifo, madr9, counter, chain)
         /\ InTransit' = Flow(fifo', madr9', counter', chain')
         /\ pc # "ee" \/ qwc = 0
               => fifo = <<>> \/ (Len(fifo) = 1 /\ fifo[1] = TagItem(fifo[1].tag))
<1> USE DEF SifInv
<1>1. /\ madr9 \in Place /\ counter \in Nat /\ madr9.k + counter <= MaxQwc
      /\ chain \in Seq(Sendable) /\ fifo \in Seq(Item) /\ pc \in {"idle", "iop", "ee"}
  BY Sif0Assumption DEF TypeOK, IopChannel
<1>2. InTransit = Flow(fifo, madr9, counter, chain)
  BY DEF InTransit, Flow
<1>3. InTransit' = Flow(fifo', madr9', counter', chain')
  BY DEF InTransit, Flow, DataOf, Lead, Data, DataBehind, From
<1>4. CASE pc # "ee"
  BY <1>1, <1>2, <1>3, <1>4 DEF InStep
<1>5. CASE pc = "ee" /\ qwc = 0
  <2>1. Len(fifo) \in Nat /\ (fifo = <<>> <=> Len(fifo) = 0)
    BY <1>1, LenProperties, EmptySeq
  <2>2. fifo # <<>> => Len(fifo) = 1
    BY <1>1, <1>5, <2>1 DEF InStep
  <2>3. fifo # <<>> => fifo[1] = TagItem(fifo[1].tag)
    BY <1>5 DEF LoopState
  <2> QED BY <1>1, <1>2, <1>3, <2>2, <2>3
<1> QED BY <1>1, <1>2, <1>3, <1>4, <1>5

(* Outside the loop a start of the IOP sends a whole chain; nothing else that  *)
(* is done there moves data.                                                  *)
LEMMA IdleIsChannel ==
  ASSUME NoEnd, SifInv, SifInv', psxDma9 \/ dmaSIF0 \/ sif0Interrupt \/ EEsif0Interrupt
  PROVE  Channel!Next
<1>1. /\ pc = "idle" /\ fifo = <<>> /\ fifo' = <<>> /\ counter' = counter /\ madr9' = madr9
      /\ stored' = <<>> /\ counter = 0
  BY DEF psxDma9, dmaSIF0, sif0Interrupt, EEsif0Interrupt, iopVars, SifInv, InStep, LoopState
<1>2. chain' \in Seq(Sendable)
  BY DEF SifInv, TypeOK
<1>3. /\ madr9 \in Place /\ counter \in Nat /\ madr9.k + counter <= MaxQwc
      /\ chain \in Seq(Sendable)
      /\ InTransit = Flow(<<>>, madr9, 0, chain) /\ InTransit' = Flow(<<>>, madr9, 0, chain')
  BY <1>1, StateFlow
<1>4. madr9.k + 0 <= MaxQwc /\ 0 \in Nat
  BY <1>1, <1>3
<1>5. /\ InTransit \in Seq(Place) /\ InTransit' \in Seq(Place)
      /\ InTransit = DataBehind(chain)
  BY <1>2, <1>3, <1>4, FlowAhead
<1>6. CASE psxDma9
  <2>1. chain = <<>>
    BY <1>6 DEF psxDma9, SifInv, IopChannel
  <2>2. InTransit = <<>>
    BY <1>3, <1>5, <2>1, BehindIs
  <2> QED BY <1>1, <1>5, <2>2, ChannelSends
<1>7. CASE ~psxDma9
  <2>1. chain' = chain
    BY <1>7 DEF dmaSIF0, sif0Interrupt, EEsif0Interrupt, iopVars
  <2> QED BY <1>1, <1>3, <1>5, <2>1, ChannelKeeps
<1> QED BY <1>6, <1>7

(* The IOP side only moves qwords towards the FIFO.                            *)
LEMMA IopIsChannel ==
  ASSUME NoEnd, SifInv, SifInv', IopSide
  PROVE  Channel!Next
<1>1. fifo = <<>> /\ stored' = <<>>
  BY IopKeeps
<1>2. /\ madr9 \in Place /\ counter \in Nat /\ madr9.k + counter <= MaxQwc
      /\ chain \in Seq(Sendable)
      /\ InTransit = Flow(<<>>, madr9, counter, chain)
      /\ InTransit' = Flow(fifo', madr9', counter', chain')
  BY <1>1, StateFlow
<1>3. /\ InTransit = Joined(Data(madr9, counter), DataBehind(chain))
      /\ InTransit \in Seq(Place)
      /\ counter = 0 => InTransit = DataBehind(chain)
  BY <1>2, FlowAhead
<1>4. CASE IopStop
  <2>1. fifo' = fifo /\ madr9' = madr9 /\ counter' = counter /\ chain' = chain
    BY <1>4 DEF IopStop
  <2> QED BY <1>1, <1>2, <1>3, <2>1, ChannelKeeps
<1>5. CASE IopTag
  <2> DEFINE p == Head(chain)
             pl == [addr |-> p.addr, k |-> 0]
             f == <<TagItem(p)>>
  <2>1. /\ counter = 0 /\ ~stop /\ fifo' = Append(fifo, TagItem(p)) /\ counter' = p.len
        /\ madr9' = pl /\ chain' = Tail(chain)
    BY <1>5 DEF IopTag
  <2>2. chain # <<>>
    BY <2>1, IopKeeps
  <2>3. p \in Sendable /\ Tail(chain) \in Seq(Sendable)
    BY <1>2, <2>2, HeadTailProperties
  <2>4. p \in Packet /\ p.addr \in Addr /\ p.len \in Nat /\ p.len \in 0 .. MaxQwc
    BY <2>3, Tags
  <2>5. f \in Seq(Item) /\ Len(f) = 1 /\ f[1] = TagItem(p) /\ f[1].tag = p /\ fifo' = f
    <3>1. TagItem(p) \in Item /\ TagItem(p).tag = p
      BY <2>4, Items
    <3> HIDE DEF p
    <3> QED BY <1>1, <2>1, <3>1
  <2>6. pl \in Place /\ pl.k + p.len <= MaxQwc
    BY <2>4, Start, Sif0Assumption
  <2> HIDE DEF p, pl, f
  <2>7. Flow(f, pl, p.len, Tail(chain)) = Joined(Data(pl, p.len), DataBehind(Tail(chain)))
    BY <2>3, <2>4, <2>5, <2>6, FlowAhead, ZenonT(30)
  <2>8. DataBehind(chain) = Joined(Data(pl, p.len), DataBehind(Tail(chain)))
    BY <1>2, <2>2, BehindIs DEF p, pl
  <2> QED BY <1>1, <1>2, <1>3, <2>1, <2>5, <2>7, <2>8, ChannelKeeps
<1>6. CASE IopData
  <2> DEFINE n == Least(counter, FifoSize - Len(fifo))
             f == [i \in 1 .. n |-> DataItem(From(madr9, i - 1))]
  <2>1. /\ counter > 0 /\ fifo' = fifo \o f /\ madr9' = From(madr9, n) /\ counter' = counter - n
        /\ chain' = chain
    BY <1>6 DEF IopData
  <2>2. n \in Nat /\ n <= counter
    BY <1>1, <1>2, Sif0Assumption DEF Least
  <2>3. MaxQwc \in Nat /\ madr9.k \in Nat
    BY <1>2, Sif0Assumption DEF Place
  <2> HIDE DEF n
  <2>4. ASSUME NEW i \in 1 .. n
        PROVE  /\ DataItem(From(madr9, i - 1)) \in Item
               /\ DataItem(From(madr9, i - 1)).place = From(madr9, i - 1)
    <3>1. i - 1 \in Nat /\ madr9.k + (i - 1) <= MaxQwc
      BY <1>2, <2>2, <2>3
    <3>2. From(madr9, i - 1) \in Place
      BY <1>2, <3>1, Advance
    <3> QED BY <3>2, Items
  <2>5. f \in [1 .. n -> Item] /\ \A i \in 1 .. n : f[i].place = From(madr9, i - 1)
    BY <2>4
  <2> HIDE DEF f
  <2>6. f \in Seq(Item) /\ Len(f) = n
    BY <2>2, <2>5, Made
  <2>7. fifo' = f
    BY <1>1, <2>1, <2>6, ConcatEmptySeq
  <2>8. /\ counter - n \in Nat /\ n + (counter - n) = counter
        /\ madr9.k + (n + (counter - n)) <= MaxQwc
    BY <1>2, <2>2, <2>3
  <2>9. Flow(f, From(madr9, n), counter - n, chain)
          = Joined(Data(madr9, n + (counter - n)), DataBehind(chain))
    <3>1. PICK m : m = counter - n
      OBVIOUS
    <3>2. m \in Nat /\ madr9.k + (n + m) <= MaxQwc /\ madr9.k + n <= MaxQwc
      BY <1>2, <2>2, <2>3, <2>8, <3>1
    <3>3. DataOf(f) = Data(madr9, n)
      BY <1>2, <2>5, <2>6, <3>2, DataOfFifo
    <3>4. Data(madr9, n + m) = Joined(Data(madr9, n), Data(From(madr9, n), m))
      BY <1>2, <2>2, <3>2, DataSplit
    <3> QED BY <3>1, <3>3, <3>4 DEF Flow, Joined
  <2> QED BY <1>1, <1>2, <1>3, <2>1, <2>7, <2>8, <2>9, ChannelKeeps
<1> QED BY <1>4, <1>5, <1>6 DEF IopSide

(* The EE side stores all the data in the FIFO.                               *)
LEMMA EeIsChannel ==
  ASSUME NoEnd, SifInv, SifInv', EeSide
  PROVE  Channel!Next
<1>1. /\ pc = "ee" /\ counter' = counter /\ madr9' = madr9 /\ chain' = chain
      /\ \/ qwc = counter + Len(fifo)
         \/ qwc = 0 /\ Len(fifo) = 1 /\ counter = fifo[1].tag.len
  BY EeKeeps
<1>2. /\ madr9 \in Place /\ counter \in Nat /\ madr9.k + counter <= MaxQwc
      /\ chain \in Seq(Sendable) /\ fifo \in Seq(Item)
      /\ InTransit = Flow(fifo, madr9, counter, chain)
      /\ InTransit' = Flow(fifo', madr9, counter, chain)
      /\ qwc = 0 => fifo = <<>> \/ (Len(fifo) = 1 /\ fifo[1] = TagItem(fifo[1].tag))
  BY <1>1, StateFlow
<1>3. /\ qwc \in Nat /\ Len(fifo) \in Nat /\ Readable \in Nat /\ Left = qwc - Readable
      /\ qwc > 0 => /\ Readable = Len(fifo) /\ Left = counter
      /\ qwc = 0 => Readable = 0
      /\ Len(fifo) = Readable => Drop(fifo, Readable) = <<>>
  BY EeReads
<1>4. pc' # "ee"
  BY DEF EeSide
<1>5. fifo' = <<>>
  BY <1>4 DEF SifInv, InStep, TypeOK
<1>6. /\ InTransit' = Joined(Data(madr9, counter), DataBehind(chain))
      /\ InTransit' \in Seq(Place)
  BY <1>2, <1>5, FlowAhead
<1>7. CASE qwc = 0
  <2>1. stored' = <<>>
    <3>1. Readable = 0 /\ 1 .. 0 = {}
      BY <1>3, <1>7
    <3> QED BY <3>1 DEF EeSide, EeRead
  <2>2. InTransit = Joined(Data(madr9, counter), DataBehind(chain))
    BY <1>2, <1>7, FlowAhead
  <2> QED BY <1>6, <2>1, <2>2, ChannelKeeps
<1>8. CASE qwc # 0
  <2>1. qwc > 0 /\ qwc = counter + Len(fifo) /\ Readable = Len(fifo)
    BY <1>1, <1>3, <1>8
  <2>2. /\ madr \in Place /\ madr.k + qwc <= MaxQwc /\ madr.k \in Nat
        /\ \A i \in 1 .. Len(fifo) : fifo[i].place = From(madr, i - 1)
        /\ madr9 = From(madr, Len(fifo))
    BY <1>1, <1>8 DEF SifInv, TypeOK, EeChannel, LoopState, Place
  <2>3. madr.k + (Len(fifo) + counter) <= MaxQwc
    BY <1>2, <1>3, <2>1, <2>2
  <2> DEFINE x == Data(madr, Len(fifo))
             y == Joined(Data(madr9, counter), DataBehind(chain))
  <2>4. /\ InTransit = Joined(x, y) /\ x \in Seq(Place) /\ y \in Seq(Place) /\ Len(x) = Len(fifo)
        /\ \A i \in 1 .. Len(fifo) : x[i] = From(madr, i - 1)
    <3>1. /\ fifo \in Seq(Item) /\ madr \in Place /\ counter \in Nat /\ chain \in Seq(Sendable)
          /\ madr9 = From(madr, Len(fifo))
          /\ \A i \in 1 .. Len(fifo) : fifo[i].place = From(madr, i - 1)
          /\ madr.k + (Len(fifo) + counter) <= MaxQwc
      BY <1>2, <2>2, <2>3
    <3>2. /\ Flow(fifo, madr9, counter, chain) = Joined(x, y)
          /\ x \in Seq(Place) /\ Len(x) = Len(fifo)
          /\ \A i \in 1 .. Len(fifo) : x[i] = From(madr, i - 1)
          /\ y \in Seq(Place)
      BY <3>1, FlowBegun
    <3> QED BY <1>2, <3>2
  <2> HIDE DEF x, y
  <2>5. stored' = [i \in 1 .. Len(fifo) |-> [place |-> From(madr, i - 1), qword |-> fifo[i].place]]
    BY <2>1 DEF EeSide, EeRead
  <2>6. stored' = [i \in 1 .. Len(x) |-> [place |-> x[i], qword |-> x[i]]]
    BY <2>2, <2>4, <2>5
  <2> QED BY <1>6, <2>4, <2>6, ChannelStores DEF y
<1> QED BY <1>7, <1>8

(* SIF0 is a channel (SifChannel): what the EE stores is what the IOP's chain *)
(* says, each qword once, in order and in its place, whatever the turns in    *)
(* which SIF0Dma passes it through the FIFO.                                  *)
THEOREM Sif0IsAChannel ==
  ASSUME NoEnd
  PROVE  Spec => ImplementsChannel
<1>1. Init => Channel!Init
  <2> SUFFICES ASSUME Init PROVE Channel!Init
    OBVIOUS
  <2>1. fifo = <<>> /\ chain = <<>> /\ counter = 0 /\ madr9 = Nowhere /\ stored = <<>>
    BY DEF Init
  <2>2. DataBehind(<<>>) = <<>>
    BY BehindIs, EmptySeq
  <2>3. Flow(<<>>, madr9, 0, <<>>) = <<>>
    <3>1. Nowhere \in Place /\ Nowhere.k + 0 <= MaxQwc /\ <<>> \in Seq(Sendable)
      BY NowhereIsPlace, Sif0Assumption, EmptySeq DEF Nowhere
    <3> QED BY <2>1, <2>2, <3>1, FlowAhead, ZenonT(30)
  <2>4. InTransit = Flow(fifo, madr9, counter, chain)
    BY DEF InTransit, Flow
  <2> QED BY <2>1, <2>3, <2>4 DEF Channel!Init
<1>2. SifInv /\ SifInv' /\ [Next]_vars => [Channel!Next]_<<InTransit, stored>>
  <2> SUFFICES ASSUME SifInv, SifInv', [Next]_vars
               PROVE  Channel!Next \/ UNCHANGED <<InTransit, stored>>
    OBVIOUS
  <2>1. CASE psxDma9 \/ dmaSIF0 \/ sif0Interrupt \/ EEsif0Interrupt
    BY <2>1, IdleIsChannel
  <2>2. CASE IopSide
    BY <2>2, IopIsChannel
  <2>3. CASE EeSide
    BY <2>3, EeIsChannel
  <2>4. CASE UNCHANGED vars
    <3>1. fifo' = fifo /\ madr9' = madr9 /\ counter' = counter /\ chain' = chain /\ stored' = stored
      BY <2>4 DEF vars, iopVars
    <3>2. InTransit' = InTransit
      BY <3>1, StateFlow
    <3> QED BY <3>1, <3>2
  <2> QED BY <2>1, <2>2, <2>3, <2>4 DEF Next, SIF0Dma
<1> QED BY <1>1, <1>2, SifInvariant, PTL DEF Spec, ImplementsChannel, Channel!Spec

-----------------------------------------------------------------------------
(* SIF1. *)
VARIABLES source, madr10, tagMode
Up == INSTANCE Sif1

(* Runs of qwords.  One that begins a packet has the tag of it first; all     *)
(* the others are data.                                                       *)
Opens(s) == s # <<>> /\ s[1].place = Up!Nowhere
Run(s) == s \in Seq(Up!Item) /\ \A i \in 2 .. Len(s) : s[i].place # Up!Nowhere

(* What the i-th tag of a chain adds to the packet before it.                 *)
Piece(c, i) == IF i \in 1 .. Len(c) /\ ~Opens(c[i]) THEN c[i] ELSE <<>>
Rest(c, i) == Len(Piece(c, i))

(* Each packet of a chain is whole, with one tag or with two.                 *)
Whole(c) ==
  /\ c \in Seq(Seq(Up!Item))
  /\ \A i \in 1 .. Len(c) :
       /\ Run(c[i]) /\ c[i] # <<>>
       /\ IF Opens(c[i]) THEN Joined(c[i], Piece(c, i + 1)) = Up!Contents(c[i][1].tag)
                         ELSE Piece(c, i + 1) = <<>>

(* What the channels have to do with the interrupts that end them.            *)
UpChannels ==
  /\ eesifbusy => eeSTR /\ ~eeEvt /\ (end <=> chain = <<>>)
  /\ ~eesifbusy => source = <<>> /\ chain = <<>> /\ ~end
  /\ eeEvt => eeSTR
  /\ iopsifbusy => iopTR /\ ~iopEvt
  /\ iopEvt => iopTR

UpLoop ==
  /\ pc \in {"idle", "ee", "iop"}
  /\ pc = "idle" => counter = 0 /\ fifo = <<>> /\ ~tagMode
  /\ pc = "ee" => eesifbusy /\ iopsifbusy /\ notDone
  /\ pc = "iop" => iopsifbusy /\ (notDone <=> eesifbusy)

(* What the IOP side waits for is what the EE side has to send of the packet: *)
(* of the one begun, of the one to begin, and of the one in the FIFO.         *)
Owed ==
  /\ counter \in Nat /\ tagMode \in BOOLEAN
  /\ Run(fifo) /\ Len(fifo) <= FifoSize /\ Run(source) /\ Whole(chain)
  /\ ~Opens(fifo) /\ ~Opens(source) => counter = Len(fifo) + Len(source) + Rest(chain, 1)
  /\ Opens(source) =>
       /\ ~Opens(fifo) /\ counter = Len(fifo)
       /\ Len(source) + Rest(chain, 1) = source[1].tag.len + 1
       /\ pc # "iop" => fifo = <<>> /\ ~tagMode
  /\ Opens(fifo) =>
       /\ pc = "iop" /\ eesifbusy /\ counter = 0 /\ ~tagMode
       /\ Len(fifo) + Len(source) + Rest(chain, 1) = fifo[1].tag.len + 1

UpInv == UpChannels /\ UpLoop /\ Owed

-----------------------------------------------------------------------------
(* Runs, and their parts.                                                     *)

LEMMA UpConstants ==
  /\ FifoSize \in Nat \ {0} /\ MaxQwc \in Nat /\ MaxChain \in Nat \ {0}
  /\ Up!Nowhere \in Up!Place /\ Up!Nowhere.k = MaxQwc
  /\ Up!NoTag \in Up!Packet
<1>1. (CHOOSE a \in Addr : TRUE) \in Addr
  BY Sif0Assumption
<1> QED BY <1>1, Sif0Assumption DEF Up!Nowhere, Up!Place, Up!NoTag, Up!Packet

(* A qword of a run is a tag in Nowhere or data.                              *)
LEMMA RunItem ==
  ASSUME NEW s, Run(s), NEW i \in 1 .. Len(s)
  PROVE  /\ s[i] \in Up!Item /\ s[i].tag \in Up!Packet /\ s[i].tag.len \in Nat
         /\ s[i].place = Up!Nowhere => s[i] = Up!TagItem(s[i].tag)
<1>1. s[i] \in Up!Item
  BY ElementOfSeq DEF Run
<1>2. s[i] = [tag |-> s[i].tag, place |-> s[i].place] /\ s[i].tag \in Up!Packet
  BY <1>1 DEF Up!Item
<1>3. s[i].tag.len \in Nat
  BY <1>2, UpConstants DEF Up!Packet
<1> QED BY <1>1, <1>2, <1>3 DEF Up!TagItem

LEMMA RunLength ==
  ASSUME NEW s, Run(s)
  PROVE  Len(s) \in Nat /\ (s = <<>> <=> Len(s) = 0)
BY LenProperties, EmptySeq DEF Run

LEMMA RunEmpty == Run(<<>>) /\ ~Opens(<<>>) /\ Len(<<>>) = 0
<1>1. <<>> \in Seq(Up!Item) /\ Len(<<>>) = 0
  BY EmptySeq
<1>2. 2 .. 0 = {}
  OBVIOUS
<1> QED BY <1>1, <1>2 DEF Run, Opens

LEMMA RunTake ==
  ASSUME NEW s, Run(s), NEW n \in 1 .. Len(s)
  PROVE  /\ Run(Up!Take(s, n)) /\ Len(Up!Take(s, n)) = n
         /\ Up!Take(s, n) # <<>>
         /\ Up!Take(s, n)[1] = s[1]
         /\ Opens(Up!Take(s, n)) <=> Opens(s)
<1> DEFINE t == Up!Take(s, n)
<1>1. Len(s) \in Nat /\ n \in Nat /\ 1 <= n /\ n <= Len(s)
  BY RunLength
<1>2. \A i \in 1 .. n : s[i] \in Up!Item
  BY <1>1, RunItem
<1>3. /\ t \in Seq(Up!Item) /\ Len(t) = n
      /\ \A i \in 1 .. n : t[i] = s[i]
  <2>1. /\ t \in Seq(Up!Item)
        /\ Len(t) = IF 1 <= n THEN n - 1 + 1 ELSE 0
        /\ \A i \in 1 .. n - 1 + 1 : t[i] = s[1 + i - 1]
    BY <1>1, <1>2, SubSeqProperties DEF Up!Take
  <2> HIDE DEF t
  <2> QED BY <2>1, <1>1
<1> HIDE DEF t
<1>4. t # <<>> /\ s # <<>> /\ t[1] = s[1]
  BY <1>1, <1>3, EmptySeq
<1>5. Run(t)
  BY <1>1, <1>3 DEF Run
<1> QED BY <1>3, <1>4, <1>5 DEF t, Opens

LEMMA RunDrop ==
  ASSUME NEW s, Run(s), NEW n \in 1 .. Len(s)
  PROVE  /\ Run(Up!Drop(s, n)) /\ Len(Up!Drop(s, n)) = Len(s) - n
         /\ ~Opens(Up!Drop(s, n))
         /\ n = Len(s) => Up!Drop(s, n) = <<>>
<1> DEFINE t == Up!Drop(s, n)
<1>1. Len(s) \in Nat /\ n \in Nat /\ 1 <= n /\ n <= Len(s)
  BY RunLength
<1>2. \A i \in n + 1 .. Len(s) : s[i] \in Up!Item /\ s[i].place # Up!Nowhere
  <2>1. \A i \in n + 1 .. Len(s) : i \in 2 .. Len(s) /\ i \in 1 .. Len(s)
    BY <1>1
  <2> QED BY <2>1, RunItem DEF Run
<1>3. /\ t \in Seq(Up!Item) /\ Len(t) = Len(s) - n
      /\ \A i \in 1 .. Len(s) - n : t[i] = s[n + i]
  <2>1. /\ t \in Seq(Up!Item)
        /\ Len(t) = IF n + 1 <= Len(s) THEN Len(s) - (n + 1) + 1 ELSE 0
        /\ \A i \in 1 .. Len(s) - (n + 1) + 1 : t[i] = s[n + 1 + i - 1]
    BY <1>1, <1>2, SubSeqProperties DEF Up!Drop
  <2> HIDE DEF t
  <2>2. \A i \in 1 .. Len(s) - n : i \in 1 .. Len(s) - (n + 1) + 1 /\ n + 1 + i - 1 = n + i
    BY <1>1
  <2> QED BY <2>1, <2>2, <1>1
<1>4. n = Len(s) => t = <<>>
  BY <1>1, SubSeqEmpty DEF Up!Drop
<1> HIDE DEF t
<1>5. \A i \in 1 .. Len(t) : t[i].place # Up!Nowhere
  <2>1. \A i \in 1 .. Len(t) : n + i \in n + 1 .. Len(s)
    BY <1>1, <1>3
  <2> QED BY <2>1, <1>2, <1>3
<1>6. Run(t)
  BY <1>1, <1>3, <1>5 DEF Run
<1>7. ~Opens(t)
  BY <1>5, <1>6, RunLength DEF Opens
<1> QED BY <1>3, <1>4, <1>6, <1>7 DEF t

(* Nothing taken, nothing dropped.                                            *)
LEMMA RunWhole ==
  ASSUME NEW s, Run(s)
  PROVE  Up!Take(s, 0) = <<>> /\ Up!Drop(s, 0) = s
<1>1. Up!Take(s, 0) = <<>>
  BY SubSeqEmpty DEF Up!Take
<1>2. Up!Drop(s, 0) = s
  BY SubSeqFull DEF Up!Drop, Run
<1> QED BY <1>1, <1>2

LEMMA RunSplit ==
  ASSUME NEW s, Run(s), NEW n \in 0 .. Len(s)
  PROVE  Joined(Up!Take(s, n), Up!Drop(s, n)) = s
<1>1. Len(s) \in Nat /\ s \in Seq(Up!Item)
  BY RunLength DEF Run
<1>2. 1 \in 1 .. Len(s) + 1 /\ n \in 1 - 1 .. Len(s) /\ Len(s) \in n .. Len(s)
  BY <1>1
<1>3. SubSeq(s, 1, n) \o SubSeq(s, n + 1, Len(s)) = SubSeq(s, 1, Len(s))
  BY <1>1, <1>2, ConcatAdjacentSubSeq
<1> QED BY <1>1, <1>3, SubSeqFull DEF Joined, Up!Take, Up!Drop

LEMMA RunConcat ==
  ASSUME NEW s, Run(s), NEW t, Run(t), Opens(t) => s = <<>>
  PROVE  /\ Run(s \o t) /\ Len(s \o t) = Len(s) + Len(t)
         /\ s = <<>> => s \o t = t
         /\ s # <<>> => (Opens(s \o t) <=> Opens(s)) /\ (s \o t)[1] = s[1]
<1> DEFINE u == s \o t
<1>1. Len(s) \in Nat /\ Len(t) \in Nat /\ (s = <<>> <=> Len(s) = 0) /\ (t = <<>> <=> Len(t) = 0)
  BY RunLength
<1>2. /\ u \in Seq(Up!Item) /\ Len(u) = Len(s) + Len(t)
      /\ \A i \in 1 .. Len(s) + Len(t) : u[i] = IF i <= Len(s) THEN s[i] ELSE t[i - Len(s)]
  BY ConcatProperties DEF Run
<1>3. s = <<>> => u = t
  BY ConcatEmptySeq DEF Run
<1> HIDE DEF u
<1>4. CASE s = <<>>
  BY <1>2, <1>3, <1>4 DEF u
<1>5. CASE s # <<>>
  <2>1. u[1] = s[1] /\ u # <<>>
    BY <1>1, <1>2, <1>5, EmptySeq
  <2>2. ASSUME NEW i \in 2 .. Len(u)
        PROVE  u[i].place # Up!Nowhere
    <3>1. CASE i <= Len(s)
      <4>1. i \in 1 .. Len(s) + Len(t) /\ i \in 2 .. Len(s)
        BY <1>1, <1>2, <3>1
      <4> QED BY <4>1, <3>1, <1>2 DEF Run
    <3>2. CASE ~(i <= Len(s))
      <4>1. i \in 1 .. Len(s) + Len(t) /\ i - Len(s) \in 1 .. Len(t)
        BY <1>1, <1>2, <3>2
      <4>2. u[i] = t[i - Len(s)]
        BY <4>1, <3>2, <1>2
      <4>3. t # <<>> /\ t[1].place # Up!Nowhere
        BY <4>1, <1>1, <1>5 DEF Opens
      <4>4. \A k \in 1 .. Len(t) : k = 1 \/ k \in 2 .. Len(t)
        BY <1>1
      <4> QED BY <4>1, <4>2, <4>3, <4>4 DEF Run
    <3> QED BY <3>1, <3>2
  <2> QED BY <1>2, <1>5, <2>1, <2>2 DEF u, Run, Opens
<1> QED BY <1>4, <1>5

-----------------------------------------------------------------------------
(* What SifSetDma builds: chains of whole packets.                            *)

LEMMA ContentsRun ==
  ASSUME NEW p \in Up!Packet
  PROVE  /\ p.len \in Nat
         /\ Run(Up!Contents(p)) /\ Len(Up!Contents(p)) = p.len + 1
         /\ Opens(Up!Contents(p)) /\ Up!Contents(p)[1].tag = p
<1> DEFINE head == <<Up!TagItem(p)>>
           data == [k \in 1 .. p.len |-> Up!DataItem([addr |-> p.addr, k |-> k - 1])]
<1>1. p.len \in Nat /\ p.len <= MaxQwc /\ p.addr \in Addr
  BY UpConstants DEF Up!Packet
<1>2. Run(head) /\ Opens(head) /\ Len(head) = 1 /\ head[1].tag = p
  <2>1. Up!TagItem(p) \in Up!Item /\ Up!TagItem(p).place = Up!Nowhere /\ Up!TagItem(p).tag = p
    BY UpConstants DEF Up!TagItem, Up!Item
  <2>2. head \in Seq(Up!Item) /\ Len(head) = 1 /\ head[1] = Up!TagItem(p) /\ head # <<>>
    BY <2>1
  <2>3. 2 .. 1 = {}
    OBVIOUS
  <2> HIDE DEF head
  <2> QED BY <2>1, <2>2, <2>3 DEF Run, Opens
<1>3. ASSUME NEW k \in 1 .. p.len
      PROVE  /\ Up!DataItem([addr |-> p.addr, k |-> k - 1]) \in Up!Item
             /\ Up!DataItem([addr |-> p.addr, k |-> k - 1]).place # Up!Nowhere
  <2> DEFINE pl == [addr |-> p.addr, k |-> k - 1]
  <2>1. k - 1 \in 0 .. MaxQwc /\ k - 1 # MaxQwc
    BY <1>1, UpConstants
  <2>2. pl \in Up!Place /\ pl.k # MaxQwc
    BY <1>1, <2>1 DEF Up!Place
  <2>3. pl # Up!Nowhere
    BY <2>2, UpConstants
  <2> HIDE DEF pl
  <2>4. Up!DataItem(pl) \in Up!Item /\ Up!DataItem(pl).place = pl
    BY <2>2, UpConstants DEF Up!DataItem, Up!Item
  <2> QED BY <2>3, <2>4 DEF pl
<1>4. Run(data) /\ ~Opens(data) /\ Len(data) = p.len
  <2>1. \A k \in 1 .. p.len : data[k] \in Up!Item /\ data[k].place # Up!Nowhere
    BY <1>3
  <2>2. data \in [1 .. p.len -> Up!Item]
    BY <1>3
  <2> HIDE DEF data
  <2>3. data \in Seq(Up!Item)
    BY <1>1, <2>2, SeqDef
  <2>4. Len(data) = p.len
    BY <1>1, <2>2, <2>3, LenProperties
  <2>5. Run(data)
    <3>1. \A i \in 2 .. Len(data) : i \in 1 .. p.len
      BY <1>1, <2>4
    <3> QED BY <2>1, <2>3, <3>1 DEF Run
  <2>6. ~Opens(data)
    <3>1. data # <<>> => 1 \in 1 .. p.len
      BY <1>1, <2>4, <2>5, RunLength
    <3> QED BY <2>1, <3>1 DEF Opens
  <2> QED BY <2>4, <2>5, <2>6
<1>5. Up!Contents(p) = head \o data
  BY DEF Up!Contents
<1> HIDE DEF head, data
<1>6. head # <<>>
  BY <1>2 DEF Opens
<1>7. /\ Run(head \o data) /\ Len(head \o data) = Len(head) + Len(data)
      /\ Opens(head \o data) /\ (head \o data)[1] = head[1]
  BY <1>2, <1>4, <1>6, RunConcat
<1>8. Len(head) + Len(data) = p.len + 1
  BY <1>1, <1>2, <1>4
<1> QED BY <1>1, <1>2, <1>5, <1>7, <1>8

(* A layout is a whole chain by itself.                                       *)
LEMMA LayoutsWhole ==
  ASSUME NEW p \in Up!Packet, NEW l \in Up!Layouts(p)
  PROVE  Whole(l) /\ l # <<>> /\ Opens(l[1])
<1> DEFINE c == Up!Contents(p)
<1>1. Run(c) /\ Opens(c) /\ Len(c) = p.len + 1 /\ c[1].tag = p /\ p.len \in Nat /\ c # <<>>
  BY ContentsRun DEF Opens
<1>0. c = Up!Contents(p)
  OBVIOUS
<1> HIDE DEF c
<1>2. CASE l = <<c>>
  <2>1. /\ l \in Seq(Seq(Up!Item)) /\ Len(l) = 1 /\ l[1] = c /\ l # <<>>
    BY <1>1, <1>2 DEF Run
  <2>2. Piece(l, 2) = <<>>
    BY <2>1 DEF Piece
  <2>3. \A i \in 1 .. Len(l) : i = 1
    BY <2>1
  <2>4. Joined(c, Piece(l, 2)) = Up!Contents(c[1].tag)
    BY <1>0, <1>1, <2>2, ConcatEmptySeq DEF Joined, Run
  <2>5. Whole(l)
    BY <1>1, <2>1, <2>3, <2>4 DEF Whole
  <2> QED BY <1>1, <2>1, <2>5
<1>3. ASSUME NEW n \in 1 .. p.len, l = <<Up!Take(c, n), Up!Drop(c, n)>>
      PROVE  Whole(l) /\ l # <<>> /\ Opens(l[1])
  <2> DEFINE a == Up!Take(c, n)
             b == Up!Drop(c, n)
  <2>1. n \in 1 .. Len(c) /\ n \in Nat
    BY <1>1
  <2>2. Run(a) /\ Len(a) = n /\ a # <<>> /\ a[1] = c[1] /\ Opens(a)
    BY <1>1, <2>1, RunTake
  <2>3. Run(b) /\ Len(b) = p.len + 1 - n /\ ~Opens(b)
    <3>1. Run(b) /\ Len(b) = Len(c) - n /\ ~Opens(b)
      BY <1>1, <2>1, RunDrop
    <3> HIDE DEF b
    <3> QED BY <1>1, <3>1
  <2>4. b # <<>>
    <3>1. p.len + 1 - n # 0
      BY <1>1
    <3> HIDE DEF b
    <3> QED BY <2>3, <3>1, RunLength
  <2>5. l = <<a, b>>
    BY <1>3
  <2> HIDE DEF a, b
  <2>6. l \in Seq(Seq(Up!Item)) /\ Len(l) = 2 /\ l[1] = a /\ l[2] = b /\ l # <<>>
    BY <2>2, <2>3, <2>5 DEF Run
  <2>7. Piece(l, 2) = b /\ Piece(l, 3) = <<>>
    BY <2>3, <2>6 DEF Piece
  <2>8. Joined(a, Piece(l, 2)) = Up!Contents(a[1].tag)
    <3>1. Joined(a, b) = c
      BY <1>1, <2>1, RunSplit DEF a, b
    <3> QED BY <1>0, <1>1, <2>2, <2>7, <3>1
  <2>9. \A i \in 1 .. Len(l) : i = 1 \/ i = 2
    BY <2>6
  <2>10. Whole(l)
    <3>1. ASSUME NEW i \in 1 .. Len(l)
          PROVE  /\ Run(l[i]) /\ l[i] # <<>>
                 /\ IF Opens(l[i]) THEN Joined(l[i], Piece(l, i + 1)) = Up!Contents(l[i][1].tag)
                                   ELSE Piece(l, i + 1) = <<>>
      <4>1. CASE i = 1
        <5>1. i + 1 = 2
          BY <4>1
        <5> QED BY <2>2, <2>6, <2>8, <4>1, <5>1
      <4>2. CASE i = 2
        <5>1. i + 1 = 3
          BY <4>2
        <5> QED BY <2>3, <2>4, <2>6, <2>7, <4>2, <5>1
      <4> QED BY <2>9, <4>1, <4>2
    <3> QED BY <2>6, <3>1 DEF Whole
  <2> QED BY <2>2, <2>6, <2>10
<1> QED BY <1>2, <1>3 DEF Up!Layouts, c

LEMMA PieceIsRun ==
  ASSUME NEW c, Whole(c), NEW i
  PROVE  Run(Piece(c, i)) /\ ~Opens(Piece(c, i)) /\ Rest(c, i) \in Nat
<1>1. Run(Piece(c, i)) /\ ~Opens(Piece(c, i))
  <2>1. CASE i \in 1 .. Len(c) /\ ~Opens(c[i])
    BY <2>1 DEF Piece, Whole
  <2>2. CASE ~(i \in 1 .. Len(c) /\ ~Opens(c[i]))
    BY <2>2, RunEmpty DEF Piece
  <2> QED BY <2>1, <2>2
<1> QED BY <1>1, RunLength DEF Rest

(* Whole chains one behind the other.                                         *)
LEMMA WholeConcat ==
  ASSUME NEW c, Whole(c), NEW l, Whole(l), l # <<>>, Opens(l[1])
  PROVE  /\ Whole(c \o l) /\ c \o l # <<>>
         /\ (c \o l)[1] = IF c = <<>> THEN l[1] ELSE c[1]
<1> DEFINE d == c \o l
<1> DEFINE W(x, i) == /\ Run(x[i]) /\ x[i] # <<>>
                      /\ IF Opens(x[i]) THEN Joined(x[i], Piece(x, i + 1)) = Up!Contents(x[i][1].tag)
                                        ELSE Piece(x, i + 1) = <<>>
<1>1. /\ c \in Seq(Seq(Up!Item)) /\ l \in Seq(Seq(Up!Item))
      /\ Len(c) \in Nat /\ Len(l) \in Nat /\ Len(l) # 0 /\ (c = <<>> <=> Len(c) = 0)
  BY LenProperties, EmptySeq DEF Whole
<1>2. /\ d \in Seq(Seq(Up!Item)) /\ Len(d) = Len(c) + Len(l)
      /\ \A i \in 1 .. Len(c) + Len(l) : d[i] = IF i <= Len(c) THEN c[i] ELSE l[i - Len(c)]
  BY <1>1, ConcatProperties
<1> HIDE DEF d
<1>3. d # <<>>
  BY <1>1, <1>2, EmptySeq
<1>4. d[1] = IF c = <<>> THEN l[1] ELSE c[1]
  <2>1. 1 \in 1 .. Len(c) + Len(l) /\ (c = <<>> => ~(1 <= Len(c)) /\ 1 - Len(c) = 1) /\ (c # <<>> => 1 <= Len(c))
    BY <1>1
  <2> QED BY <1>2, <2>1
<1>5. ASSUME NEW i \in 1 .. Len(c)
      PROVE  d[i] = c[i] /\ Piece(d, i + 1) = Piece(c, i + 1)
  <2>1. i \in 1 .. Len(c) + Len(l) /\ i <= Len(c)
    BY <1>1
  <2>2. d[i] = c[i]
    BY <1>2, <2>1
  <2>3. CASE i = Len(c)
    <3>1. i + 1 \in 1 .. Len(c) + Len(l) /\ ~(i + 1 <= Len(c)) /\ i + 1 - Len(c) = 1 /\ i + 1 \notin 1 .. Len(c)
      BY <1>1, <2>3
    <3>2. d[i + 1] = l[1]
      BY <1>2, <3>1
    <3> QED BY <2>2, <3>1, <3>2 DEF Piece
  <2>4. CASE i # Len(c)
    <3>1. i + 1 \in 1 .. Len(c) + Len(l) /\ i + 1 <= Len(c) /\ i + 1 \in 1 .. Len(c) /\ i + 1 \in 1 .. Len(d)
      BY <1>1, <1>2, <2>4, SMTT(30)
    <3>2. d[i + 1] = c[i + 1]
      BY <1>2, <3>1
    <3> QED BY <2>2, <3>1, <3>2 DEF Piece
  <2> QED BY <2>3, <2>4
<1>6. ASSUME NEW i \in 1 .. Len(l)
      PROVE  d[Len(c) + i] = l[i] /\ Piece(d, Len(c) + i + 1) = Piece(l, i + 1)
  <2>1. Len(c) + i \in 1 .. Len(c) + Len(l) /\ ~(Len(c) + i <= Len(c)) /\ Len(c) + i - Len(c) = i
    BY <1>1
  <2>2. d[Len(c) + i] = l[i]
    BY <1>2, <2>1
  <2>3. CASE i = Len(l)
    <3>1. Len(c) + i + 1 \notin 1 .. Len(d) /\ i + 1 \notin 1 .. Len(l)
      BY <1>1, <1>2, <2>3
    <3> QED BY <2>2, <3>1 DEF Piece
  <2>4. CASE i # Len(l)
    <3>1. /\ Len(c) + i + 1 \in 1 .. Len(c) + Len(l) /\ ~(Len(c) + i + 1 <= Len(c))
          /\ Len(c) + i + 1 - Len(c) = i + 1 /\ i + 1 \in 1 .. Len(l) /\ Len(c) + i + 1 \in 1 .. Len(d)
      BY <1>1, <1>2, <2>4, SMTT(30)
    <3>2. d[Len(c) + i + 1] = l[i + 1]
      BY <1>2, <3>1, SMTT(30)
    <3> QED BY <2>2, <3>1, <3>2 DEF Piece
  <2> QED BY <2>3, <2>4
<1>7. ASSUME NEW i \in 1 .. Len(d)
      PROVE  W(d, i)
  <2>1. CASE i \in 1 .. Len(c)
    <3>1. W(c, i)
      BY <2>1 DEF Whole
    <3> QED BY <2>1, <3>1, <1>5
  <2>2. CASE i \notin 1 .. Len(c)
    <3>1. PICK k \in 1 .. Len(l) : i = Len(c) + k
      <4>1. i - Len(c) \in 1 .. Len(l) /\ i = Len(c) + (i - Len(c))
        BY <1>1, <1>2, <2>2
      <4> QED BY <4>1
    <3>2. W(l, k)
      BY DEF Whole
    <3> QED BY <3>1, <3>2, <1>6
  <2> QED BY <2>1, <2>2
<1>8. Whole(d)
  BY <1>2, <1>7 DEF Whole
<1> QED BY <1>3, <1>4, <1>8 DEF d

(* The chains of packets before, with the tags of another.                    *)
Extend(cs, p) == {c \o l : c \in cs, l \in Up!Layouts(p)}

LEMMA ExtendIs ==
  ASSUME NEW cs, NEW p, NEW e \in Extend(cs, p)
  PROVE  \E d \in cs, l \in Up!Layouts(p) : e = d \o l
<1> DEFINE L == Up!Layouts(p)
           Cat(d, l) == d \o l
<1>1. e \in {Cat(d, l) : d \in cs, l \in L}
  BY DEF Extend
<1> HIDE DEF L, Cat
<1>2. \E d \in cs, l \in L : e = Cat(d, l)
  BY <1>1
<1> QED BY <1>2 DEF L, Cat

(* The chains of the first packets, as Chains makes them one after another.   *)
LEMMA ChainsExist ==
  ASSUME NEW n \in Nat, NEW ps
  PROVE  \E f : f = [i \in 0 .. n |-> IF i = 0 THEN {<<>>} ELSE Extend(f[i - 1], ps[i])]
<1> DEFINE Is(f, m) == f = [i \in 0 .. m |-> IF i = 0 THEN {<<>>} ELSE Extend(f[i - 1], ps[i])]
           bad == {m \in 0 .. n : ~ \E f : Is(f, m)}
<1>1. ASSUME bad # {} PROVE FALSE
  <2>1. bad \in SUBSET Nat
    OBVIOUS
  <2>2. PICK m \in bad : \A k \in bad : m <= k
    BY <1>1, <2>1, LeastNatural
  <2>3. m \in 0 .. n /\ m \in Nat /\ ~ \E f : Is(f, m)
    BY <2>2
  <2>4. CASE m = 0
    <3>1. Is([i \in 0 .. 0 |-> {<<>>}], 0)
      OBVIOUS
    <3> QED BY <2>3, <2>4, <3>1
  <2>5. CASE m # 0
    <3>1. m - 1 \in 0 .. n /\ m - 1 \notin bad
      <4>1. m - 1 \in 0 .. n /\ ~(m <= m - 1)
        BY <2>3, <2>5
      <4> QED BY <2>2, <4>1
    <3>2. PICK f : Is(f, m - 1)
      BY <3>1
    <3> DEFINE g == [i \in 0 .. m |-> IF i = m THEN Extend(f[m - 1], ps[m]) ELSE f[i]]
    <3>3. ASSUME NEW i \in 0 .. m
          PROVE  g[i] = IF i = 0 THEN {<<>>} ELSE Extend(g[i - 1], ps[i])
      <4>1. CASE i = m
        <5>1. m - 1 \in 0 .. m /\ m - 1 # m
          BY <2>3, <2>5
        <5> QED BY <2>5, <4>1, <5>1
      <4>2. CASE i # m
        <5>1. i \in 0 .. m - 1 /\ (i # 0 => i - 1 \in 0 .. m /\ i - 1 # m)
          BY <2>3, <4>2
        <5> QED BY <3>2, <4>2, <5>1
      <4> QED BY <4>1, <4>2
    <3>4. Is(g, m)
      BY <3>3
    <3> QED BY <2>3, <3>4
  <2> QED BY <2>4, <2>5
<1>2. n \in 0 .. n
  OBVIOUS
<1>3. \E f : Is(f, n)
  BY <1>1, <1>2
<1> QED BY <1>3

(* Every chain that the EE is given is whole and begins with a packet.        *)
LEMMA ChainsWhole ==
  ASSUME NEW n \in Nat \ {0}, NEW ps \in [1 .. n -> Up!Packet], NEW c \in Up!Chains(ps)
  PROVE  Whole(c) /\ c # <<>> /\ Opens(c[1])
<1> DEFINE Is(f) == f = [i \in 0 .. n |-> IF i = 0 THEN {<<>>} ELSE Extend(f[i - 1], ps[i])]
           C == CHOOSE f : Is(f)
<1>1. Len(ps) = n
  <2>1. ps \in Seq(Up!Packet)
    BY SeqDef
  <2> QED BY <2>1, LenProperties
<1>2. c \in C[n]
  BY <1>1 DEF Up!Chains, Extend
<1>3. Is(C)
  <2>1. \E f : Is(f)
    BY ChainsExist
  <2> HIDE DEF Is
  <2> QED BY <2>1
<1> HIDE DEF C
<1> DEFINE Good(i) == \A d \in C[i] : /\ Whole(d)
                                      /\ IF i = 0 THEN d = <<>> ELSE d # <<>> /\ Opens(d[1])
           bad == {i \in 0 .. n : ~Good(i)}
<1>4. C[0] = {<<>>} /\ \A i \in 1 .. n : C[i] = Extend(C[i - 1], ps[i])
  <2>1. 0 \in 0 .. n /\ \A i \in 1 .. n : i \in 0 .. n /\ i # 0
    OBVIOUS
  <2> QED BY <1>3, <2>1
<1>5. ASSUME bad # {} PROVE FALSE
  <2>1. bad \in SUBSET Nat
    OBVIOUS
  <2>2. PICK m \in bad : \A k \in bad : m <= k
    BY <1>5, <2>1, LeastNatural
  <2>3. m \in 0 .. n /\ ~Good(m)
    BY <2>2
  <2>4. CASE m = 0
    <3>1. Whole(<<>>)
      <4>1. <<>> \in Seq(Seq(Up!Item)) /\ Len(<<>>) = 0
        BY EmptySeq
      <4>2. 1 .. 0 = {}
        OBVIOUS
      <4> QED BY <4>1, <4>2 DEF Whole
    <3> QED BY <1>4, <2>3, <2>4, <3>1
  <2>5. CASE m # 0
    <3>1. m \in 1 .. n /\ Good(m - 1)
      <4>1. m \in 1 .. n /\ m - 1 \in 0 .. n /\ ~(m <= m - 1)
        BY <2>3, <2>5
      <4> QED BY <2>2, <4>1
    <3>2. ASSUME NEW e \in C[m]
          PROVE  Whole(e) /\ e # <<>> /\ Opens(e[1])
      <4>1. PICK d \in C[m - 1], l \in Up!Layouts(ps[m]) : e = d \o l
        <5>1. m \in 1 .. n
          BY <3>1
        <5>2. e \in Extend(C[m - 1], ps[m])
          BY <1>4, <5>1
        <5> QED BY <5>2, ExtendIs, SMTT(30)
      <4>2. Whole(l) /\ l # <<>> /\ Opens(l[1])
        BY <3>1, LayoutsWhole
      <4>3. Whole(d) /\ (d = <<>> \/ Opens(d[1]))
        BY <3>1
      <4>4. /\ Whole(d \o l) /\ d \o l # <<>>
            /\ (d \o l)[1] = IF d = <<>> THEN l[1] ELSE d[1]
        BY <4>2, <4>3, WholeConcat
      <4> QED BY <4>1, <4>2, <4>3, <4>4
    <3> QED BY <2>3, <2>5, <3>2
  <2> QED BY <2>4, <2>5
<1>6. n \in 0 .. n /\ n # 0
  OBVIOUS
<1> QED BY <1>2, <1>5, <1>6

(* The chain behind its first tag.                                            *)
LEMMA WholeTail ==
  ASSUME NEW c, Whole(c), c # <<>>
  PROVE  /\ Run(Head(c)) /\ Head(c) # <<>> /\ Head(c) = c[1]
         /\ Whole(Tail(c)) /\ Len(c) \in Nat /\ Len(Tail(c)) = Len(c) - 1
         /\ Tail(c) = <<>> <=> Len(c) = 1
         /\ Piece(Tail(c), 1) = Piece(c, 2)
         /\ IF Opens(c[1]) THEN /\ Piece(c, 1) = <<>>
                                /\ Joined(c[1], Piece(c, 2)) = Up!Contents(c[1][1].tag)
                                /\ Len(c[1]) + Rest(c, 2) = c[1][1].tag.len + 1
                           ELSE Piece(c, 1) = c[1] /\ Piece(c, 2) = <<>>
<1> DEFINE t == Tail(c)
<1> DEFINE W(x, i) == /\ Run(x[i]) /\ x[i] # <<>>
                      /\ IF Opens(x[i]) THEN Joined(x[i], Piece(x, i + 1)) = Up!Contents(x[i][1].tag)
                                        ELSE Piece(x, i + 1) = <<>>
<1>1. c \in Seq(Seq(Up!Item)) /\ Len(c) \in Nat /\ Len(c) # 0 /\ Head(c) = c[1]
  BY LenProperties, EmptySeq DEF Whole
<1>2. /\ t \in Seq(Seq(Up!Item)) /\ Len(t) = Len(c) - 1
      /\ \A i \in 1 .. Len(t) : t[i] = c[i + 1]
  BY <1>1, HeadTailProperties
<1> HIDE DEF t
<1>3. ASSUME NEW i \in 0 .. Len(t)
      PROVE  Piece(t, i + 1) = Piece(c, i + 1 + 1)
  <2>1. CASE i = Len(t)
    <3>1. i + 1 \notin 1 .. Len(t) /\ i + 1 + 1 \notin 1 .. Len(c)
      BY <1>1, <1>2, <2>1
    <3> QED BY <3>1 DEF Piece
  <2>2. CASE i # Len(t)
    <3>1. i + 1 \in 1 .. Len(t) /\ i + 1 + 1 \in 1 .. Len(c)
      <4>1. Len(t) \in Nat /\ Len(c) = Len(t) + 1
        BY <1>1, <1>2
      <4> QED BY <2>2, <4>1
    <3>2. t[i + 1] = c[i + 1 + 1]
      BY <1>2, <3>1
    <3> QED BY <3>1, <3>2 DEF Piece
  <2> QED BY <2>1, <2>2
<1>4. ASSUME NEW i \in 1 .. Len(t)
      PROVE  W(t, i)
  <2>1. i + 1 \in 1 .. Len(c) /\ i \in 0 .. Len(t)
    BY <1>1, <1>2
  <2>2. W(c, i + 1)
    BY <2>1 DEF Whole
  <2>3. Piece(t, i + 1) = Piece(c, i + 1 + 1) /\ t[i] = c[i + 1]
    BY <1>2, <1>3, <2>1
  <2> QED BY <2>2, <2>3
<1>5. Whole(t)
  BY <1>2, <1>4 DEF Whole
<1>6. 1 \in 1 .. Len(c) /\ 0 \in 0 .. Len(t) /\ 0 + 1 = 1 /\ 1 + 1 = 2
  BY <1>1, <1>2
<1>7. Piece(t, 1) = Piece(c, 2)
  BY <1>3, <1>6
<1>8. W(c, 1)
  BY <1>6 DEF Whole
<1>9. IF Opens(c[1]) THEN /\ Piece(c, 1) = <<>>
                          /\ Joined(c[1], Piece(c, 2)) = Up!Contents(c[1][1].tag)
                     ELSE Piece(c, 1) = c[1] /\ Piece(c, 2) = <<>>
  BY <1>6, <1>8 DEF Piece
<1>11. ASSUME Opens(c[1])
       PROVE  Len(c[1]) + Rest(c, 2) = c[1][1].tag.len + 1
  <2> DEFINE a == c[1]
             b == Piece(c, 2)
  <2>1. Run(a) /\ Run(b) /\ ~Opens(b) /\ a # <<>>
    BY <1>8, PieceIsRun
  <2>2. 1 \in 1 .. Len(a)
    BY <2>1, RunLength
  <2> HIDE DEF a, b
  <2>3. Len(Joined(a, b)) = Len(a) + Len(b)
    BY <2>1, RunConcat DEF Joined
  <2>4. Len(Up!Contents(a[1].tag)) = a[1].tag.len + 1
    BY <2>1, <2>2, RunItem, ContentsRun
  <2> QED BY <1>9, <1>11, <2>3, <2>4 DEF Rest, a, b
<1>10. t = <<>> <=> Len(c) = 1
  <2>1. t = <<>> <=> Len(t) = 0
    BY <1>2, EmptySeq
  <2> QED BY <1>1, <1>2, <2>1
<1> QED BY <1>1, <1>2, <1>5, <1>7, <1>8, <1>9, <1>10, <1>11 DEF t

-----------------------------------------------------------------------------
(* The initial state, and the steps that start and interrupt the channels.    *)

LEMMA UpInitInv == Up!Init => UpInv
<1> SUFFICES ASSUME Up!Init PROVE UpInv
  OBVIOUS
<1>1. Whole(<<>>) /\ Rest(<<>>, 1) = 0
  <2>1. <<>> \in Seq(Seq(Up!Item)) /\ Len(<<>>) = 0
    BY EmptySeq
  <2>2. 1 .. 0 = {}
    OBVIOUS
  <2> QED BY <2>1, <2>2 DEF Whole, Rest, Piece
<1>2. UpChannels /\ UpLoop
  BY DEF Up!Init, UpChannels, UpLoop
<1>3. Owed
  <2>1. /\ fifo = <<>> /\ source = <<>> /\ chain = <<>> /\ counter = 0 /\ tagMode = FALSE
    BY DEF Up!Init
  <2>2. FifoSize \in Nat /\ 0 \in Nat /\ 0 <= FifoSize /\ 0 + 0 + 0 = 0
    BY UpConstants
  <2> QED BY <1>1, <2>1, <2>2, RunEmpty DEF Owed
<1> QED BY <1>2, <1>3 DEF UpInv

(* The EE is not in the loop when it builds a chain, and has sent all of the  *)
(* one before.                                                                *)
LEMMA UpDmaInv == UpInv /\ Up!dmaSIF1 => UpInv'
<1> SUFFICES ASSUME UpInv, Up!dmaSIF1 PROVE UpInv'
  OBVIOUS
<1>1. /\ pc = "idle" /\ ~eeSTR /\ eeSTR' = TRUE /\ eesifbusy' = TRUE
      /\ Up!Kick(iopsifbusy)
      /\ UNCHANGED <<fifo, source, end, eeEvt, iopTR, iopsifbusy, counter, tagMode, iopEvt>>
  BY DEF Up!dmaSIF1, Up!iopVars
<1>2. Whole(chain') /\ chain' # <<>> /\ Opens(chain'[1])
  <2>1. PICK n \in 1 .. MaxChain : \E ps \in [1 .. n -> Up!Packet] : chain' \in Up!Chains(ps)
    BY DEF Up!dmaSIF1
  <2>2. PICK ps \in [1 .. n -> Up!Packet] : chain' \in Up!Chains(ps)
    BY <2>1
  <2>3. n \in Nat \ {0}
    BY UpConstants
  <2> QED BY <2>2, <2>3, ChainsWhole
<1>3. ~eesifbusy /\ source = <<>> /\ ~end /\ ~eeEvt /\ counter = 0 /\ fifo = <<>> /\ ~tagMode
  BY <1>1 DEF UpInv, UpChannels, UpLoop
<1>4. UpChannels'
  BY <1>1, <1>2, <1>3 DEF UpInv, UpChannels
<1>5. UpLoop'
  BY <1>1, <1>3 DEF UpInv, UpLoop, Up!Kick
<1>6. Owed'
  <2>1. fifo' = <<>> /\ source' = <<>> /\ counter' = 0 /\ ~tagMode'
    BY <1>1, <1>3
  <2>2. Rest(chain', 1) = 0
    BY <1>2, EmptySeq DEF Rest, Piece
  <2>3. FifoSize \in Nat /\ 0 \in Nat /\ 0 <= FifoSize /\ 0 + 0 + 0 = 0
    BY UpConstants
  <2>4. tagMode' \in BOOLEAN
    BY <1>1 DEF UpInv, Owed
  <2> QED BY <1>2, <2>1, <2>2, <2>3, <2>4, RunEmpty DEF Owed
<1> QED BY <1>4, <1>5, <1>6 DEF UpInv

(* The data stays where it is.                                                *)
LEMMA OwedKept ==
  ASSUME Owed, UNCHANGED <<fifo, source, chain, counter, tagMode>>,
         pc' # "iop" => pc' = pc \/ (fifo = <<>> /\ ~tagMode),
         Opens(fifo) => pc' = "iop" /\ eesifbusy'
  PROVE  Owed'
BY DEF Owed

LEMMA UpStartInv == UpInv /\ Up!psxDma10 => UpInv'
<1> SUFFICES ASSUME UpInv, Up!psxDma10 PROVE UpInv'
  OBVIOUS
<1>1. /\ pc = "idle" /\ ~iopTR /\ iopTR' = TRUE /\ iopsifbusy' = TRUE /\ Up!Kick(eesifbusy)
      /\ UNCHANGED <<fifo, eeSTR, eesifbusy, chain, source, end, eeEvt, counter, tagMode, iopEvt>>
  BY DEF Up!psxDma10, Up!eeVars
<1>2. counter = 0 /\ fifo = <<>> /\ ~tagMode /\ ~iopEvt
  BY <1>1 DEF UpInv, UpChannels, UpLoop
<1>3. UpChannels'
  BY <1>1, <1>2 DEF UpInv, UpChannels
<1>4. UpLoop'
  BY <1>1, <1>2 DEF UpInv, UpLoop, Up!Kick
<1>5. ~Opens(fifo)
  BY <1>2 DEF Opens
<1>6. Owed'
  BY <1>1, <1>2, <1>5, OwedKept DEF UpInv
<1> QED BY <1>3, <1>4, <1>6 DEF UpInv

LEMMA UpInterruptsInv == UpInv /\ (Up!sif1Interrupt \/ Up!EEsif1Interrupt) => UpInv'
<1> SUFFICES ASSUME UpInv, Up!sif1Interrupt \/ Up!EEsif1Interrupt PROVE UpInv'
  OBVIOUS
<1>1. /\ pc = "idle"
      /\ UNCHANGED <<pc, notDone, fifo, eesifbusy, chain, source, end, iopsifbusy, counter, tagMode>>
  BY DEF Up!sif1Interrupt, Up!EEsif1Interrupt, Up!eeVars, Up!iopVars
<1>2. UpChannels'
  <2>1. CASE Up!sif1Interrupt
    BY <2>1 DEF UpInv, UpChannels, Up!sif1Interrupt, Up!eeVars
  <2>2. CASE Up!EEsif1Interrupt
    BY <2>2 DEF UpInv, UpChannels, Up!EEsif1Interrupt, Up!iopVars
  <2> QED BY <2>1, <2>2
<1>3. UpLoop'
  BY <1>1 DEF UpInv, UpLoop
<1>4. ~Opens(fifo)
  BY <1>1 DEF UpInv, UpLoop, Opens
<1>5. Owed'
  BY <1>1, <1>4, OwedKept DEF UpInv
<1> QED BY <1>2, <1>3, <1>5 DEF UpInv

LEMMA UpStutterInv == UpInv /\ UNCHANGED Up!vars => UpInv'
<1> SUFFICES ASSUME UpInv, UNCHANGED Up!vars PROVE UpInv'
  OBVIOUS
<1>1. UNCHANGED <<pc, notDone, fifo, eeSTR, eesifbusy, chain, source, end, eeEvt,
                  iopTR, iopsifbusy, counter, tagMode, iopEvt>>
  BY DEF Up!vars, Up!eeVars, Up!iopVars
<1>2. UpChannels' /\ UpLoop'
  BY <1>1 DEF UpInv, UpChannels, UpLoop
<1>3. Owed'
  BY <1>1, OwedKept DEF UpInv, Owed
<1> QED BY <1>2, <1>3 DEF UpInv

-----------------------------------------------------------------------------
(* The EE side of the loop.                                                   *)

LEMMA UpEeStopInv ==
  ASSUME UpInv, pc = "ee", eesifbusy, Up!EeStop, pc' = "iop", UNCHANGED <<eeSTR, Up!iopVars>>
  PROVE  UpInv'
<1>1. /\ source = <<>> /\ end /\ eesifbusy' = FALSE /\ eeEvt' = TRUE /\ end' = FALSE
      /\ notDone' = FALSE
      /\ UNCHANGED <<fifo, chain, source, eeSTR, iopTR, iopsifbusy, counter, tagMode, iopEvt>>
  BY DEF Up!EeStop, Up!iopVars
<1>2. chain = <<>> /\ eeSTR /\ iopsifbusy /\ ~Opens(fifo)
  BY <1>1 DEF UpInv, UpChannels, UpLoop, Owed
<1>3. UpChannels'
  BY <1>1, <1>2 DEF UpInv, UpChannels
<1>4. UpLoop'
  BY <1>1, <1>2 DEF UpLoop
<1>5. Owed'
  BY <1>1, <1>2, OwedKept DEF UpInv
<1> QED BY <1>3, <1>4, <1>5 DEF UpInv

LEMMA UpEeTagInv ==
  ASSUME UpInv, pc = "ee", eesifbusy, Up!EeTag, pc' = "iop", UNCHANGED <<eeSTR, Up!iopVars>>
  PROVE  UpInv'
<1>1. /\ source = <<>> /\ ~end /\ source' = Head(chain) /\ chain' = Tail(chain)
      /\ end' = (Len(chain) = 1) /\ notDone' = TRUE
      /\ UNCHANGED <<fifo, eesifbusy, eeEvt, eeSTR, iopTR, iopsifbusy, counter, tagMode, iopEvt>>
  BY DEF Up!EeTag, Up!iopVars
<1>2. chain # <<>> /\ eeSTR /\ ~eeEvt /\ iopsifbusy /\ ~Opens(fifo) /\ Whole(chain) /\ ~Opens(source)
  BY <1>1 DEF UpInv, UpChannels, UpLoop, Owed, Opens
<1> DEFINE l == Head(chain)
           t == Tail(chain)
<1>3. /\ Run(l) /\ l # <<>>
      /\ Whole(t) /\ (t = <<>> <=> Len(chain) = 1)
      /\ IF Opens(l) THEN Rest(chain, 1) = 0 /\ Len(l) + Rest(t, 1) = l[1].tag.len + 1
                     ELSE Rest(chain, 1) = Len(l) /\ Rest(t, 1) = 0
  <2>1. /\ Run(l) /\ l # <<>> /\ l = chain[1] /\ Piece(t, 1) = Piece(chain, 2)
        /\ Whole(t) /\ (t = <<>> <=> Len(chain) = 1)
        /\ IF Opens(chain[1]) THEN /\ Piece(chain, 1) = <<>>
                                  /\ Len(chain[1]) + Rest(chain, 2) = chain[1][1].tag.len + 1
                             ELSE Piece(chain, 1) = chain[1] /\ Piece(chain, 2) = <<>>
    BY <1>2, WholeTail
  <2> HIDE DEF l, t
  <2> QED BY <2>1, RunEmpty DEF Rest
<1> HIDE DEF l, t
<1>4. source' = l /\ chain' = t
  BY <1>1 DEF l, t
<1>5. UpChannels'
  <2>1. eesifbusy' /\ eeSTR' /\ ~eeEvt' /\ (end' <=> chain' = <<>>)
    <3>1. end' <=> chain' = <<>>
      BY <1>1, <1>3, <1>4, Zenon
    <3> QED BY <1>1, <1>2, <3>1
  <2>2. UNCHANGED <<iopsifbusy, iopTR, iopEvt>>
    BY <1>1
  <2> QED BY <2>1, <2>2 DEF UpInv, UpChannels
<1>6. UpLoop'
  BY <1>1, <1>2 DEF UpInv, UpLoop
<1>7. Owed'
  <2>1. /\ counter \in Nat /\ tagMode \in BOOLEAN /\ Run(fifo) /\ Len(fifo) <= FifoSize
        /\ counter = Len(fifo) + Len(source) + Rest(chain, 1)
    BY <1>2 DEF UpInv, Owed
  <2>2. Len(source) = 0 /\ Len(fifo) \in Nat /\ Len(l) \in Nat
    BY <1>1, <1>3, <2>1, RunLength, RunEmpty
  <2>3. Opens(l) => counter = Len(fifo)
    BY <1>3, <2>1, <2>2
  <2>4. ~Opens(l) => counter = Len(fifo) + Len(l) + Rest(t, 1)
    BY <1>3, <2>1, <2>2
  <2> QED BY <1>1, <1>2, <1>3, <1>4, <2>1, <2>3, <2>4 DEF Owed
<1> QED BY <1>5, <1>6, <1>7 DEF UpInv

LEMMA UpEeDataInv ==
  ASSUME UpInv, pc = "ee", eesifbusy, Up!EeData, pc' = "iop", UNCHANGED <<eeSTR, Up!iopVars>>
  PROVE  UpInv'
<1> DEFINE n == Up!Least(Len(source), FifoSize - Len(fifo))
<1>1. /\ source # <<>> /\ fifo' = fifo \o Up!Take(source, n) /\ source' = Up!Drop(source, n)
      /\ UNCHANGED <<eesifbusy, chain, end, eeEvt, notDone, eeSTR, iopTR, iopsifbusy, counter,
                     tagMode, iopEvt>>
  BY DEF Up!EeData, Up!iopVars
<1>2. /\ iopsifbusy /\ notDone /\ ~Opens(fifo)
      /\ Run(fifo) /\ Len(fifo) <= FifoSize /\ Run(source) /\ Whole(chain)
      /\ counter \in Nat /\ tagMode \in BOOLEAN
  BY DEF UpInv, UpLoop, Owed
<1>3. Len(source) \in Nat /\ Len(source) # 0 /\ Len(fifo) \in Nat /\ FifoSize \in Nat /\ FifoSize # 0
  BY <1>1, <1>2, RunLength, UpConstants
<1>4. n \in 0 .. Len(source) /\ n \in Nat /\ Len(fifo) + n <= FifoSize
  BY <1>2, <1>3 DEF Up!Least
<1>5. Len(fifo) = 0 => n # 0
  BY <1>3 DEF Up!Least
<1> HIDE DEF n
<1>6. UpChannels'
  <2>1. eesifbusy' /\ iopsifbusy'
    BY <1>1, <1>2
  <2> QED BY <1>1, <2>1 DEF UpInv, UpChannels
<1>7. UpLoop'
  BY <1>1, <1>2 DEF UpLoop
<1>8. Rest(chain, 1) \in Nat
  BY <1>2, PieceIsRun
<1>9. Owed'
  <2>1. CASE n = 0
    <3>1. fifo' = fifo /\ source' = source /\ fifo # <<>>
      <4>1. Up!Take(source, 0) = <<>> /\ Up!Drop(source, 0) = source /\ fifo \o <<>> = fifo
        BY <1>2, RunWhole, ConcatEmptySeq DEF Run
      <4> QED BY <1>1, <1>2, <1>5, <2>1, <4>1, RunLength
    <3> QED BY <1>1, <1>2, <3>1, OwedKept DEF UpInv
  <2>2. CASE n # 0 /\ ~Opens(source)
    <3> DEFINE a == Up!Take(source, n)
    <3>1. n \in 1 .. Len(source)
      BY <1>4, <2>2
    <3>2. Run(a) /\ Len(a) = n /\ ~Opens(a)
      BY <1>2, <2>2, <3>1, RunTake
    <3> HIDE DEF a
    <3>3. Run(source') /\ Len(source') = Len(source) - n /\ ~Opens(source')
      BY <1>1, <1>2, <3>1, RunDrop
    <3>4. Run(fifo') /\ Len(fifo') = Len(fifo) + n /\ ~Opens(fifo')
      <4>1. fifo' = fifo \o a
        BY <1>1 DEF a
      <4>2. /\ Run(fifo \o a) /\ Len(fifo \o a) = Len(fifo) + Len(a)
            /\ fifo = <<>> => fifo \o a = a
            /\ fifo # <<>> => (Opens(fifo \o a) <=> Opens(fifo))
        BY <1>2, <3>2, RunConcat
      <4> QED BY <1>2, <3>2, <4>1, <4>2
    <3>5. counter = Len(fifo) + Len(source) + Rest(chain, 1)
      BY <1>2, <2>2 DEF UpInv, Owed
    <3>6. Len(fifo') <= FifoSize /\ counter = Len(fifo') + Len(source') + Rest(chain, 1)
      BY <1>3, <1>4, <1>8, <3>3, <3>4, <3>5
    <3> QED BY <1>1, <1>2, <3>3, <3>4, <3>6 DEF Owed
  <2>3. CASE Opens(source)
    <3> DEFINE a == Up!Take(source, n)
    <3>1. /\ fifo = <<>> /\ counter = Len(fifo) /\ ~tagMode
          /\ Len(source) + Rest(chain, 1) = source[1].tag.len + 1
      BY <2>3 DEF UpInv, Owed
    <3>2. Len(fifo) = 0 /\ n \in 1 .. Len(source)
      BY <1>4, <1>5, <3>1, RunEmpty
    <3>3. Run(a) /\ Len(a) = n /\ Opens(a) /\ a[1] = source[1]
      BY <1>2, <2>3, <3>2, RunTake
    <3> HIDE DEF a
    <3>4. Run(source') /\ Len(source') = Len(source) - n /\ ~Opens(source')
      BY <1>1, <1>2, <3>2, RunDrop
    <3>5. fifo' = a
      <4>1. fifo' = fifo \o a
        BY <1>1 DEF a
      <4> QED BY <3>1, <3>3, <4>1, ConcatEmptySeq DEF Run
    <3>6. /\ Len(a) <= FifoSize /\ counter = 0
          /\ Len(a) + Len(source') + Rest(chain, 1) = a[1].tag.len + 1
      <4>1. Len(a) + Len(source') + Rest(chain, 1) = Len(source) + Rest(chain, 1)
        BY <1>3, <1>4, <1>8, <3>3, <3>4
      <4>2. a[1].tag.len + 1 = source[1].tag.len + 1
        BY <3>3
      <4>3. Len(a) <= FifoSize /\ counter = 0
        BY <1>4, <3>1, <3>2, <3>3
      <4> QED BY <3>1, <4>1, <4>2, <4>3
    <3> QED BY <1>1, <1>2, <3>1, <3>3, <3>4, <3>5, <3>6 DEF Owed
  <2> QED BY <2>1, <2>2, <2>3
<1> QED BY <1>6, <1>7, <1>9 DEF UpInv

-----------------------------------------------------------------------------
(* The IOP side of the loop: what it can store of the packet begun is what    *)
(* the FIFO holds, and the tag of the next is there or nothing is.            *)

LEMMA IopSideFacts ==
  ASSUME UpInv, pc = "iop", iopsifbusy
  PROVE  /\ counter \in Nat /\ Len(fifo) \in Nat /\ Rest(chain, 1) \in Nat /\ Len(source) \in Nat
         /\ Run(fifo) /\ Run(source) /\ Whole(chain) /\ tagMode \in BOOLEAN
         /\ IF Opens(fifo)
              THEN /\ counter = 0 /\ Up!Readable = 0 /\ Up!Left = 0 /\ ~tagMode /\ eesifbusy
                   /\ fifo # <<>> /\ ~Opens(source)
              ELSE /\ Len(fifo) <= counter /\ Up!Readable = Len(fifo)
                   /\ Up!Left = counter - Len(fifo)
                   /\ Up!Drop(fifo, Up!Readable) = <<>>
<1>1. /\ counter \in Nat /\ Len(fifo) \in Nat /\ Rest(chain, 1) \in Nat /\ Len(source) \in Nat
      /\ Run(fifo) /\ Run(source) /\ Whole(chain) /\ tagMode \in BOOLEAN
  BY RunLength, PieceIsRun DEF UpInv, Owed
<1>2. CASE Opens(fifo)
  <2>1. counter = 0 /\ ~tagMode /\ eesifbusy /\ fifo # <<>> /\ ~Opens(source)
    <3>1. counter = 0 /\ ~tagMode /\ eesifbusy /\ ~Opens(source)
      BY <1>2 DEF UpInv, Owed
    <3> QED BY <1>2, <3>1 DEF Opens
  <2>2. Up!Readable = 0 /\ Up!Left = 0
    <3>1. counter = 0 /\ Len(fifo) \in Nat
      BY <1>1, <2>1
    <3>2. Up!Readable = 0
      BY <3>1 DEF Up!Readable, Up!Least
    <3> QED BY <3>1, <3>2 DEF Up!Left
  <2> QED BY <1>1, <1>2, <2>1, <2>2
<1>3. CASE ~Opens(fifo)
  <2>1. counter = Len(fifo) \/ counter = Len(fifo) + Len(source) + Rest(chain, 1)
    BY <1>3 DEF UpInv, Owed
  <2>2. Len(fifo) <= counter
    BY <1>1, <2>1
  <2>3. Up!Readable = Len(fifo) /\ Up!Left = counter - Len(fifo)
    BY <1>1, <2>2 DEF Up!Readable, Up!Left, Up!Least
  <2>4. Up!Drop(fifo, Len(fifo)) = <<>>
    BY <1>1, SubSeqEmpty DEF Up!Drop
  <2> QED BY <1>1, <1>3, <2>2, <2>3, <2>4
<1> QED BY <1>2, <1>3

LEMMA UpIopStoreInv ==
  ASSUME UpInv, pc = "iop", iopsifbusy, Up!IopStore,
         pc' = IF notDone' THEN "ee" ELSE "idle", UNCHANGED <<Up!eeVars, iopTR>>
  PROVE  UpInv'
<1>1. /\ Up!Left > 0 /\ counter' = Up!Left /\ fifo' = Up!Drop(fifo, Up!Readable)
      /\ UNCHANGED <<iopsifbusy, iopEvt, tagMode, notDone, eeSTR, eesifbusy, chain, source, end,
                     eeEvt, iopTR>>
  BY DEF Up!IopStore, Up!eeVars
<1>2. /\ ~Opens(fifo) /\ Len(fifo) < counter /\ counter' = counter - Len(fifo)
      /\ fifo' = <<>>
  BY <1>1, IopSideFacts
<1>3. /\ counter \in Nat /\ Len(fifo) \in Nat /\ Rest(chain, 1) \in Nat /\ Len(source) \in Nat
      /\ Run(source) /\ Whole(chain) /\ tagMode \in BOOLEAN
  BY IopSideFacts
<1>4. ~Opens(source) /\ counter = Len(fifo) + Len(source) + Rest(chain, 1)
  BY <1>2, <1>3 DEF UpInv, Owed
<1>5. counter' = Len(source) + Rest(chain, 1) /\ counter' # 0 /\ counter' \in Nat
  BY <1>2, <1>3, <1>4
<1>6. eesifbusy
  <2>1. ASSUME ~eesifbusy PROVE FALSE
    <3>1. source = <<>> /\ chain = <<>>
      BY <2>1 DEF UpInv, UpChannels
    <3>2. Len(source) = 0 /\ Rest(chain, 1) = 0
      BY <3>1, RunEmpty DEF Rest, Piece
    <3> QED BY <1>5, <3>2
  <2> QED BY <2>1
<1>7. UpChannels'
  BY <1>1 DEF UpInv, UpChannels
<1>8. UpLoop'
  BY <1>1, <1>6 DEF UpInv, UpLoop
<1>9. Owed'
  <2>1. FifoSize \in Nat /\ 0 <= FifoSize /\ Len(fifo') = 0
    BY <1>2, UpConstants, RunEmpty
  <2>2. counter' = Len(fifo') + Len(source) + Rest(chain, 1)
    BY <1>3, <1>5, <2>1
  <2> QED BY <1>1, <1>2, <1>3, <1>4, <1>5, <2>1, <2>2, RunEmpty DEF Owed
<1> QED BY <1>7, <1>8, <1>9 DEF UpInv

(* The packet is stored, and nothing but the next one is behind it.           *)
LEMMA StoredAll ==
  ASSUME UpInv, pc = "iop", iopsifbusy, Up!Left = 0, ~Opens(fifo),
         UNCHANGED <<source, chain>>, counter' = 0, fifo' = <<>>, ~tagMode', tagMode' \in BOOLEAN
  PROVE  Owed'
<1>1. /\ counter \in Nat /\ Len(fifo) \in Nat /\ Rest(chain, 1) \in Nat /\ Len(source) \in Nat
      /\ Run(source) /\ Whole(chain) /\ counter = Len(fifo)
  BY IopSideFacts
<1>2. ~Opens(source) => Len(source) = 0 /\ Rest(chain, 1) = 0
  <2>1. ~Opens(source) => counter = Len(fifo) + Len(source) + Rest(chain, 1)
    BY DEF UpInv, Owed
  <2> QED BY <1>1, <2>1
<1>3. FifoSize \in Nat /\ 0 <= FifoSize /\ Len(fifo') = 0 /\ counter' \in Nat
  BY UpConstants, RunEmpty
<1>4. ~Opens(source) => counter' = Len(fifo') + Len(source) + Rest(chain, 1)
  BY <1>2, <1>3
<1>5. Opens(source) => Len(source) + Rest(chain, 1) = source[1].tag.len + 1
  BY DEF UpInv, Owed
<1> QED BY <1>1, <1>3, <1>4, <1>5, RunEmpty DEF Owed

LEMMA UpIopStopInv ==
  ASSUME UpInv, pc = "iop", iopsifbusy, Up!IopStop,
         pc' = IF notDone' THEN "ee" ELSE "idle", UNCHANGED <<Up!eeVars, iopTR>>
  PROVE  UpInv'
<1>1. /\ Up!Left = 0 /\ tagMode /\ fifo' = Up!Drop(fifo, Up!Readable) /\ counter' = 0
      /\ iopsifbusy' = FALSE /\ iopEvt' = TRUE /\ tagMode' = FALSE /\ notDone' = FALSE
      /\ UNCHANGED <<eeSTR, eesifbusy, chain, source, end, eeEvt, iopTR>>
  BY DEF Up!IopStop, Up!eeVars
<1>2. ~Opens(fifo) /\ fifo' = <<>>
  BY <1>1, IopSideFacts
<1>3. UpChannels'
  BY <1>1 DEF UpInv, UpChannels
<1>4. UpLoop'
  BY <1>1, <1>2 DEF UpLoop
<1>5. Owed'
  BY <1>1, <1>2, StoredAll
<1> QED BY <1>3, <1>4, <1>5 DEF UpInv

LEMMA UpIopWaitInv ==
  ASSUME UpInv, pc = "iop", iopsifbusy, Up!IopWait,
         pc' = IF notDone' THEN "ee" ELSE "idle", UNCHANGED <<Up!eeVars, iopTR>>
  PROVE  UpInv'
<1>1. /\ Up!Left = 0 /\ ~tagMode /\ Len(fifo) = Up!Readable
      /\ fifo' = Up!Drop(fifo, Up!Readable) /\ counter' = 0
      /\ UNCHANGED <<iopsifbusy, iopEvt, tagMode, notDone, eeSTR, eesifbusy, chain, source, end,
                     eeEvt, iopTR>>
  BY DEF Up!IopWait, Up!eeVars
<1>2. ~Opens(fifo) /\ fifo' = <<>>
  <2>1. ASSUME Opens(fifo) PROVE FALSE
    <3>1. Len(fifo) = 0 /\ fifo # <<>> /\ Run(fifo)
      BY <1>1, <2>1, IopSideFacts
    <3> QED BY <3>1, RunLength
  <2> QED BY <1>1, <2>1, IopSideFacts
<1>3. UpChannels'
  BY <1>1 DEF UpInv, UpChannels
<1>4. UpLoop'
  BY <1>1, <1>2 DEF UpInv, UpLoop
<1>5. tagMode \in BOOLEAN
  BY DEF UpInv, Owed
<1>6. Owed'
  BY <1>1, <1>2, <1>5, StoredAll
<1> QED BY <1>3, <1>4, <1>6 DEF UpInv

LEMMA UpIopTagInv ==
  ASSUME UpInv, pc = "iop", iopsifbusy, Up!IopTag,
         pc' = IF notDone' THEN "ee" ELSE "idle", UNCHANGED <<Up!eeVars, iopTR>>
  PROVE  UpInv'
<1>1. /\ Up!Left = 0 /\ ~tagMode /\ Len(fifo) > Up!Readable
      /\ counter' = fifo[Up!Readable + 1].tag.len
      /\ tagMode' = fifo[Up!Readable + 1].tag.irq
      /\ fifo' = Up!Drop(fifo, Up!Readable + 1) /\ notDone' = TRUE
      /\ UNCHANGED <<iopsifbusy, iopEvt, eeSTR, eesifbusy, chain, source, end, eeEvt, iopTR>>
  BY DEF Up!IopTag, Up!eeVars
<1>2. Opens(fifo)
  <2>1. ASSUME ~Opens(fifo) PROVE FALSE
    <3>1. Up!Readable = Len(fifo) /\ Len(fifo) \in Nat
      BY <2>1, IopSideFacts
    <3> QED BY <1>1, <3>1
  <2> QED BY <2>1
<1>3. /\ Up!Readable + 1 = 1 /\ eesifbusy /\ ~Opens(source) /\ Len(fifo) \in Nat /\ Len(fifo) # 0
      /\ Len(source) \in Nat /\ Rest(chain, 1) \in Nat
      /\ Run(fifo) /\ Run(source) /\ Whole(chain)
  <2>1. Run(fifo) /\ fifo # <<>>
    BY <1>2, IopSideFacts
  <2>2. Len(fifo) # 0
    BY <2>1, RunLength
  <2>3. Up!Readable + 1 = 1
    <3>1. Up!Readable = 0
      BY <1>2, IopSideFacts
    <3> QED BY <3>1
  <2> QED BY <1>2, <2>2, <2>3, IopSideFacts
<1>4. 1 \in 1 .. Len(fifo)
  BY <1>3
<1>5. fifo[1].tag \in Up!Packet /\ fifo[1].tag.len \in Nat
  BY <1>3, <1>4, RunItem
<1>6. /\ counter' = fifo[1].tag.len /\ tagMode' = fifo[1].tag.irq /\ fifo' = Up!Drop(fifo, 1)
  BY <1>1, <1>3
<1>7. Run(fifo') /\ Len(fifo') = Len(fifo) - 1 /\ ~Opens(fifo')
  BY <1>3, <1>4, <1>6, RunDrop
<1>8. Len(fifo) + Len(source) + Rest(chain, 1) = fifo[1].tag.len + 1
  BY <1>2 DEF UpInv, Owed
<1>9. counter' = Len(fifo') + Len(source) + Rest(chain, 1) /\ counter' \in Nat
  BY <1>3, <1>5, <1>6, <1>7, <1>8
<1>10. UpChannels'
  BY <1>1 DEF UpInv, UpChannels
<1>11. UpLoop'
  BY <1>1, <1>3 DEF UpLoop
<1>12. Owed'
  <2>1. Len(fifo') <= FifoSize
    <3>1. Len(fifo) <= FifoSize /\ FifoSize \in Nat
      BY UpConstants DEF UpInv, Owed
    <3> QED BY <1>3, <1>7, <3>1
  <2>2. tagMode' \in BOOLEAN
    BY <1>5, <1>6 DEF Up!Packet
  <2> QED BY <1>1, <1>3, <1>7, <1>9, <2>1, <2>2 DEF Owed
<1> QED BY <1>10, <1>11, <1>12 DEF UpInv

-----------------------------------------------------------------------------
(* The theorem. *)

LEMMA UpInvInStep == UpInv => Up!InStep
<1> SUFFICES ASSUME UpInv PROVE Up!InStep
  OBVIOUS
<1>1. pc = "idle" => fifo = <<>>
  BY DEF UpInv, UpLoop
<1>2. pc = "ee" => Len(fifo) <= counter /\ iopsifbusy /\ eesifbusy
  <2> SUFFICES ASSUME pc = "ee" PROVE Len(fifo) <= counter /\ iopsifbusy /\ eesifbusy
    OBVIOUS
  <2>1. /\ counter = Len(fifo) \/ counter = Len(fifo) + Len(source) + Rest(chain, 1)
        /\ iopsifbusy /\ eesifbusy
    BY DEF UpInv, UpLoop, Owed
  <2>2. Len(fifo) \in Nat /\ Len(source) \in Nat /\ Rest(chain, 1) \in Nat
    BY RunLength, PieceIsRun DEF UpInv, Owed
  <2>3. Len(fifo) <= counter
    BY <2>1, <2>2
  <2> QED BY <2>1, <2>3
<1>3. pc = "iop" => /\ iopsifbusy
                    /\ eesifbusy \/ Len(fifo) <= counter
                    /\ Len(fifo) > counter =>
                         fifo[counter + 1] = Up!TagItem(fifo[counter + 1].tag)
  <2> SUFFICES ASSUME pc = "iop"
               PROVE  /\ iopsifbusy
                      /\ eesifbusy \/ Len(fifo) <= counter
                      /\ Len(fifo) > counter =>
                           fifo[counter + 1] = Up!TagItem(fifo[counter + 1].tag)
    OBVIOUS
  <2>1. iopsifbusy
    BY DEF UpInv, UpLoop
  <2>2. CASE Opens(fifo)
    <3>1. counter = 0 /\ eesifbusy /\ Run(fifo) /\ fifo # <<>> /\ Len(fifo) \in Nat
      BY <2>1, <2>2, IopSideFacts
    <3>2. 1 \in 1 .. Len(fifo) /\ counter + 1 = 1
      BY <3>1, RunLength
    <3>3. fifo[1] = Up!TagItem(fifo[1].tag)
      BY <2>2, <3>1, <3>2, RunItem DEF Opens
    <3> QED BY <2>1, <3>1, <3>2, <3>3
  <2>3. CASE ~Opens(fifo)
    <3>1. Len(fifo) <= counter /\ Len(fifo) \in Nat /\ counter \in Nat
      BY <2>1, <2>3, IopSideFacts
    <3>2. ~(Len(fifo) > counter)
      BY <3>1
    <3> QED BY <2>1, <3>1, <3>2
  <2> QED BY <2>2, <2>3
<1> QED BY <1>1, <1>2, <1>3 DEF Up!InStep

(* The invariant, of every behaviour of SIF1.                                 *)
LEMMA UpInvariant == Up!Spec => []UpInv
<1>1. UpInv /\ [Up!Next]_(Up!vars) => UpInv'
  <2> SUFFICES ASSUME UpInv, [Up!Next]_(Up!vars) PROVE UpInv'
    OBVIOUS
  <2>1. CASE Up!dmaSIF1
    BY <2>1, UpDmaInv
  <2>2. CASE Up!psxDma10
    BY <2>2, UpStartInv
  <2>3. CASE Up!EeSide
    <3>1. /\ pc = "ee" /\ eesifbusy /\ pc' = "iop" /\ UNCHANGED <<eeSTR, Up!iopVars>>
          /\ Up!EeStop \/ Up!EeTag \/ Up!EeData
      BY <2>3 DEF Up!EeSide
    <3> QED BY <3>1, UpEeStopInv, UpEeTagInv, UpEeDataInv
  <2>4. CASE Up!IopSide
    <3>1. /\ pc = "iop" /\ iopsifbusy /\ pc' = IF notDone' THEN "ee" ELSE "idle"
          /\ UNCHANGED <<Up!eeVars, iopTR>>
          /\ Up!IopStore \/ Up!IopStop \/ Up!IopTag \/ Up!IopWait
      BY <2>4 DEF Up!IopSide
    <3> QED BY <3>1, UpIopStoreInv, UpIopStopInv, UpIopTagInv, UpIopWaitInv
  <2>5. CASE Up!sif1Interrupt \/ Up!EEsif1Interrupt
    BY <2>5, UpInterruptsInv
  <2>6. CASE UNCHANGED Up!vars
    BY <2>6, UpStutterInv
  <2> QED BY <2>1, <2>2, <2>3, <2>4, <2>5, <2>6 DEF Up!Next, Up!SIF1Dma
<1> QED BY <1>1, UpInitInv, PTL DEF Up!Spec

(* SIF1: the IOP side takes the tag of a packet in the turn in which the EE   *)
(* side has sent it, whatever the lengths of the packets, the tags they are   *)
(* split over and the size of the FIFO, so that neither side of the loop of   *)
(* SIF1Dma waits for one that has stopped.                                    *)
THEOREM UpSidesInStep == Up!Spec => []Up!InStep
BY UpInvariant, UpInvInStep, PTL

-----------------------------------------------------------------------------
(* SIF1: the places of what is in transit.                                    *)

Spot == [addr : Addr, k : Nat]

(* The qwords of s are meant for the places from q on.                        *)
At(s, q) == \A i \in 1 .. Len(s) : s[i].place = Up!From(q, i - 1)

(* What the two sides still have of the packet begun or to begin.             *)
Coming(f, s, c) == Joined(f, Joined(s, Piece(c, 1)))

(* What is left of a packet goes on where the IOP's channel points to; one    *)
(* that is to begin is what its tag says.                                     *)
Placed ==
  /\ madr10 \in Spot
  /\ ~Opens(fifo) /\ ~Opens(source) => At(Coming(fifo, source, chain), madr10)
  /\ Opens(source) => /\ At(fifo, madr10)
                      /\ Joined(source, Piece(chain, 1)) = Up!Contents(source[1].tag)
  /\ Opens(fifo) => Coming(fifo, source, chain) = Up!Contents(fifo[1].tag)

LEMMA SpotFrom ==
  ASSUME NEW q \in Spot, NEW m \in Nat
  PROVE  /\ Up!From(q, m) \in Spot
         /\ Up!From(q, m) = [addr |-> q.addr, k |-> q.k + m]
         /\ \A i \in Nat : Up!From(Up!From(q, m), i) = Up!From(q, m + i)
<1>1. q = [addr |-> q.addr, k |-> q.k] /\ q.addr \in Addr /\ q.k \in Nat
  BY DEF Spot
<1>2. ASSUME NEW r \in Spot, NEW i \in Nat
      PROVE  Up!From(r, i) = [addr |-> r.addr, k |-> r.k + i] /\ Up!From(r, i) \in Spot
  <2>1. r = [addr |-> r.addr, k |-> r.k] /\ r.addr \in Addr /\ r.k \in Nat
    BY DEF Spot
  <2>2. Up!From(r, i) = [addr |-> r.addr, k |-> r.k + i]
    BY <2>1 DEF Up!From
  <2> QED BY <2>1, <2>2 DEF Spot
<1>3. ASSUME NEW i \in Nat
      PROVE  Up!From(Up!From(q, m), i) = Up!From(q, m + i)
  <2> DEFINE r == Up!From(q, m)
  <2>1. r \in Spot /\ r = [addr |-> q.addr, k |-> q.k + m]
    BY <1>2
  <2> HIDE DEF r
  <2>2. Up!From(r, i) = [addr |-> r.addr, k |-> r.k + i]
    BY <1>2, <2>1
  <2>3. r.addr = q.addr /\ r.k + i = q.k + (m + i)
    BY <1>1, <2>1
  <2>4. Up!From(q, m + i) = [addr |-> q.addr, k |-> q.k + (m + i)]
    BY <1>2
  <2> QED BY <2>2, <2>3, <2>4 DEF r
<1> QED BY <1>2, <1>3

LEMMA AtSplit ==
  ASSUME NEW Q, NEW s \in Seq(Q), NEW t \in Seq(Q), NEW q \in Spot
  PROVE  At(Joined(s, t), q) <=> At(s, q) /\ At(t, Up!From(q, Len(s)))
<1> DEFINE u == Joined(s, t)
<1>1. /\ Len(s) \in Nat /\ Len(t) \in Nat /\ Len(u) = Len(s) + Len(t)
      /\ \A i \in 1 .. Len(s) + Len(t) : u[i] = IF i <= Len(s) THEN s[i] ELSE t[i - Len(s)]
  BY ConcatProperties, LenProperties DEF Joined
<1> HIDE DEF u
<1>2. ASSUME NEW i \in 1 .. Len(s)
      PROVE  i \in 1 .. Len(u) /\ u[i] = s[i]
  <2>1. i \in 1 .. Len(s) + Len(t) /\ i <= Len(s)
    BY <1>1
  <2> QED BY <1>1, <2>1
<1>3. ASSUME NEW i \in 1 .. Len(t)
      PROVE  /\ Len(s) + i \in 1 .. Len(u) /\ u[Len(s) + i] = t[i]
             /\ Up!From(Up!From(q, Len(s)), i - 1) = Up!From(q, Len(s) + i - 1)
  <2>1. Len(s) + i \in 1 .. Len(s) + Len(t) /\ ~(Len(s) + i <= Len(s)) /\ Len(s) + i - Len(s) = i
    BY <1>1
  <2>2. i - 1 \in Nat /\ Len(s) + (i - 1) = Len(s) + i - 1
    BY <1>1
  <2>3. Up!From(Up!From(q, Len(s)), i - 1) = Up!From(q, Len(s) + (i - 1))
    BY <1>1, <2>2, SpotFrom
  <2> QED BY <1>1, <2>1, <2>2, <2>3
<1>4. ASSUME At(u, q) PROVE At(s, q) /\ At(t, Up!From(q, Len(s)))
  <2>1. \A i \in 1 .. Len(u) : u[i].place = Up!From(q, i - 1)
    BY <1>4 DEF At
  <2>2. \A i \in 1 .. Len(s) : s[i].place = Up!From(q, i - 1)
    BY <1>2, <2>1
  <2>3. ASSUME NEW i \in 1 .. Len(t)
        PROVE  t[i].place = Up!From(Up!From(q, Len(s)), i - 1)
    <3>1. PICK k : k = Len(s) + i
      OBVIOUS
    <3>2. k \in 1 .. Len(u) /\ u[k] = t[i] /\ Up!From(Up!From(q, Len(s)), i - 1) = Up!From(q, k - 1)
      BY <1>3, <3>1
    <3> QED BY <2>1, <3>2
  <2> QED BY <2>2, <2>3 DEF At
<1>5. ASSUME At(s, q), At(t, Up!From(q, Len(s))) PROVE At(u, q)
  <2> SUFFICES ASSUME NEW i \in 1 .. Len(u)
               PROVE  u[i].place = Up!From(q, i - 1)
    BY DEF At
  <2>1. CASE i <= Len(s)
    <3>1. i \in 1 .. Len(s)
      BY <1>1, <2>1
    <3> QED BY <1>2, <1>5, <3>1 DEF At
  <2>2. CASE ~(i <= Len(s))
    <3>1. PICK k \in 1 .. Len(t) : i = Len(s) + k
      <4>1. i - Len(s) \in 1 .. Len(t) /\ i = Len(s) + (i - Len(s))
        BY <1>1, <2>2
      <4> QED BY <4>1
    <3>2. u[i] = t[k] /\ Up!From(Up!From(q, Len(s)), k - 1) = Up!From(q, i - 1)
      BY <1>3, <3>1
    <3>3. t[k].place = Up!From(Up!From(q, Len(s)), k - 1)
      BY <1>5 DEF At
    <3> QED BY <3>2, <3>3
  <2> QED BY <2>1, <2>2
<1> QED BY <1>4, <1>5 DEF u

(* The data of a packet's contents, behind the tag.                           *)
LEMMA ContentsAt ==
  ASSUME NEW p \in Up!Packet
  PROVE  /\ [addr |-> p.addr, k |-> 0] \in Spot
         /\ Len(Up!Contents(p)) = p.len + 1 /\ p.len \in Nat
         /\ \A i \in 1 .. p.len :
              Up!Contents(p)[i + 1].place = Up!From([addr |-> p.addr, k |-> 0], i - 1)
<1> DEFINE head == <<Up!TagItem(p)>>
           data == [k \in 1 .. p.len |-> Up!DataItem([addr |-> p.addr, k |-> k - 1])]
           q == [addr |-> p.addr, k |-> 0]
<1>1. p.len \in Nat /\ p.addr \in Addr /\ Len(Up!Contents(p)) = p.len + 1
  BY ContentsRun DEF Up!Packet
<1>2. q \in Spot /\ q.addr = p.addr /\ q.k = 0
  BY <1>1 DEF Spot
<1> DEFINE S == {Up!TagItem(p)} \cup {data[k] : k \in 1 .. p.len}
<1>3. head \in Seq(S) /\ Len(head) = 1
  OBVIOUS
<1>4. data \in [1 .. p.len -> S]
  OBVIOUS
<1>5. \A k \in 1 .. p.len : data[k] = Up!DataItem([addr |-> p.addr, k |-> k - 1])
  OBVIOUS
<1>6. Up!Contents(p) = head \o data
  BY DEF Up!Contents
<1> HIDE DEF head, data, S, q
<1>7. data \in Seq(S) /\ Len(data) = p.len
  BY <1>1, <1>4, Made
<1>8. ASSUME NEW i \in 1 .. p.len
      PROVE  Up!Contents(p)[i + 1].place = Up!From(q, i - 1)
  <2>1. i + 1 \in 1 .. 1 + p.len /\ ~(i + 1 <= 1) /\ i + 1 - 1 = i /\ i - 1 \in Nat
    BY <1>1
  <2>2. Up!Contents(p)[i + 1] = data[i]
    <3>1. \A k \in 1 .. Len(head) + Len(data) :
            (head \o data)[k] = IF k <= Len(head) THEN head[k] ELSE data[k - Len(head)]
      BY <1>3, <1>7, ConcatProperties
    <3> DEFINE w == head \o data
    <3>2. \A k \in 1 .. 1 + p.len : w[k] = IF k <= 1 THEN head[k] ELSE data[k - 1]
      BY <1>3, <1>7, <3>1
    <3> HIDE DEF w
    <3>3. w[i + 1] = data[i]
      BY <2>1, <3>2
    <3> QED BY <1>6, <3>3 DEF w
  <2>3. data[i].place = [addr |-> p.addr, k |-> i - 1]
    <3>1. PICK pl : pl = [addr |-> p.addr, k |-> i - 1]
      OBVIOUS
    <3>2. data[i] = Up!DataItem(pl)
      BY <1>5, <3>1
    <3>3. Up!DataItem(pl).place = pl
      BY DEF Up!DataItem
    <3> QED BY <3>1, <3>2, <3>3
  <2>4. Up!From(q, i - 1) = [addr |-> p.addr, k |-> 0 + (i - 1)]
    BY <1>2, <2>1, SpotFrom
  <2>5. 0 + (i - 1) = i - 1
    BY <2>1
  <2> QED BY <2>2, <2>3, <2>4, <2>5
<1> QED BY <1>1, <1>2, <1>8 DEF q

(* What is behind the first of a run.                                         *)
LEMMA RunTail ==
  ASSUME NEW f, Run(f), f # <<>>
  PROVE  \A i \in 1 .. Len(f) - 1 : Up!Drop(f, 1)[i] = f[i + 1]
<1> DEFINE g == Up!Drop(f, 1)
<1>1. Len(f) \in Nat /\ Len(f) # 0 /\ f \in Seq(Up!Item)
  BY RunLength DEF Run
<1>2. \A i \in 1 + 1 .. Len(f) : f[i] \in Up!Item
  <2>1. \A i \in 1 + 1 .. Len(f) : i \in 1 .. Len(f)
    BY <1>1
  <2> QED BY <2>1, RunItem
<1>3. \A i \in 1 .. Len(f) - (1 + 1) + 1 : g[i] = f[1 + 1 + i - 1]
  BY <1>1, <1>2, SubSeqProperties DEF Up!Drop
<1> HIDE DEF g
<1>4. \A i \in 1 .. Len(f) - 1 : i \in 1 .. Len(f) - (1 + 1) + 1 /\ 1 + 1 + i - 1 = i + 1
  BY <1>1
<1>5. \A i \in 1 .. Len(f) - 1 : g[i] = f[i + 1]
  BY <1>3, <1>4
<1> QED BY <1>5 DEF g

(* Behind the tag, a packet's contents begin where the tag says.              *)
LEMMA ContentsTaken ==
  ASSUME NEW p \in Up!Packet, NEW f, Run(f), f # <<>>, NEW t, Run(t),
         Joined(f, t) = Up!Contents(p)
  PROVE  At(Joined(Up!Drop(f, 1), t), [addr |-> p.addr, k |-> 0])
<1> DEFINE g == Up!Drop(f, 1)
           q == [addr |-> p.addr, k |-> 0]
<1>1. Len(f) \in Nat /\ Len(f) # 0 /\ Len(t) \in Nat /\ f \in Seq(Up!Item) /\ t \in Seq(Up!Item)
  BY RunLength DEF Run
<1>2. 1 \in 1 .. Len(f)
  BY <1>1
<1>3. Run(g) /\ Len(g) = Len(f) - 1
  BY <1>2, RunDrop
<1>4. \A i \in 1 .. Len(f) - 1 : g[i] = f[i + 1]
  BY RunTail
<1> HIDE DEF g
<1> DEFINE u == Joined(f, t)
           v == Joined(g, t)
<1>5. /\ Len(u) = Len(f) + Len(t)
      /\ \A i \in 1 .. Len(f) + Len(t) : u[i] = IF i <= Len(f) THEN f[i] ELSE t[i - Len(f)]
  BY <1>1, ConcatProperties DEF Joined
<1>6. /\ Len(v) = Len(g) + Len(t)
      /\ \A i \in 1 .. Len(g) + Len(t) : v[i] = IF i <= Len(g) THEN g[i] ELSE t[i - Len(g)]
  BY <1>1, <1>3, ConcatProperties DEF Joined, Run
<1> HIDE DEF u, v
<1>7. ASSUME NEW i \in 1 .. Len(v)
      PROVE  v[i] = u[i + 1] /\ i \in 1 .. p.len
  <2>1. i \in 1 .. Len(g) + Len(t) /\ i + 1 \in 1 .. Len(f) + Len(t) /\ (i <= Len(g) <=> i + 1 <= Len(f))
        /\ i - Len(g) = i + 1 - Len(f) /\ (i <= Len(g) => i \in 1 .. Len(f) - 1)
    BY <1>1, <1>3, <1>6
  <2>2. v[i] = u[i + 1]
    <3>1. CASE i <= Len(g)
      <4>1. v[i] = g[i] /\ u[i + 1] = f[i + 1]
        BY <1>5, <1>6, <2>1, <3>1
      <4> QED BY <1>4, <2>1, <3>1, <4>1
    <3>2. CASE ~(i <= Len(g))
      <4>1. v[i] = t[i - Len(g)]
        BY <1>6, <2>1, <3>2
      <4>2. u[i + 1] = t[i + 1 - Len(f)]
        BY <1>5, <2>1, <3>2
      <4> QED BY <2>1, <4>1, <4>2
    <3> QED BY <3>1, <3>2
  <2>3. Len(u) = p.len + 1 /\ p.len \in Nat
    BY ContentsAt DEF u
  <2>4. i \in 1 .. p.len
    BY <1>1, <1>3, <1>5, <1>6, <2>3
  <2> QED BY <2>2, <2>4
<1>8. At(v, q)
  <2> SUFFICES ASSUME NEW i \in 1 .. Len(v)
               PROVE  v[i].place = Up!From(q, i - 1)
    BY DEF At
  <2>1. v[i] = Up!Contents(p)[i + 1] /\ i \in 1 .. p.len
    BY <1>7 DEF u
  <2>2. Up!Contents(p)[i + 1].place = Up!From(q, i - 1)
    BY <2>1, ContentsAt
  <2> QED BY <2>1, <2>2
<1> QED BY <1>8 DEF g, v

LEMMA AtNone == \A q : At(<<>>, q)
<1>1. 1 .. Len(<<>>) = {}
  BY RunEmpty
<1> QED BY <1>1 DEF At

(* What Owed says of the sequences that Placed speaks of.                     *)
LEMMA OwedRuns ==
  ASSUME Owed
  PROVE  /\ Run(fifo) /\ Run(source) /\ Whole(chain)
         /\ Run(Piece(chain, 1)) /\ ~Opens(Piece(chain, 1))
         /\ Run(Joined(source, Piece(chain, 1)))
         /\ Opens(source) <=> Opens(Joined(source, Piece(chain, 1)))
         /\ Len(Joined(source, Piece(chain, 1))) = Len(source) + Rest(chain, 1)
         /\ Len(source) \in Nat /\ Rest(chain, 1) \in Nat /\ Len(fifo) \in Nat
<1> DEFINE b == Piece(chain, 1)
<1>1. /\ Run(fifo) /\ Run(source) /\ Whole(chain)
  BY DEF Owed
<1>2. Run(b) /\ ~Opens(b) /\ Rest(chain, 1) = Len(b) /\ Rest(chain, 1) \in Nat
  BY <1>1, PieceIsRun DEF Rest
<1> HIDE DEF b
<1>3. /\ Run(Joined(source, b)) /\ Len(Joined(source, b)) = Len(source) + Len(b)
      /\ source = <<>> => Joined(source, b) = b
      /\ source # <<>> => (Opens(Joined(source, b)) <=> Opens(source))
  BY <1>1, <1>2, RunConcat DEF Joined
<1>4. Opens(source) <=> Opens(Joined(source, b))
  BY <1>2, <1>3, RunEmpty
<1> QED BY <1>1, <1>2, <1>3, <1>4, RunLength DEF b

LEMMA PlacedInit == Up!Init => Placed
<1> SUFFICES ASSUME Up!Init PROVE Placed
  OBVIOUS
<1>1. fifo = <<>> /\ source = <<>> /\ chain = <<>> /\ madr10 = Up!Nowhere
  BY DEF Up!Init
<1>2. madr10 \in Spot
  BY <1>1, UpConstants DEF Up!Place, Spot
<1>3. Piece(chain, 1) = <<>>
  <2>1. 1 \notin 1 .. Len(<<>>)
    BY RunEmpty
  <2> QED BY <1>1, <2>1 DEF Piece
<1>4. Coming(<<>>, <<>>, <<>>) = <<>>
  <2>1. <<>> \in Seq(Up!Item)
    BY EmptySeq
  <2>2. Joined(<<>>, <<>>) = <<>>
    BY <2>1, ConcatEmptySeq DEF Joined
  <2> QED BY <1>1, <1>3, <2>2 DEF Coming
<1> QED BY <1>1, <1>2, <1>4, AtNone, RunEmpty DEF Placed

LEMMA PlacedKept ==
  ASSUME Placed, UNCHANGED <<fifo, source, chain, madr10>>
  PROVE  Placed'
BY DEF Placed, Coming, Piece, At, Opens

(* A chain is built when all of the one before is stored.                     *)
LEMMA PlacedDma == UpInv /\ UpInv' /\ Placed /\ Up!dmaSIF1 => Placed'
<1> SUFFICES ASSUME UpInv, UpInv', Placed, Up!dmaSIF1 PROVE Placed'
  OBVIOUS
<1>1. pc = "idle" /\ ~eeSTR /\ UNCHANGED <<fifo, source, madr10>> /\ counter' = counter
  BY DEF Up!dmaSIF1, Up!iopVars
<1>2. fifo = <<>> /\ source = <<>> /\ counter = 0
  BY <1>1 DEF UpInv, UpChannels, UpLoop
<1>3. Whole(chain') /\ counter' = Len(fifo') + Len(source') + Rest(chain', 1)
  BY <1>1, <1>2, RunEmpty DEF UpInv, Owed
<1>4. Len(<<>>) = 0 /\ Rest(chain', 1) \in Nat /\ Run(Piece(chain', 1))
  BY <1>3, RunEmpty, PieceIsRun
<1>5. Rest(chain', 1) = 0
  BY <1>1, <1>2, <1>3, <1>4
<1>6. Piece(chain', 1) = <<>>
  BY <1>4, <1>5, RunLength DEF Rest
<1>7. Joined(<<>>, <<>>) = <<>>
  <2>1. <<>> \in Seq(Up!Item)
    BY EmptySeq
  <2> QED BY <2>1, ConcatEmptySeq DEF Joined
<1>8. Coming(fifo', source', chain') = <<>>
  BY <1>1, <1>2, <1>6, <1>7 DEF Coming
<1>9. At(Coming(fifo', source', chain'), madr10')
  BY <1>8, AtNone
<1>10. madr10' \in Spot
  BY <1>1 DEF Placed
<1>11. ~Opens(fifo') /\ ~Opens(source')
  BY <1>1, <1>2, RunEmpty
<1> QED BY <1>9, <1>10, <1>11 DEF Placed

(* The EE side.                                                               *)
LEMMA PlacedEe ==
  ASSUME UpInv, UpInv', Placed, pc = "ee", eesifbusy,
         Up!EeTag \/ Up!EeData, UNCHANGED <<eeSTR, Up!iopVars>>
  PROVE  Placed'
<1>1. UNCHANGED <<madr10, counter>> /\ madr10 \in Spot
  BY DEF Up!iopVars, Placed
<1>2. /\ Run(fifo) /\ Run(source) /\ Whole(chain) /\ Run(Piece(chain, 1)) /\ ~Opens(Piece(chain, 1))
      /\ Run(Joined(source, Piece(chain, 1)))
  BY OwedRuns DEF UpInv
<1>3. ~Opens(fifo)
  BY DEF UpInv, Owed
<1>4. CASE Up!EeTag
  <2> DEFINE l == Head(chain)
             t == Tail(chain)
  <2>1. source = <<>> /\ ~end /\ fifo' = fifo /\ source' = l /\ chain' = t
    BY <1>4 DEF Up!EeTag
  <2>2. chain # <<>>
    BY <2>1 DEF UpInv, UpChannels
  <2>3. /\ Run(l) /\ l = chain[1] /\ Piece(t, 1) = Piece(chain, 2)
        /\ IF Opens(chain[1]) THEN /\ Piece(chain, 1) = <<>>
                                  /\ Joined(chain[1], Piece(chain, 2)) = Up!Contents(chain[1][1].tag)
                             ELSE Piece(chain, 1) = chain[1] /\ Piece(chain, 2) = <<>>
    BY <1>2, <2>2, WholeTail
  <2> HIDE DEF l, t
  <2>4. Joined(<<>>, Piece(chain, 1)) = Piece(chain, 1) /\ Joined(l, <<>>) = l
        /\ Joined(fifo, <<>>) = fifo
    BY <1>2, <2>3, ConcatEmptySeq DEF Joined, Run
  <2>5. At(Joined(fifo, Piece(chain, 1)), madr10)
    BY <1>3, <2>1, <2>4, RunEmpty DEF Placed, Coming
  <2>6. CASE Opens(l)
    <3>1. At(fifo', madr10')
      BY <1>1, <2>1, <2>3, <2>4, <2>5, <2>6
    <3>2. Joined(source', Piece(chain', 1)) = Up!Contents(source'[1].tag)
      BY <2>1, <2>3, <2>6
    <3> QED BY <1>1, <1>3, <2>1, <2>6, <3>1, <3>2 DEF Placed
  <2>7. CASE ~Opens(l)
    <3>1. Coming(fifo', source', chain') = Joined(fifo, Piece(chain, 1))
      BY <2>1, <2>3, <2>4, <2>7 DEF Coming
    <3> QED BY <1>1, <1>3, <2>1, <2>5, <2>7, <3>1 DEF Placed
  <2> QED BY <2>6, <2>7
<1>5. CASE Up!EeData
  <2> DEFINE n == Up!Least(Len(source), FifoSize - Len(fifo))
             a == Up!Take(source, n)
             b == Up!Drop(source, n)
  <2>1. source # <<>> /\ fifo' = Joined(fifo, a) /\ source' = b /\ chain' = chain
    BY <1>5 DEF Up!EeData, Joined
  <2>2. n \in 0 .. Len(source)
    <3>1. Len(source) \in Nat /\ Len(fifo) \in Nat /\ FifoSize \in Nat /\ Len(fifo) <= FifoSize
      BY <1>2, RunLength, UpConstants DEF UpInv, Owed
    <3> QED BY <3>1 DEF Up!Least
  <2> HIDE DEF n
  <2>3. Joined(a, b) = source
    BY <1>2, <2>2, RunSplit
  <2>4. CASE n = 0
    <3>1. a = <<>> /\ b = source
      BY <1>2, <2>4, RunWhole
    <3>2. Joined(fifo, <<>>) = fifo
      BY <1>2, ConcatEmptySeq DEF Joined, Run
    <3> HIDE DEF a, b
    <3> QED BY <1>1, <2>1, <3>1, <3>2, PlacedKept
  <2>5. CASE n # 0
    <3>1. n \in 1 .. Len(source)
      BY <2>2, <2>5
    <3>2. Run(a) /\ a # <<>> /\ a[1] = source[1] /\ (Opens(a) <=> Opens(source))
      BY <1>2, <3>1, RunTake
    <3>3. Run(b) /\ ~Opens(b)
      BY <1>2, <3>1, RunDrop
    <3> HIDE DEF a, b
    <3> DEFINE e == Piece(chain, 1)
    <3>4. /\ a \in Seq(Up!Item) /\ b \in Seq(Up!Item) /\ fifo \in Seq(Up!Item) /\ e \in Seq(Up!Item)
      BY <1>2, <3>2, <3>3 DEF Run
    <3>5. Joined(b, e) \in Seq(Up!Item)
      BY <3>4, ConcatProperties DEF Joined
    <3> HIDE DEF e
    <3>6. Joined(source, e) = Joined(a, Joined(b, e))
      BY <2>3, <3>4, JoinThree
    <3>7. Joined(Joined(fifo, a), Joined(b, e)) = Joined(fifo, Joined(a, Joined(b, e)))
      BY <3>4, <3>5, JoinThree
    <3>8. Coming(fifo', source', chain') = Coming(fifo, source, chain)
      BY <2>1, <3>6, <3>7 DEF Coming, e
    <3>9. CASE ~Opens(source)
      <4>1. ~Opens(fifo')
        <5>1. /\ fifo = <<>> => Joined(fifo, a) = a
              /\ fifo # <<>> => (Opens(Joined(fifo, a)) <=> Opens(fifo))
          BY <1>2, <3>2, <3>9, RunConcat DEF Joined
        <5> QED BY <1>3, <2>1, <3>2, <3>9, <5>1
      <4>2. At(Coming(fifo', source', chain'), madr10')
        BY <1>1, <1>3, <3>8, <3>9 DEF Placed
      <4> QED BY <1>1, <2>1, <3>3, <4>1, <4>2 DEF Placed
    <3>10. CASE Opens(source)
      <4>1. fifo = <<>>
        BY <3>10 DEF UpInv, Owed
      <4>2. fifo' = a
        BY <2>1, <3>4, <4>1, ConcatEmptySeq DEF Joined
      <4>3. Joined(source, e) = Up!Contents(source[1].tag)
        BY <3>10 DEF Placed, e
      <4>4. Joined(<<>>, Joined(source, e)) = Joined(source, e)
        <5>1. Joined(source, e) \in Seq(Up!Item)
          BY <1>2 DEF Run, e
        <5> QED BY <5>1, ConcatEmptySeq DEF Joined
      <4>5. Coming(fifo, source, chain) = Up!Contents(source[1].tag)
        BY <4>1, <4>3, <4>4 DEF Coming, e
      <4>6. Coming(fifo', source', chain') = Up!Contents(fifo'[1].tag)
        BY <3>2, <3>8, <4>2, <4>5
      <4> QED BY <1>1, <2>1, <3>2, <3>3, <3>10, <4>2, <4>6 DEF Placed
    <3> QED BY <3>9, <3>10
  <2> QED BY <2>4, <2>5
<1> QED BY <1>4, <1>5

(* The IOP side: it stores all of the data in the FIFO, or takes a tag.        *)
LEMMA IopStores ==
  ASSUME UpInv, Placed, pc = "iop", iopsifbusy, ~Opens(fifo),
         Up!IopStore \/ Up!IopStop \/ Up!IopTag \/ Up!IopWait
  PROVE  /\ Up!Readable = Len(fifo) /\ fifo' = <<>> /\ madr10' = Up!From(madr10, Len(fifo))
         /\ At(fifo, madr10)
<1>1. /\ Up!Readable = Len(fifo) /\ Len(fifo) \in Nat /\ Up!Drop(fifo, Up!Readable) = <<>>
  BY IopSideFacts
<1>2. ~Up!IopTag
  <2> SUFFICES ASSUME Up!IopTag PROVE FALSE
    OBVIOUS
  <2>1. Len(fifo) > Up!Readable
    BY DEF Up!IopTag
  <2> QED BY <1>1, <2>1
<1>3. fifo' = <<>> /\ madr10' = Up!From(madr10, Len(fifo))
  BY <1>1, <1>2 DEF Up!IopStore, Up!IopStop, Up!IopWait
<1>4. At(fifo, madr10)
  <2>1. CASE Opens(source)
    BY <2>1 DEF Placed
  <2>2. CASE ~Opens(source)
    <3> DEFINE x == Joined(source, Piece(chain, 1))
    <3>1. fifo \in Seq(Up!Item) /\ x \in Seq(Up!Item) /\ madr10 \in Spot
      BY OwedRuns DEF UpInv, Run, Placed
    <3>2. At(Joined(fifo, x), madr10)
      BY <2>2 DEF Placed, Coming
    <3> HIDE DEF x
    <3> QED BY <3>1, <3>2, AtSplit
  <2> QED BY <2>1, <2>2
<1> QED BY <1>1, <1>3, <1>4

LEMMA PlacedIop ==
  ASSUME UpInv, UpInv', Placed, pc = "iop", iopsifbusy,
         Up!IopStore \/ Up!IopStop \/ Up!IopTag \/ Up!IopWait, UNCHANGED <<Up!eeVars, iopTR>>
  PROVE  Placed'
<1> DEFINE e == Piece(chain, 1)
           x == Joined(source, e)
<1>1. UNCHANGED <<source, chain>>
  BY DEF Up!eeVars
<1>2. /\ Run(fifo) /\ Run(source) /\ Run(x) /\ fifo \in Seq(Up!Item) /\ x \in Seq(Up!Item)
      /\ Len(fifo) \in Nat /\ madr10 \in Spot
  BY OwedRuns DEF UpInv, Run, Placed
<1>3. Coming(fifo, source, chain) = Joined(fifo, x) /\ Coming(fifo', source', chain') = Joined(fifo', x)
  BY <1>1 DEF Coming
<1>4. Joined(source', Piece(chain', 1)) = x
  BY <1>1
<1>5. CASE ~Opens(fifo)
  <2>1. fifo' = <<>> /\ madr10' = Up!From(madr10, Len(fifo))
    BY <1>5, IopStores
  <2>2. madr10' \in Spot
    BY <1>2, <2>1, SpotFrom
  <2>3. ~Opens(source) => At(Coming(fifo', source', chain'), madr10')
    <3> SUFFICES ASSUME ~Opens(source) PROVE At(Joined(<<>>, x), madr10')
      BY <1>3, <2>1
    <3> HIDE DEF x
    <3>1. At(Joined(fifo, x), madr10)
      BY <1>3, <1>5 DEF Placed
    <3>2. At(x, madr10')
      BY <1>2, <2>1, <3>1, AtSplit
    <3>3. Joined(<<>>, x) = x
      BY <1>2, ConcatEmptySeq DEF Joined
    <3> QED BY <3>2, <3>3
  <2>4. Opens(source) => At(fifo', madr10') /\ x = Up!Contents(source[1].tag)
    <3>1. At(fifo', madr10')
      BY <2>1, AtNone
    <3> QED BY <3>1 DEF Placed
  <2>5. ~Opens(fifo')
    BY <2>1, RunEmpty
  <2> HIDE DEF x, e
  <2> QED BY <1>1, <1>4, <2>2, <2>3, <2>4, <2>5 DEF Placed
<1>6. CASE Opens(fifo)
  <2> DEFINE p == fifo[1].tag
             q == [addr |-> p.addr, k |-> 0]
  <2>1. /\ Up!Readable = 0 /\ Up!Left = 0 /\ fifo # <<>> /\ ~Opens(source) /\ Len(fifo) # 0
        /\ ~tagMode /\ counter = 0
    <3>1. /\ counter = 0 /\ Up!Readable = 0 /\ Up!Left = 0 /\ ~tagMode /\ fifo # <<>> /\ ~Opens(source)
      BY <1>6, IopSideFacts
    <3> QED BY <1>2, <3>1, RunLength
  <2>2. Up!IopTag
    <3>1. ASSUME Up!IopStore PROVE FALSE
      <4>1. Up!Left > 0
        BY <3>1 DEF Up!IopStore
      <4> QED BY <2>1, <4>1
    <3>2. ASSUME Up!IopStop PROVE FALSE
      <4>1. tagMode
        BY <3>2 DEF Up!IopStop
      <4> QED BY <2>1, <4>1
    <3>3. ASSUME Up!IopWait PROVE FALSE
      <4>1. Len(fifo) = Up!Readable
        BY <3>3 DEF Up!IopWait
      <4> QED BY <2>1, <4>1
    <3> QED BY <3>1, <3>2, <3>3
  <2>3. madr10' = q /\ fifo' = Up!Drop(fifo, 1)
    <3>1. Up!Readable + 1 = 1
      BY <2>1
    <3> QED BY <2>2, <3>1 DEF Up!IopTag
  <2>4. 1 \in 1 .. Len(fifo) /\ p \in Up!Packet
    <3>1. 1 \in 1 .. Len(fifo)
      BY <1>2, <2>1
    <3> QED BY <1>2, <3>1, RunItem
  <2>5. Joined(fifo, x) = Up!Contents(p)
    BY <1>3, <1>6 DEF Placed
  <2>6. ~Opens(fifo')
    BY <1>2, <2>3, <2>4, RunDrop
  <2> HIDE DEF p, x, e
  <2>7. At(Joined(fifo', x), madr10')
    BY <1>2, <2>1, <2>3, <2>4, <2>5, ContentsTaken
  <2>8. madr10' \in Spot
    BY <2>3, <2>4, ContentsAt
  <2> QED BY <1>1, <1>3, <2>1, <2>6, <2>7, <2>8 DEF Placed
<1> QED BY <1>5, <1>6

-----------------------------------------------------------------------------
(* What is in transit, as the refinement mapping has it.                      *)

LEMMA DataOfRun ==
  ASSUME NEW s, Run(s)
  PROVE  /\ Up!DataOf(s) \in Seq(Up!Place)
         /\ Opens(s) => /\ Len(Up!DataOf(s)) = Len(s) - 1
                        /\ \A i \in 1 .. Len(s) - 1 : Up!DataOf(s)[i] = s[i + 1].place
         /\ ~Opens(s) => /\ Len(Up!DataOf(s)) = Len(s)
                         /\ \A i \in 1 .. Len(s) : Up!DataOf(s)[i] = s[i].place
         /\ s = <<>> => Up!DataOf(s) = <<>>
<1>1. Len(s) \in Nat /\ (s = <<>> <=> Len(s) = 0)
  BY RunLength
<1>2. PICK j \in {0, 1} : j = Up!Lead(s) /\ (Opens(s) <=> j = 1) /\ (j = 1 => Len(s) # 0)
  BY <1>1 DEF Up!Lead, Opens
<1>3. PICK n : n = Len(s) - j
  OBVIOUS
<1>4. n \in Nat
  BY <1>1, <1>2, <1>3
<1> DEFINE d == [i \in 1 .. n |-> s[i + j].place]
<1>5. Up!DataOf(s) = d
  BY <1>2, <1>3 DEF Up!DataOf
<1>6. ASSUME NEW i \in 1 .. n
      PROVE  s[i + j].place \in Up!Place
  <2>1. i + j \in 1 .. Len(s)
    BY <1>1, <1>2, <1>3
  <2>2. s[i + j] \in Up!Item
    BY <2>1, RunItem
  <2> QED BY <2>2 DEF Up!Item
<1>7. d \in [1 .. n -> Up!Place] /\ \A i \in 1 .. n : d[i] = s[i + j].place
  BY <1>6
<1> HIDE DEF d
<1>8. d \in Seq(Up!Place) /\ Len(d) = n
  BY <1>4, <1>7, Made
<1>9. CASE j = 1
  <2>1. n = Len(s) - 1 /\ s # <<>>
    BY <1>1, <1>2, <1>3, <1>9
  <2> QED BY <1>2, <1>5, <1>7, <1>8, <1>9, <2>1
<1>10. CASE j = 0
  <2>1. n = Len(s) /\ \A i \in 1 .. n : i + j = i
    BY <1>1, <1>3, <1>10
  <2>2. \A i \in 1 .. n : d[i] = s[i].place
    BY <1>7, <2>1
  <2>3. s = <<>> => d = <<>>
    BY <1>1, <1>8, <2>1, EmptySeq
  <2> QED BY <1>2, <1>5, <1>8, <1>10, <2>1, <2>2, <2>3
<1> QED BY <1>2, <1>9, <1>10

LEMMA DataOfJoined ==
  ASSUME NEW s, Run(s), NEW t, Run(t), Opens(t) => s = <<>>
  PROVE  Up!DataOf(Joined(s, t)) = Joined(Up!DataOf(s), Up!DataOf(t))
<1> DEFINE u == Joined(s, t)
<1>1. /\ Len(s) \in Nat /\ Len(t) \in Nat /\ (s = <<>> <=> Len(s) = 0)
      /\ s \in Seq(Up!Item) /\ t \in Seq(Up!Item)
  BY RunLength DEF Run
<1>2. CASE s = <<>>
  <2>1. u = t /\ Up!DataOf(s) = <<>> /\ Up!DataOf(t) \in Seq(Up!Place)
    BY <1>1, <1>2, DataOfRun, ConcatEmptySeq DEF Joined
  <2>2. Joined(<<>>, Up!DataOf(t)) = Up!DataOf(t)
    BY <2>1, ConcatEmptySeq DEF Joined
  <2> QED BY <2>1, <2>2
<1>3. CASE s # <<>>
  <2> DEFINE a == Up!DataOf(s)
             b == Up!DataOf(t)
             c == Up!DataOf(u)
  <2>1. ~Opens(t) /\ Run(u) /\ (Opens(u) <=> Opens(s)) /\ Len(u) = Len(s) + Len(t)
    BY <1>3, RunConcat DEF Joined
  <2>2. \A i \in 1 .. Len(s) + Len(t) : u[i] = IF i <= Len(s) THEN s[i] ELSE t[i - Len(s)]
    BY <1>1, ConcatProperties DEF Joined
  <2> HIDE DEF u
  <2>3. b \in Seq(Up!Place) /\ Len(b) = Len(t) /\ \A i \in 1 .. Len(t) : b[i] = t[i].place
    BY <2>1, DataOfRun
  <2>4. PICK j \in {0, 1} : /\ j = 1 <=> Opens(s)
                            /\ a \in Seq(Up!Place) /\ Len(a) = Len(s) - j
                            /\ \A i \in 1 .. Len(s) - j : a[i] = s[i + j].place
                            /\ c \in Seq(Up!Place) /\ Len(c) = Len(u) - j
                            /\ \A i \in 1 .. Len(u) - j : c[i] = u[i + j].place
    <3>1. CASE Opens(s)
      BY <2>1, <3>1, DataOfRun
    <3>2. CASE ~Opens(s)
      <4>1. /\ a \in Seq(Up!Place) /\ Len(a) = Len(s) /\ \A i \in 1 .. Len(s) : a[i] = s[i].place
            /\ c \in Seq(Up!Place) /\ Len(c) = Len(u) /\ \A i \in 1 .. Len(u) : c[i] = u[i].place
        BY <2>1, <3>2, DataOfRun
      <4> HIDE DEF a, c
      <4>2. Len(s) - 0 = Len(s) /\ Len(u) - 0 = Len(u) /\ Len(u) \in Nat
        BY <1>1, <2>1
      <4>3. \A i \in 1 .. Len(s) : i + 0 = i
        BY <1>1
      <4>4. \A i \in 1 .. Len(u) : i + 0 = i
        BY <4>2
      <4> QED BY <3>2, <4>1, <4>2, <4>3, <4>4
    <3> QED BY <3>1, <3>2
  <2> HIDE DEF a, b, c
  <2>5. /\ a \o b \in Seq(Up!Place) /\ Len(a \o b) = Len(a) + Len(b)
        /\ \A i \in 1 .. Len(a) + Len(b) : (a \o b)[i] = IF i <= Len(a) THEN a[i] ELSE b[i - Len(a)]
    <3>1. a \in Seq(Up!Place) /\ b \in Seq(Up!Place)
      BY <2>3, <2>4
    <3> QED BY <3>1, ConcatProperties
  <2> DEFINE w == a \o b
  <2> HIDE DEF w
  <2>6. /\ w \in Seq(Up!Place) /\ Len(w) = Len(a) + Len(b)
        /\ \A i \in 1 .. Len(a) + Len(b) : w[i] = IF i <= Len(a) THEN a[i] ELSE b[i - Len(a)]
    BY <2>5 DEF w
  <2>7. Len(c) = Len(a) + Len(b)
    BY <1>1, <2>1, <2>3, <2>4
  <2>8. ASSUME NEW i \in 1 .. Len(c)
        PROVE  c[i] = w[i]
    <3>1. /\ i \in 1 .. Len(a) + Len(b) /\ i \in 1 .. Len(u) - j /\ i + j \in 1 .. Len(s) + Len(t)
          /\ (i <= Len(a) <=> i + j <= Len(s)) /\ i + j - Len(s) = i - Len(a)
          /\ (i <= Len(a) => i \in 1 .. Len(s) - j) /\ (~(i <= Len(a)) => i - Len(a) \in 1 .. Len(t))
      BY <1>1, <2>1, <2>3, <2>4, <2>7, SMTT(30)
    <3>2. c[i] = u[i + j].place
      BY <2>4, <3>1
    <3>3. CASE i <= Len(a)
      <4>1. u[i + j] = s[i + j]
        BY <2>2, <3>1, <3>3
      <4>2. w[i] = a[i] /\ a[i] = s[i + j].place
        BY <2>4, <2>6, <3>1, <3>3
      <4> QED BY <3>2, <4>1, <4>2
    <3>4. CASE ~(i <= Len(a))
      <4>1. u[i + j] = t[i - Len(a)]
        <5>1. u[i + j] = t[i + j - Len(s)]
          BY <2>2, <3>1, <3>4
        <5> QED BY <3>1, <5>1
      <4>2. w[i] = b[i - Len(a)] /\ b[i - Len(a)] = t[i - Len(a)].place
        BY <2>3, <2>6, <3>1, <3>4
      <4> QED BY <3>2, <4>1, <4>2
    <3> QED BY <3>3, <3>4
  <2>9. c = w
    BY <2>4, <2>6, <2>7, <2>8, SeqEqual
  <2> QED BY <2>9 DEF a, b, c, u, w, Joined
<1> QED BY <1>2, <1>3

LEMMA UpBehindIs ==
  ASSUME NEW c, Whole(c)
  PROVE  /\ Up!Behind(c) \in Seq(Up!Place)
         /\ c = <<>> => Up!Behind(c) = <<>>
         /\ c # <<>> => Up!Behind(c) = Joined(Up!DataOf(Head(c)), Up!Behind(Tail(c)))
<1> DEFINE pieces(z) == [i \in 1 .. Len(z) |-> Up!DataOf(z[i])]
<1>0. \A z : Up!FlattenSeq(z) = FlattenSeq(z)
  BY DEF Up!FlattenSeq, FlattenSeq
<1>1. ASSUME NEW z, Whole(z)
      PROVE  pieces(z) \in Seq(Seq(Up!Place)) /\ Len(pieces(z)) = Len(z) /\ Len(z) \in Nat
  <2>1. Len(z) \in Nat
    BY <1>1, LenProperties DEF Whole
  <2>2. \A i \in 1 .. Len(z) : Up!DataOf(z[i]) \in Seq(Up!Place)
    BY <1>1, DataOfRun DEF Whole
  <2>3. pieces(z) \in [1 .. Len(z) -> Seq(Up!Place)]
    BY <2>2
  <2> HIDE DEF pieces
  <2> QED BY <2>1, <2>3, Made
<1>2. \A z : Up!Behind(z) = FlattenSeq(pieces(z))
  BY <1>0 DEF Up!Behind
<1>3. pieces(c) \in Seq(Seq(Up!Place)) /\ Len(pieces(c)) = Len(c)
  BY <1>1
<1>4. Up!Behind(c) \in Seq(Up!Place) /\ (pieces(c) = <<>> => Up!Behind(c) = <<>>)
  <2> HIDE DEF pieces
  <2> QED BY <1>2, <1>3, FlattenTyped
<1>5. c = <<>> <=> pieces(c) = <<>>
  <2> HIDE DEF pieces
  <2> QED BY <1>3, EmptySeq DEF Whole
<1>6. ASSUME c # <<>>
      PROVE  Up!Behind(c) = Joined(Up!DataOf(Head(c)), Up!Behind(Tail(c)))
  <2>1. /\ Whole(Tail(c)) /\ Len(Tail(c)) = Len(c) - 1 /\ Len(c) \in Nat /\ Len(c) # 0
        /\ Head(c) = c[1] /\ \A i \in 1 .. Len(Tail(c)) : Tail(c)[i] = c[i + 1]
    <3>1. Whole(Tail(c)) /\ Head(c) = c[1]
      BY <1>6, WholeTail
    <3> QED BY <1>6, <3>1, HeadTailProperties, LenProperties, EmptySeq DEF Whole
  <2>2. FlattenSeq(pieces(c)) = Head(pieces(c)) \o FlattenSeq(Tail(pieces(c)))
    <3> HIDE DEF pieces
    <3> QED BY <1>3, <1>5, <1>6, FlattenHead
  <2>3. Head(pieces(c)) = Up!DataOf(Head(c))
    <3>1. 1 \in 1 .. Len(c)
      BY <2>1
    <3>2. pieces(c)[1] = Up!DataOf(c[1])
      BY <3>1
    <3> HIDE DEF pieces
    <3> QED BY <1>3, <1>5, <1>6, <2>1, <3>2
  <2>4. Tail(pieces(c)) = pieces(Tail(c))
    <3>1. /\ Tail(pieces(c)) \in Seq(Seq(Up!Place))
          /\ Len(Tail(pieces(c))) = Len(c) - 1
          /\ \A i \in 1 .. Len(c) - 1 : Tail(pieces(c))[i] = pieces(c)[i + 1]
      <4> HIDE DEF pieces
      <4> QED BY <1>3, <1>5, <1>6, HeadTailProperties
    <3>2. pieces(Tail(c)) \in Seq(Seq(Up!Place)) /\ Len(pieces(Tail(c))) = Len(c) - 1
      BY <1>1, <2>1
    <3>3. ASSUME NEW i \in 1 .. Len(c) - 1
          PROVE  pieces(Tail(c))[i] = Tail(pieces(c))[i]
      <4>1. i \in 1 .. Len(Tail(c)) /\ i + 1 \in 1 .. Len(c) /\ Tail(c)[i] = c[i + 1]
        BY <2>1
      <4>2. pieces(Tail(c))[i] = Up!DataOf(Tail(c)[i])
        BY <4>1
      <4>3. pieces(c)[i + 1] = Up!DataOf(c[i + 1])
        BY <4>1
      <4> QED BY <3>1, <4>1, <4>2, <4>3
    <3> HIDE DEF pieces
    <3> QED BY <3>1, <3>2, <3>3, SeqEqual
  <2> HIDE DEF pieces
  <2> QED BY <1>2, <2>2, <2>3, <2>4 DEF Joined
<1> HIDE DEF pieces
<1> QED BY <1>4, <1>5, <1>6

LEMMA UpMovesAre ==
  Moves(Up!Place, Up!InTransit, Up!InTransit', stored') => Up!Channel!Next
BY DEF Moves, Up!Channel!Next, Up!Channel!Send, Up!Channel!Store

(* What is in transit, of its parts.                                          *)
UpFlow(f, s, c) == Joined(Up!DataOf(f), Joined(Up!DataOf(s), Up!Behind(c)))

LEMMA UpFlowIs ==
  ASSUME NEW f, Run(f), NEW s, Run(s), NEW c, Whole(c)
  PROVE  /\ Up!DataOf(f) \o Up!DataOf(s) \o Up!Behind(c) = UpFlow(f, s, c)
         /\ UpFlow(f, s, c) \in Seq(Up!Place)
         /\ Joined(Up!DataOf(s), Up!Behind(c)) \in Seq(Up!Place)
         /\ f = <<>> => UpFlow(f, s, c) = Joined(Up!DataOf(s), Up!Behind(c))
<1> DEFINE F == Up!DataOf(f)
           S == Up!DataOf(s)
           C == Up!Behind(c)
<1>1. F \in Seq(Up!Place) /\ S \in Seq(Up!Place) /\ C \in Seq(Up!Place) /\ (f = <<>> => F = <<>>)
  BY DataOfRun, UpBehindIs
<1> SUFFICES /\ Joined(Joined(F, S), C) = Joined(F, Joined(S, C))
             /\ Joined(F, Joined(S, C)) \in Seq(Up!Place)
             /\ Joined(S, C) \in Seq(Up!Place)
             /\ f = <<>> => Joined(F, Joined(S, C)) = Joined(S, C)
  BY DEF UpFlow, Joined
<1> HIDE DEF F, S, C
<1>2. Joined(S, C) \in Seq(Up!Place)
  BY <1>1, ConcatProperties DEF Joined
<1>3. Joined(F, Joined(S, C)) \in Seq(Up!Place)
  BY <1>1, <1>2, ConcatProperties DEF Joined
<1>4. Joined(<<>>, Joined(S, C)) = Joined(S, C)
  BY <1>2, ConcatEmptySeq DEF Joined
<1> QED BY <1>1, <1>2, <1>3, <1>4, JoinThree

LEMMA UpTransit ==
  ASSUME UpInv, UpInv'
  PROVE  /\ Run(fifo) /\ Run(source) /\ Whole(chain)
         /\ Run(fifo') /\ Run(source') /\ Whole(chain')
         /\ Up!InTransit = UpFlow(fifo, source, chain)
         /\ Up!InTransit' = UpFlow(fifo', source', chain')
         /\ Up!InTransit \in Seq(Up!Place) /\ Up!InTransit' \in Seq(Up!Place)
<1>1. Run(fifo) /\ Run(source) /\ Whole(chain)
  BY DEF UpInv, Owed
<1>2. Run(fifo') /\ Run(source') /\ Whole(chain')
  BY DEF UpInv, Owed
<1>3. Up!InTransit = Up!DataOf(fifo) \o Up!DataOf(source) \o Up!Behind(chain)
  BY DEF Up!InTransit
<1>4. Up!InTransit' = Up!DataOf(fifo') \o Up!DataOf(source') \o Up!Behind(chain')
  BY DEF Up!InTransit
<1> QED BY <1>1, <1>2, <1>3, <1>4, UpFlowIs

(* Outside the loop the EE sends a whole chain; nothing else that is done     *)
(* there moves data, nor does the end of the EE's channel.                    *)
LEMMA UpStarts ==
  ASSUME UpInv, UpInv',
         Up!dmaSIF1 \/ Up!psxDma10 \/ Up!sif1Interrupt \/ Up!EEsif1Interrupt
  PROVE  Up!Channel!Next
<1>1. stored' = <<>>
  BY DEF Up!dmaSIF1, Up!psxDma10, Up!sif1Interrupt, Up!EEsif1Interrupt
<1>2. CASE Up!dmaSIF1
  <2>1. fifo = <<>> /\ source = <<>> /\ chain = <<>>
    BY <1>2 DEF Up!dmaSIF1, UpInv, UpChannels, UpLoop
  <2>2. UpFlow(<<>>, <<>>, <<>>) = <<>>
    <3>1. Run(<<>>) /\ Whole(<<>>)
      BY <2>1, UpTransit
    <3>2. Up!DataOf(<<>>) = <<>> /\ Up!Behind(<<>>) = <<>>
      BY <3>1, DataOfRun, UpBehindIs
    <3>3. Joined(<<>>, <<>>) = <<>>
      <4>1. <<>> \in Seq(Up!Item)
        BY <3>1 DEF Run
      <4> QED BY <4>1, ConcatEmptySeq DEF Joined
    <3> QED BY <3>2, <3>3 DEF UpFlow
  <2>3. Up!InTransit = <<>> /\ Up!InTransit' \in Seq(Up!Place)
    BY <2>1, <2>2, UpTransit
  <2> QED BY <1>1, <2>3, MovesIn, UpMovesAre
<1>3. CASE Up!psxDma10 \/ Up!sif1Interrupt \/ Up!EEsif1Interrupt
  <2>1. fifo' = fifo /\ source' = source /\ chain' = chain
    BY <1>3 DEF Up!psxDma10, Up!sif1Interrupt, Up!EEsif1Interrupt, Up!eeVars
  <2>2. Up!InTransit' = Up!InTransit /\ Up!InTransit \in Seq(Up!Place)
    BY <2>1, UpTransit
  <2> QED BY <1>1, <2>2, MovesNone, UpMovesAre
<1> QED BY <1>2, <1>3

(* The EE side only moves qwords towards the FIFO.                             *)
LEMMA UpEeMoves ==
  ASSUME UpInv, UpInv', Up!EeSide
  PROVE  Up!Channel!Next
<1>1. stored' = <<>> /\ (Up!EeStop \/ Up!EeTag \/ Up!EeData)
  BY DEF Up!EeSide
<1>2. /\ Run(fifo) /\ Run(source) /\ Whole(chain)
      /\ Up!InTransit = UpFlow(fifo, source, chain)
      /\ Up!InTransit' = UpFlow(fifo', source', chain')
      /\ Up!InTransit \in Seq(Up!Place)
  BY UpTransit
<1> SUFFICES UpFlow(fifo', source', chain') = UpFlow(fifo, source, chain)
  BY <1>1, <1>2, MovesNone, UpMovesAre
<1>3. CASE Up!EeStop
  BY <1>3 DEF Up!EeStop
<1>4. CASE Up!EeTag
  <2>1. source = <<>> /\ ~end /\ fifo' = fifo /\ source' = Head(chain) /\ chain' = Tail(chain)
    BY <1>4 DEF Up!EeTag
  <2>2. pc = "ee" /\ eesifbusy
    BY DEF Up!EeSide
  <2>3. chain # <<>>
    BY <2>1, <2>2 DEF UpInv, UpChannels
  <2>4. /\ Up!Behind(chain) = Joined(Up!DataOf(Head(chain)), Up!Behind(Tail(chain)))
        /\ Up!Behind(chain) \in Seq(Up!Place) /\ Up!DataOf(source) = <<>>
    BY <1>2, <2>1, <2>3, UpBehindIs, DataOfRun
  <2>5. Joined(<<>>, Up!Behind(chain)) = Up!Behind(chain)
    BY <2>4, ConcatEmptySeq DEF Joined
  <2> QED BY <2>1, <2>4, <2>5 DEF UpFlow
<1>5. CASE Up!EeData
  <2> DEFINE n == Up!Least(Len(source), FifoSize - Len(fifo))
             a == Up!Take(source, n)
             b == Up!Drop(source, n)
  <2>1. source # <<>> /\ fifo' = Joined(fifo, a) /\ source' = b /\ chain' = chain
    BY <1>5 DEF Up!EeData, Joined
  <2>2. n \in 0 .. Len(source)
    <3>1. /\ Len(fifo) \in Nat /\ Len(source) \in Nat /\ Len(fifo) <= FifoSize
          /\ FifoSize \in Nat
      BY <1>2, RunLength, UpConstants DEF UpInv, Owed
    <3> QED BY <3>1 DEF Up!Least
  <2>3. Joined(a, b) = source
    BY <1>2, <2>2, RunSplit
  <2>4. (Run(a) /\ Run(b) /\ ~Opens(b) /\ (Opens(a) => Opens(source))) \/ n = 0
    <3>1. CASE n = 0
      BY <3>1
    <3>2. CASE n # 0
      <4>1. n \in 1 .. Len(source)
        BY <2>2, <3>2
      <4> HIDE DEF n
      <4> QED BY <1>2, <4>1, RunTake, RunDrop
    <3> QED BY <3>1, <3>2
  <2>5. CASE n = 0
    <3>1. a = <<>> /\ b = source
      BY <1>2, <2>5, RunWhole
    <3>2. Joined(fifo, <<>>) = fifo
      BY <1>2, ConcatEmptySeq DEF Joined, Run
    <3> QED BY <2>1, <3>1, <3>2
  <2>6. CASE n # 0
    <3> HIDE DEF a, b, n
    <3>1. Run(a) /\ Run(b) /\ ~Opens(b) /\ (Opens(a) => Opens(source))
      BY <2>4, <2>6
    <3>2. Opens(a) => fifo = <<>>
      <4>1. pc = "ee"
        BY DEF Up!EeSide
      <4> QED BY <3>1, <4>1 DEF UpInv, Owed
    <3> DEFINE F == Up!DataOf(fifo)
               A == Up!DataOf(a)
               B == Up!DataOf(b)
               C == Up!Behind(chain)
    <3>3. F \in Seq(Up!Place) /\ A \in Seq(Up!Place) /\ B \in Seq(Up!Place) /\ C \in Seq(Up!Place)
      BY <1>2, <3>1, DataOfRun, UpBehindIs
    <3>4. Up!DataOf(source) = Joined(A, B)
      BY <2>3, <3>1, DataOfJoined
    <3>5. Up!DataOf(fifo') = Joined(F, A)
      BY <1>2, <2>1, <3>1, <3>2, DataOfJoined
    <3>6. UpFlow(fifo', source', chain') = Joined(Joined(F, A), Joined(B, C))
      BY <2>1, <3>5 DEF UpFlow
    <3>7. UpFlow(fifo, source, chain) = Joined(F, Joined(Joined(A, B), C))
      BY <3>4 DEF UpFlow
    <3> HIDE DEF F, A, B, C
    <3>8. Joined(B, C) \in Seq(Up!Place)
      BY <3>3, ConcatProperties DEF Joined
    <3>9. Joined(Joined(A, B), C) = Joined(A, Joined(B, C))
      BY <3>3, JoinThree
    <3>10. Joined(Joined(F, A), Joined(B, C)) = Joined(F, Joined(A, Joined(B, C)))
      BY <3>3, <3>8, JoinThree
    <3> QED BY <3>6, <3>7, <3>9, <3>10
  <2> QED BY <2>5, <2>6
<1> QED BY <1>1, <1>3, <1>4, <1>5

(* The IOP side stores all the data in the FIFO.                              *)
LEMMA UpIopMoves ==
  ASSUME UpInv, UpInv', Placed, Up!IopSide
  PROVE  Up!Channel!Next
<1>1. /\ pc = "iop" /\ iopsifbusy /\ Up!IopRead /\ UNCHANGED <<Up!eeVars, iopTR>>
      /\ Up!IopStore \/ Up!IopStop \/ Up!IopTag \/ Up!IopWait
  BY DEF Up!IopSide
<1>2. source' = source /\ chain' = chain
  BY <1>1 DEF Up!eeVars
<1> DEFINE y == Joined(Up!DataOf(source), Up!Behind(chain))
<1>3. /\ Run(fifo) /\ Run(source) /\ Whole(chain) /\ Run(fifo')
      /\ Up!InTransit = UpFlow(fifo, source, chain)
      /\ Up!InTransit' = UpFlow(fifo', source, chain)
      /\ Up!InTransit \in Seq(Up!Place)
  BY <1>2, UpTransit
<1>4. Len(fifo) \in Nat /\ y \in Seq(Up!Place)
  BY <1>3, RunLength, UpFlowIs
<1>5. stored' = [i \in 1 .. Up!Readable |-> [place |-> Up!From(madr10, i - 1),
                                             qword |-> fifo[i].place]]
  BY <1>1 DEF Up!IopRead
<1>6. CASE ~Opens(fifo)
  <2> DEFINE x == Up!DataOf(fifo)
  <2>1. /\ Up!Readable = Len(fifo) /\ fifo' = <<>> /\ At(fifo, madr10)
    BY <1>1, <1>6, IopStores
  <2>2. x \in Seq(Up!Place) /\ Len(x) = Len(fifo) /\ \A i \in 1 .. Len(fifo) : x[i] = fifo[i].place
    BY <1>3, <1>6, DataOfRun
  <2>3. Up!InTransit = Joined(x, y) /\ Up!InTransit' = y
    <3>1. Up!InTransit = Joined(x, y)
      BY <1>3 DEF UpFlow
    <3>2. UpFlow(fifo', source, chain) = y
      BY <1>3, <2>1, UpFlowIs
    <3> QED BY <1>3, <3>1, <3>2
  <2> HIDE DEF x, y
  <2>4. stored' = [i \in 1 .. Len(x) |-> [place |-> x[i], qword |-> x[i]]]
    <3>1. \A i \in 1 .. Len(fifo) : fifo[i].place = Up!From(madr10, i - 1)
      BY <2>1 DEF At
    <3>2. stored' = [i \in 1 .. Len(fifo) |-> [place |-> Up!From(madr10, i - 1),
                                               qword |-> fifo[i].place]]
      BY <1>5, <2>1
    <3> QED BY <2>2, <3>1, <3>2
  <2>5. Moves(Up!Place, Joined(x, y), y, [i \in 1 .. Len(x) |-> [place |-> x[i], qword |-> x[i]]])
    BY <1>4, <2>2, MovesOut
  <2> QED BY <2>3, <2>4, <2>5, UpMovesAre
<1>7. CASE Opens(fifo)
  <2>1. Up!Readable = 0 /\ Up!Left = 0 /\ ~tagMode /\ fifo # <<>>
    BY <1>1, <1>7, IopSideFacts
  <2>2. fifo' = Up!Drop(fifo, 1)
    <3>1. Up!IopTag
      <4>1. ASSUME Up!IopStore PROVE FALSE
        <5>1. Up!Left > 0
          BY <4>1 DEF Up!IopStore
        <5> QED BY <2>1, <5>1
      <4>2. ASSUME Up!IopStop PROVE FALSE
        <5>1. tagMode
          BY <4>2 DEF Up!IopStop
        <5> QED BY <2>1, <5>1
      <4>3. ASSUME Up!IopWait PROVE FALSE
        <5>1. Len(fifo) = Up!Readable
          BY <4>3 DEF Up!IopWait
        <5> QED BY <1>3, <2>1, <5>1, RunLength
      <4> QED BY <1>1, <4>1, <4>2, <4>3
    <3>2. Up!Readable + 1 = 1
      BY <2>1
    <3> QED BY <3>1, <3>2 DEF Up!IopTag
  <2>3. stored' = <<>>
    <3>1. 1 .. 0 = {}
      OBVIOUS
    <3> QED BY <1>5, <2>1, <3>1
  <2>4. Len(fifo) # 0 /\ 1 \in 1 .. Len(fifo)
    BY <1>3, <1>4, <2>1, RunLength
  <2> DEFINE g == Up!Drop(fifo, 1)
             d == Up!DataOf(fifo)
             e == Up!DataOf(g)
  <2>5. Run(g) /\ Len(g) = Len(fifo) - 1 /\ ~Opens(g)
    BY <1>3, <2>4, RunDrop
  <2>6. \A i \in 1 .. Len(fifo) - 1 : g[i] = fifo[i + 1]
    BY <1>3, <2>1, RunTail
  <2>7. /\ d \in Seq(Up!Place) /\ Len(d) = Len(fifo) - 1
        /\ \A i \in 1 .. Len(fifo) - 1 : d[i] = fifo[i + 1].place
    BY <1>3, <1>7, DataOfRun
  <2> HIDE DEF g, d
  <2>8. /\ e \in Seq(Up!Place) /\ Len(e) = Len(g)
        /\ \A i \in 1 .. Len(g) : e[i] = g[i].place
    BY <2>5, DataOfRun
  <2> HIDE DEF e
  <2>9. \A i \in 1 .. Len(d) : d[i] = e[i]
    BY <2>5, <2>6, <2>7, <2>8
  <2>10. d = e
    BY <2>5, <2>7, <2>8, <2>9, SeqEqual
  <2>11. UpFlow(fifo', source, chain) = UpFlow(fifo, source, chain)
    BY <2>2, <2>10 DEF UpFlow, g, d, e
  <2> QED BY <1>3, <2>3, <2>11, MovesNone, UpMovesAre
<1> QED BY <1>6, <1>7

LEMMA PlacedInvariant == UpInv /\ UpInv' /\ Placed /\ [Up!Next]_(Up!vars) => Placed'
<1> SUFFICES ASSUME UpInv, UpInv', Placed, [Up!Next]_(Up!vars) PROVE Placed'
  OBVIOUS
<1>1. CASE Up!dmaSIF1
  BY <1>1, PlacedDma
<1>2. CASE Up!psxDma10 \/ Up!sif1Interrupt \/ Up!EEsif1Interrupt
  <2>1. UNCHANGED <<fifo, source, chain, madr10>>
    BY <1>2 DEF Up!psxDma10, Up!sif1Interrupt, Up!EEsif1Interrupt, Up!eeVars, Up!iopVars
  <2> QED BY <2>1, PlacedKept
<1>3. CASE Up!EeSide
  <2>1. /\ pc = "ee" /\ eesifbusy /\ UNCHANGED <<eeSTR, Up!iopVars>>
        /\ Up!EeStop \/ Up!EeTag \/ Up!EeData
    BY <1>3 DEF Up!EeSide
  <2>2. CASE Up!EeStop
    <3>1. UNCHANGED <<fifo, source, chain, madr10>>
      BY <2>1, <2>2 DEF Up!EeStop, Up!iopVars
    <3> QED BY <3>1, PlacedKept
  <2> QED BY <2>1, <2>2, PlacedEe
<1>4. CASE Up!IopSide
  <2>1. /\ pc = "iop" /\ iopsifbusy /\ UNCHANGED <<Up!eeVars, iopTR>>
        /\ Up!IopStore \/ Up!IopStop \/ Up!IopTag \/ Up!IopWait
    BY <1>4 DEF Up!IopSide
  <2> QED BY <2>1, PlacedIop
<1>5. CASE UNCHANGED Up!vars
  <2>1. UNCHANGED <<fifo, source, chain, madr10>>
    BY <1>5 DEF Up!vars, Up!eeVars, Up!iopVars
  <2> QED BY <2>1, PlacedKept
<1> QED BY <1>1, <1>2, <1>3, <1>4, <1>5 DEF Up!Next, Up!SIF1Dma

(* SIF1 is a channel too: the IOP stores what the EE's packets hold, each     *)
(* qword once, in order and where the packet's tag says, however the packets  *)
(* are split over the tags of the EE's chain and over the turns of SIF1Dma.   *)
THEOREM Sif1IsAChannel == Up!Spec => Up!ImplementsChannel
<1>1. Up!Init => Up!Channel!Init
  <2> SUFFICES ASSUME Up!Init PROVE Up!Channel!Init
    OBVIOUS
  <2>1. fifo = <<>> /\ source = <<>> /\ chain = <<>> /\ stored = <<>>
    BY DEF Up!Init
  <2>2. UpInv
    BY UpInitInv
  <2>3. Run(<<>>) /\ Whole(<<>>)
    BY <2>1, <2>2 DEF UpInv, Owed
  <2>4. Up!DataOf(<<>>) = <<>> /\ Up!Behind(<<>>) = <<>>
    BY <2>3, DataOfRun, UpBehindIs
  <2>5. Joined(<<>>, <<>>) = <<>>
    BY <2>3, ConcatEmptySeq DEF Joined, Run
  <2>6. Up!InTransit = <<>>
    BY <2>1, <2>4, <2>5 DEF Up!InTransit, Joined
  <2> QED BY <2>1, <2>6 DEF Up!Channel!Init
<1>2. UpInv /\ UpInv' /\ Placed /\ [Up!Next]_(Up!vars)
        => [Up!Channel!Next]_<<Up!InTransit, stored>>
  <2> SUFFICES ASSUME UpInv, UpInv', Placed, [Up!Next]_(Up!vars)
               PROVE  Up!Channel!Next \/ UNCHANGED <<Up!InTransit, stored>>
    OBVIOUS
  <2>1. CASE Up!dmaSIF1 \/ Up!psxDma10 \/ Up!sif1Interrupt \/ Up!EEsif1Interrupt
    BY <2>1, UpStarts
  <2>2. CASE Up!EeSide
    BY <2>2, UpEeMoves
  <2>3. CASE Up!IopSide
    BY <2>3, UpIopMoves
  <2>4. CASE UNCHANGED Up!vars
    <3>1. fifo' = fifo /\ source' = source /\ chain' = chain /\ stored' = stored
      BY <2>4 DEF Up!vars, Up!eeVars
    <3>2. Up!InTransit' = Up!InTransit
      BY <3>1, UpTransit
    <3> QED BY <3>1, <3>2
  <2> QED BY <2>1, <2>2, <2>3, <2>4 DEF Up!Next, Up!SIF1Dma
<1>3. Up!Spec => [](UpInv)
  BY UpInvariant
<1> QED BY <1>1, <1>2, <1>3, PlacedInit, PlacedInvariant, PTL
    DEF Up!Spec, Up!ImplementsChannel, Up!Channel!Spec

-----------------------------------------------------------------------------
(* Both loops end.  Their only exit is a side that stops, so that this rests  *)
(* on what each turn leaves of the work of the side that sends, and on no     *)
(* turn being one in which nothing can be done.                               *)

(* One tag of q units less, among n.                                         *)
LEMMA OneTagLess ==
  ASSUME NEW q \in Nat, NEW n \in Nat, n # 0
  PROVE  q * n \in Nat /\ q * (n - 1) \in Nat /\ q * n = q * (n - 1) + q
OBVIOUS

(* And none less.                                                             *)
LEMMA TagsTimes ==
  ASSUME NEW q \in Nat, NEW n \in Nat
  PROVE  q * n \in Nat
OBVIOUS

(* What the IOP side of SIF0 has still to do in the loop: the tags with their *)
(* packets, the packet begun, and to stop.                                    *)
IopWork == (MaxQwc + 1) * Len(chain) + counter + (IF iopsifbusy THEN 1 ELSE 0)

(* Bounds the turns of SIF0Dma.                                               *)
SIF0Rank == 2 * IopWork + (IF pc = "ee" THEN 1 ELSE 0)

(* The turn that is next can be taken.                                        *)
SIF0GoesOn ==
  /\ SIF0Rank \in Nat
  /\ pc = "iop" => /\ iopsifbusy
                   /\ counter = 0 /\ ~stop => chain # <<>>
  /\ pc = "ee" => eesifbusy

(* Every turn leaves less to do.                                              *)
SIF0RunsDown == [][SIF0Dma => SIF0Rank' < SIF0Rank]_vars

(* It is a count.                                                             *)
LEMMA IopWorkTyped ==
  ASSUME TypeOK
  PROVE  /\ Len(chain) \in Nat /\ counter \in Nat /\ MaxQwc + 1 \in Nat
         /\ (MaxQwc + 1) * Len(chain) \in Nat /\ IopWork \in Nat
<1>1. Len(chain) \in Nat /\ MaxQwc \in Nat /\ counter \in 0 .. MaxQwc
  BY Sif0Assumption, LenProperties DEF TypeOK
<1>2. counter \in Nat /\ MaxQwc + 1 \in Nat
  BY <1>1
<1>3. (MaxQwc + 1) * Len(chain) \in Nat
  BY <1>1, <1>2, TagsTimes
<1>4. PICK a \in Nat : a = (MaxQwc + 1) * Len(chain)
  BY <1>3
<1>5. IopWork = a + counter + (IF iopsifbusy THEN 1 ELSE 0)
  BY <1>4, Zenon DEF IopWork
<1>6. IopWork \in Nat
  BY <1>2, <1>5
<1> QED BY <1>1, <1>2, <1>3, <1>6

(* A turn of the IOP side takes something from what it has to do.             *)
LEMMA IopWorks ==
  ASSUME SifInv, SifInv', IopSide
  PROVE  IopWork' \in Nat /\ IopWork' < IopWork
<1>0. TypeOK /\ TypeOK'
  BY DEF SifInv
<1>1. /\ Len(chain) \in Nat /\ counter \in Nat /\ MaxQwc + 1 \in Nat /\ MaxQwc \in Nat
      /\ (MaxQwc + 1) * Len(chain) \in Nat /\ iopsifbusy = TRUE
      /\ counter' \in 0 .. MaxQwc /\ fifo = <<>>
  BY <1>0, IopWorkTyped, IopKeeps, Sif0Assumption DEF TypeOK
<1>2. PICK a \in Nat : a = (MaxQwc + 1) * Len(chain)
  BY <1>1
<1>3. IopWork = a + counter + 1
  BY <1>1, <1>2, Zenon DEF IopWork
<1>n. counter \in Nat /\ MaxQwc \in Nat
  BY <1>1
<1>4. CASE IopStop
  <2>1. chain' = chain /\ counter' = counter /\ iopsifbusy' = FALSE
    BY <1>4 DEF IopStop
  <2>2. IopWork' = a + counter + 0
    BY <1>2, <2>1, Zenon DEF IopWork
  <2> QED BY <1>1, <1>3, <2>2
<1>5. CASE IopData
  <2> DEFINE n == Least(counter, FifoSize - Len(fifo))
  <2>1. chain' = chain /\ counter' = counter - n /\ iopsifbusy' = TRUE /\ counter > 0
    BY <1>1, <1>5 DEF IopData
  <2>2. n \in Nat /\ n > 0
    <3>1. Len(fifo) = 0 /\ FifoSize \in Nat /\ FifoSize # 0
      BY <1>1, Sif0Assumption, EmptySeq
    <3> QED BY <1>1, <2>1, <3>1 DEF Least
  <2> HIDE DEF n
  <2>3. PICK k \in Nat : k = counter' /\ k = counter - n
    BY <1>1, <2>1, <2>2
  <2>4. IopWork' = a + k + 1
    BY <1>2, <2>1, <2>3, Zenon DEF IopWork
  <2> QED BY <1>1, <1>3, <2>2, <2>3, <2>4
<1>6. CASE IopTag
  <2>1. chain' = Tail(chain) /\ iopsifbusy' = TRUE /\ counter = 0 /\ ~stop
    BY <1>1, <1>6 DEF IopTag
  <2>2. chain # <<>> /\ chain \in Seq(Sendable)
    BY <2>1, <1>0, IopKeeps DEF TypeOK
  <2>3. Len(chain') = Len(chain) - 1 /\ Len(chain) # 0
    BY <2>1, <2>2, HeadTailProperties, EmptySeq
  <2>4. /\ (MaxQwc + 1) * (Len(chain) - 1) \in Nat
        /\ (MaxQwc + 1) * Len(chain) = (MaxQwc + 1) * (Len(chain) - 1) + (MaxQwc + 1)
    BY <1>1, <2>3, OneTagLess
  <2>5. PICK b \in Nat : b = (MaxQwc + 1) * (Len(chain) - 1)
    BY <2>4
  <2>6. PICK k \in Nat : k = counter' /\ k <= MaxQwc
    BY <1>1
  <2>7. IopWork' = b + k + 1
    BY <2>1, <2>3, <2>5, <2>6, Zenon DEF IopWork
  <2>8. a = b + (MaxQwc + 1)
    BY <1>2, <2>4, <2>5, Zenon
  <2>9. counter = 0
    BY <2>1
  <2>10. MaxQwc \in Nat /\ k <= MaxQwc
    BY <1>n, <2>6
  <2>11. b + k + 1 < a + counter + 1 /\ b + k + 1 \in Nat
    BY <2>8, <2>9, <2>10
  <2> QED BY <1>3, <2>7, <2>11, Zenon
<1> QED BY <1>4, <1>5, <1>6 DEF IopSide

(* The loop of SIF0Dma, whatever is sent and however small the FIFO is, comes *)
(* to its end: each turn of a side leaves less to do, and none finds that it  *)
(* cannot do anything.                                                        *)
THEOREM SIF0DmaRunsDown ==
  ASSUME NoEnd
  PROVE  Spec => []SIF0GoesOn /\ SIF0RunsDown
<1>1. SifInv => SIF0GoesOn
  <2> SUFFICES ASSUME SifInv PROVE SIF0GoesOn
    OBVIOUS
  <2>1. IopWork \in Nat
    BY IopWorkTyped DEF SifInv
  <2>2. SIF0Rank \in Nat
    BY <2>1 DEF SIF0Rank
  <2>3. /\ pc = "iop" => iopsifbusy /\ (~stop => chain # <<>>)
        /\ pc = "ee" => eesifbusy
    BY DEF SifInv, InStep, IopChannel
  <2> QED BY <2>2, <2>3 DEF SIF0GoesOn
<1>2. SifInv /\ SifInv' /\ [Next]_vars => [SIF0Dma => SIF0Rank' < SIF0Rank]_vars
  <2> SUFFICES ASSUME SifInv, SifInv', SIF0Dma PROVE SIF0Rank' < SIF0Rank
    OBVIOUS
  <2>0. IopWork \in Nat
    BY IopWorkTyped DEF SifInv
  <2>1. CASE IopSide
    <3>1. IopWork' \in Nat /\ IopWork' < IopWork /\ pc = "iop" /\ pc' = "ee"
      BY <2>1, IopWorks, IopKeeps
    <3>2. PICK w \in Nat, v \in Nat : w = IopWork /\ v = IopWork' /\ v < w
      BY <2>0, <3>1
    <3>3. SIF0Rank = 2 * w + 0 /\ SIF0Rank' = 2 * v + 1
      BY <3>1, <3>2, Zenon DEF SIF0Rank
    <3>4. v < w
      BY <3>2
    <3>5. 2 * v + 1 < 2 * w + 0
      BY <3>4
    <3> QED BY <3>3, <3>5
  <2>2. CASE EeSide
    <3>1. /\ pc = "ee" /\ pc' # "ee"
          /\ UNCHANGED <<chain, counter, iopsifbusy>>
      BY <2>2 DEF EeSide, iopVars
    <3>2. IopWork' = IopWork
      BY <3>1 DEF IopWork
    <3>3. PICK w \in Nat : w = IopWork /\ w = IopWork'
      BY <2>0, <3>2
    <3>4. SIF0Rank = 2 * w + 1 /\ SIF0Rank' = 2 * w + 0
      BY <3>1, <3>3 DEF SIF0Rank
    <3> QED BY <3>4
  <2> QED BY <2>1, <2>2 DEF SIF0Dma
<1> QED BY <1>1, <1>2, SifInvariant, PTL DEF Spec, SIF0RunsDown

(* SIF1: the EE side sends, the tags of its chain with what they stand for,   *)
(* what is left of the last, and stops.                                       *)
EeWork == (MaxQwc + 2) * Len(chain) + Len(source) + (IF eesifbusy THEN 1 ELSE 0)

(* Bounds the turns of SIF1Dma.                                               *)
SIF1Rank == 2 * EeWork + (IF pc = "iop" THEN 1 ELSE 0)

(* The EE side always finds room, since the IOP side has emptied the FIFO or  *)
(* taken a tag out of it; and no packet is longer than it may be.             *)
UpRoom ==
  /\ pc = "ee" => Len(fifo) < FifoSize
  /\ counter \in 0 .. MaxQwc

(* The turn that is next can be taken, and if it is one of the EE side with   *)
(* something to send, a qword of it can be sent.                              *)
SIF1GoesOn ==
  /\ SIF1Rank \in Nat
  /\ pc = "ee" => /\ eesifbusy /\ Len(fifo) < FifoSize
                  /\ source = <<>> /\ ~end => chain # <<>>
  /\ pc = "iop" => iopsifbusy

(* Every turn leaves less to do.                                              *)
SIF1RunsDown == [][Up!SIF1Dma => SIF1Rank' < SIF1Rank]_(Up!vars)

(* A turn of the IOP side makes the room.                                     *)
LEMMA UpRoomIop ==
  ASSUME UpInv, UpRoom, Up!IopSide
  PROVE  UpRoom'
<1>1. /\ pc = "iop" /\ iopsifbusy /\ pc' = IF notDone' THEN "ee" ELSE "idle"
      /\ Up!IopStore \/ Up!IopStop \/ Up!IopTag \/ Up!IopWait
  BY DEF Up!IopSide
<1>2. /\ counter \in Nat /\ Len(fifo) \in Nat /\ FifoSize \in Nat /\ FifoSize # 0 /\ MaxQwc \in Nat
      /\ Run(fifo) /\ counter <= MaxQwc /\ Len(fifo) <= FifoSize
  BY <1>1, IopSideFacts, UpConstants DEF UpInv, Owed, UpRoom
<1>3. CASE Opens(fifo)
  <2>1. counter = 0 /\ Up!Readable = 0 /\ Up!Left = 0 /\ ~tagMode /\ fifo # <<>>
    BY <1>1, <1>3, IopSideFacts
  <2>2. Len(fifo) # 0
    BY <1>2, <2>1, RunLength
  <2>3. Up!IopTag
    <3>1. ~(Up!Left > 0)
      BY <2>1
    <3>2. ~Up!IopStore
      BY <3>1, Zenon DEF Up!IopStore
    <3>3. ~Up!IopStop /\ ~Up!IopWait
      BY <2>1, <2>2, Zenon DEF Up!IopStop, Up!IopWait
    <3> QED BY <1>1, <3>2, <3>3
  <2>4. counter' = fifo[0 + 1].tag.len /\ fifo' = Up!Drop(fifo, 0 + 1)
    BY <2>1, <2>3 DEF Up!IopTag
  <2>5. 0 + 1 = 1 /\ 1 \in 1 .. Len(fifo)
    BY <1>2, <2>2
  <2>6. fifo[1].tag \in Up!Packet
    BY <1>2, <2>5, RunItem
  <2>7. counter' \in 0 .. MaxQwc
    BY <2>4, <2>5, <2>6 DEF Up!Packet
  <2>8. Len(fifo') = Len(fifo) - 1
    BY <1>2, <2>4, <2>5, RunDrop
  <2>9. Len(fifo') < FifoSize
    BY <1>2, <2>8
  <2> QED BY <2>7, <2>9 DEF UpRoom
<1>4. CASE ~Opens(fifo)
  <2>1. /\ Len(fifo) <= counter /\ Up!Readable = Len(fifo) /\ Up!Left = counter - Len(fifo)
        /\ Up!Drop(fifo, Up!Readable) = <<>>
    BY <1>1, <1>4, IopSideFacts
  <2>2. ~Up!IopTag
    BY <1>2, <2>1 DEF Up!IopTag
  <2>3. fifo' = <<>> /\ (counter' = 0 \/ counter' = counter - Len(fifo))
    BY <1>1, <2>1, <2>2 DEF Up!IopStore, Up!IopStop, Up!IopWait
  <2>4. Len(fifo') = 0
    BY <2>3, EmptySeq
  <2>5. counter' \in 0 .. MaxQwc
    BY <1>2, <2>1, <2>3
  <2> QED BY <1>2, <2>4, <2>5 DEF UpRoom
<1> QED BY <1>3, <1>4

(* So there is always room.                                                   *)
LEMMA UpRoomInvariant == Up!Spec => []UpRoom
<1>1. Up!Init => UpRoom
  BY UpConstants DEF Up!Init, UpRoom
<1>2. UpInv /\ UpRoom /\ [Up!Next]_(Up!vars) => UpRoom'
  <2> SUFFICES ASSUME UpInv, UpRoom, [Up!Next]_(Up!vars) PROVE UpRoom'
    OBVIOUS
  <2>1. CASE Up!dmaSIF1 \/ Up!psxDma10
    <3>1. pc = "idle" /\ UNCHANGED <<fifo, counter>>
      BY <2>1 DEF Up!dmaSIF1, Up!psxDma10, Up!iopVars
    <3>2. Len(fifo) = 0
      BY <3>1, EmptySeq DEF UpInv, UpLoop
    <3> QED BY <3>1, <3>2, UpConstants DEF UpRoom
  <2>2. CASE Up!EeSide
    BY <2>2 DEF Up!EeSide, Up!iopVars, UpRoom
  <2>3. CASE Up!IopSide
    BY <2>3, UpRoomIop
  <2>4. CASE Up!sif1Interrupt \/ Up!EEsif1Interrupt \/ UNCHANGED Up!vars
    BY <2>4 DEF Up!sif1Interrupt, Up!EEsif1Interrupt, Up!vars, Up!iopVars, UpRoom
  <2> QED BY <2>1, <2>2, <2>3, <2>4 DEF Up!Next, Up!SIF1Dma
<1> QED BY <1>1, <1>2, UpInvariant, PTL DEF Up!Spec

(* This is a count too.                                                       *)
LEMMA EeWorkTyped ==
  ASSUME UpInv
  PROVE  /\ Len(chain) \in Nat /\ Len(source) \in Nat /\ MaxQwc + 2 \in Nat /\ MaxQwc \in Nat
         /\ (MaxQwc + 2) * Len(chain) \in Nat /\ EeWork \in Nat
<1>1. Len(chain) \in Nat /\ MaxQwc \in Nat /\ Len(source) \in Nat
  BY UpConstants, RunLength, LenProperties DEF UpInv, Owed, Whole
<1>2. MaxQwc + 2 \in Nat
  BY <1>1
<1>3. (MaxQwc + 2) * Len(chain) \in Nat
  BY <1>1, <1>2, TagsTimes
<1>4. PICK a \in Nat, n \in Nat : a = (MaxQwc + 2) * Len(chain) /\ n = Len(source)
  BY <1>1, <1>3
<1>5. EeWork = a + n + (IF eesifbusy THEN 1 ELSE 0)
  BY <1>4, Zenon DEF EeWork
<1>6. EeWork \in Nat
  BY <1>5
<1> QED BY <1>1, <1>2, <1>3, <1>6

(* A turn of the EE side takes something from what it has to do.              *)
LEMMA EeWorks ==
  ASSUME UpInv, UpRoom, Up!EeSide
  PROVE  EeWork' \in Nat /\ EeWork' < EeWork
<1>1. /\ pc = "ee" /\ eesifbusy /\ Len(fifo) < FifoSize /\ counter \in 0 .. MaxQwc
      /\ (end <=> chain = <<>>) /\ ~Opens(fifo)
      /\ Run(fifo) /\ Run(source) /\ Whole(chain)
  BY DEF Up!EeSide, UpRoom, UpInv, UpChannels, Owed
<1>2. /\ Len(source) \in Nat /\ Len(chain) \in Nat /\ Len(fifo) \in Nat /\ FifoSize \in Nat
      /\ MaxQwc \in Nat /\ MaxQwc + 2 \in Nat /\ (MaxQwc + 2) * Len(chain) \in Nat
  BY <1>1, EeWorkTyped, RunLength, UpConstants
<1>3. PICK a \in Nat, n \in Nat : a = (MaxQwc + 2) * Len(chain) /\ n = Len(source)
  BY <1>2
<1>4. EeWork = a + n + 1
  BY <1>1, <1>3, Zenon DEF EeWork
<1>5. CASE Up!EeStop
  <2>1. UNCHANGED <<chain, source>> /\ eesifbusy' = FALSE
    BY <1>5 DEF Up!EeStop
  <2>2. EeWork' = a + n + 0
    BY <1>3, <2>1, Zenon DEF EeWork
  <2>3. a + n + 0 < a + n + 1 /\ a + n + 0 \in Nat
    OBVIOUS
  <2> QED BY <1>4, <2>2, <2>3, Zenon
<1>6. CASE Up!EeData
  <2> DEFINE d == Up!Least(Len(source), FifoSize - Len(fifo))
  <2>1. source # <<>> /\ source' = Up!Drop(source, d) /\ UNCHANGED <<chain, eesifbusy>>
    BY <1>6 DEF Up!EeData
  <2>2. Len(source) # 0
    BY <1>1, <2>1, RunLength
  <2>3. d \in 1 .. Len(source)
    BY <1>1, <1>2, <2>2 DEF Up!Least
  <2> HIDE DEF d
  <2>4. Len(source') = Len(source) - d
    BY <1>1, <2>1, <2>3, RunDrop
  <2>5. PICK m \in Nat : m = Len(source') /\ m < n
    <3>1. n = Len(source) /\ n \in Nat
      BY <1>3
    <3> QED BY <2>3, <2>4, <3>1
  <2>6. EeWork' = a + m + 1
    BY <1>1, <1>3, <2>1, <2>5, Zenon DEF EeWork
  <2>7. m < n
    BY <2>5
  <2>8. a + m + 1 < a + n + 1 /\ a + m + 1 \in Nat
    BY <2>7
  <2> QED BY <1>4, <2>6, <2>8, Zenon
<1>7. CASE Up!EeTag
  <2>1. /\ source = <<>> /\ ~end /\ source' = Head(chain) /\ chain' = Tail(chain)
        /\ UNCHANGED eesifbusy
    BY <1>7 DEF Up!EeTag
  <2>2. chain # <<>> /\ ~Opens(source)
    BY <1>1, <2>1 DEF Opens
  <2>3. /\ Run(Head(chain)) /\ Head(chain) # <<>> /\ Head(chain) = chain[1]
        /\ Len(Tail(chain)) = Len(chain) - 1
        /\ IF Opens(chain[1]) THEN /\ Piece(chain, 1) = <<>>
                                   /\ Len(chain[1]) + Rest(chain, 2) = chain[1][1].tag.len + 1
                              ELSE Piece(chain, 1) = chain[1]
    BY <1>1, <2>2, WholeTail
  <2>4. Len(chain) # 0 /\ Len(Head(chain)) \in Nat /\ Len(Head(chain)) # 0 /\ n = 0
    BY <1>1, <1>2, <1>3, <2>1, <2>2, <2>3, RunLength, EmptySeq DEF Whole
  <2>5. Len(Head(chain)) <= MaxQwc + 1
    <3>1. CASE Opens(chain[1])
      <4>1. 1 \in 1 .. Len(chain[1])
        BY <2>3, <2>4
      <4>2. chain[1][1].tag \in Up!Packet /\ Run(chain[1])
        BY <2>3, <4>1, RunItem
      <4>3. chain[1][1].tag.len \in 0 .. MaxQwc
        BY <4>2 DEF Up!Packet
      <4>4. Len(chain[1]) + Rest(chain, 2) = chain[1][1].tag.len + 1 /\ Len(chain[1]) \in Nat
        BY <2>3, <2>4, <3>1
      <4>5. Rest(chain, 2) \in Nat
        BY <1>1, PieceIsRun
      <4>6. Len(chain[1]) <= MaxQwc + 1
        BY <1>2, <4>3, <4>4, <4>5, SMTT(30)
      <4> QED BY <2>3, <4>6
    <3>2. CASE ~Opens(chain[1])
      <4>1. Rest(chain, 1) = Len(Head(chain))
        BY <2>3, <3>2 DEF Rest
      <4>2. counter = Len(fifo) + Len(source) + Rest(chain, 1)
        BY <1>1, <2>2 DEF UpInv, Owed
      <4> QED BY <1>1, <1>2, <2>4, <4>1, <4>2
    <3> QED BY <3>1, <3>2
  <2>6. /\ (MaxQwc + 2) * (Len(chain) - 1) \in Nat
        /\ (MaxQwc + 2) * Len(chain) = (MaxQwc + 2) * (Len(chain) - 1) + (MaxQwc + 2)
    BY <1>2, <2>4, OneTagLess
  <2>7. PICK b \in Nat : b = (MaxQwc + 2) * (Len(chain) - 1)
    BY <2>6
  <2>8. PICK m \in Nat : m = Len(source') /\ m <= MaxQwc + 1
    BY <2>1, <2>4, <2>5
  <2>9. EeWork' = b + m + 1
    BY <1>1, <2>1, <2>3, <2>7, <2>8, Zenon DEF EeWork
  <2>10. a = b + (MaxQwc + 2)
    BY <1>3, <2>6, <2>7, Zenon
  <2>11. MaxQwc \in Nat /\ m <= MaxQwc + 1 /\ n = 0
    BY <1>2, <2>4, <2>8
  <2>12. b + m + 1 < a + n + 1 /\ b + m + 1 \in Nat
    BY <2>10, <2>11
  <2> QED BY <1>4, <2>9, <2>12, Zenon
<1> QED BY <1>5, <1>6, <1>7 DEF Up!EeSide

(* The loop of SIF1Dma comes to its end too, whatever the packets are and     *)
(* over how many tags they are split: each turn leaves less to do, and none   *)
(* of the EE side finds the FIFO full.                                        *)
THEOREM SIF1DmaRunsDown == Up!Spec => []SIF1GoesOn /\ SIF1RunsDown
<1>1. UpInv /\ UpRoom => SIF1GoesOn
  <2> SUFFICES ASSUME UpInv, UpRoom PROVE SIF1GoesOn
    OBVIOUS
  <2>1. EeWork \in Nat
    BY EeWorkTyped
  <2>2. SIF1Rank \in Nat
    BY <2>1 DEF SIF1Rank
  <2> QED BY <2>2 DEF SIF1GoesOn, UpInv, UpChannels, UpLoop, UpRoom
<1>2. UpInv /\ UpRoom => [Up!SIF1Dma => SIF1Rank' < SIF1Rank]_(Up!vars)
  <2> SUFFICES ASSUME UpInv, UpRoom, Up!SIF1Dma PROVE SIF1Rank' < SIF1Rank
    OBVIOUS
  <2>0. EeWork \in Nat
    BY EeWorkTyped
  <2>1. CASE Up!EeSide
    <3>1. EeWork' \in Nat /\ EeWork' < EeWork /\ pc = "ee" /\ pc' = "iop"
      BY <2>1, EeWorks DEF Up!EeSide
    <3>2. PICK w \in Nat, v \in Nat : w = EeWork /\ v = EeWork' /\ v < w
      BY <2>0, <3>1
    <3>3. SIF1Rank = 2 * w + 0 /\ SIF1Rank' = 2 * v + 1
      BY <3>1, <3>2, Zenon DEF SIF1Rank
    <3>4. v < w
      BY <3>2
    <3>5. 2 * v + 1 < 2 * w + 0
      BY <3>4
    <3> QED BY <3>3, <3>5
  <2>2. CASE Up!IopSide
    <3>1. pc = "iop" /\ pc' # "iop" /\ UNCHANGED <<chain, source, eesifbusy>>
      BY <2>2 DEF Up!IopSide, Up!eeVars
    <3>2. EeWork' = EeWork
      BY <3>1 DEF EeWork
    <3>3. PICK w \in Nat : w = EeWork /\ w = EeWork'
      BY <2>0, <3>2
    <3>4. SIF1Rank = 2 * w + 1 /\ SIF1Rank' = 2 * w + 0
      BY <3>1, <3>3 DEF SIF1Rank
    <3> QED BY <3>4
  <2> QED BY <2>1, <2>2 DEF Up!SIF1Dma
<1> QED BY <1>1, <1>2, UpInvariant, UpRoomInvariant, PTL DEF Up!Spec, SIF1RunsDown
==============================================================================
