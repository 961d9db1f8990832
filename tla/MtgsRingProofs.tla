---------------------------- MODULE MtgsRingProofs ----------------------------
(***************************************************************************)
(* Proofs about MtgsRing, for a buffer and packets of every size.          *)
(***************************************************************************)
EXTENDS MtgsRing, FiniteSetTheorems, SequenceTheorems, TLAPS

(* A step that leaves the reader, the buffer, the queue and its end alone  *)
(* leaves the layout as it is.                                             *)
LEMMA LayoutFrame ==
  ASSUME LayoutInv, UNCHANGED <<m_RingPos, m_RingBuffer, queue>>, EndPos' = EndPos
  PROVE  LayoutInv'
BY DEF LayoutInv, Chained, AllInside, Inside, AllInOrder, InOrder,
       AllStored, Stored, NextPos, After, Wrap, Sent, Tag, Qword

(* The elements of the queue and their successors, as records of numbers.  *)
LEMMA QueueElement ==
  ASSUME TypeOK, NEW i \in 1 .. Len(queue)
  PROVE  /\ queue[i] \in QueuedPacket
         /\ queue[i].pos \in 0 .. RingBufferSize - 1
         /\ queue[i].len \in 0 .. MaxPacketSize
<1>1. queue \in Seq(QueuedPacket)
  BY DEF TypeOK
<1>2. queue[i] \in QueuedPacket
  BY <1>1
<1> QED BY <1>2 DEF QueuedPacket, Slot

(* Passing the oldest packet: the layout holds for the rest of the queue.  *)
LEMMA Pop ==
  ASSUME TypeOK, LayoutInv, Len(queue) > 0,
         m_RingPos' = NextPos(queue[1]), queue' = Tail(queue),
         UNCHANGED <<m_WritePos, m_RingBuffer>>, EndPos' = EndPos
  PROVE  /\ LayoutInv'
         /\ m_RingPos' \in Slot
         /\ \A n \in 1 .. RingBufferSize : 
               eePc # "wrap_rewind" /\ RoomFor(n) => RoomFor(n)'
         /\ eePc # "wrap_rewind" /\ 0 < m_RingPos /\ m_RingPos <= m_WritePos 
               => 0 < m_RingPos' /\ m_RingPos' <= m_WritePos'
<1> USE RingAssumption
<1> DEFINE n == Len(queue)
<1>0. /\ n \in Nat /\ n >= 1
      /\ Len(queue') = n - 1
      /\ \A i \in 1 .. n - 1 : queue'[i] = queue[i + 1]
      /\ m_RingPos \in Slot /\ m_WritePos \in Slot /\ EndPos \in Slot
      /\ RingBufferSize \in Nat /\ queue' \in Seq(QueuedPacket)
  <2>1. /\ queue \in Seq(QueuedPacket)
        /\ m_RingPos \in Slot /\ m_WritePos \in Slot
    BY DEF TypeOK
  <2>2. EndPos \in Slot /\ RingBufferSize \in Nat
    BY <2>1 DEF EndPos, Slot
  <2>3. n \in Nat /\ n >= 1
    BY <2>1
  <2>4. /\ queue' \in Seq(QueuedPacket)
        /\ Len(queue') = n - 1
        /\ \A i \in 1 .. n - 1 : queue'[i] = queue[i + 1]
    BY <2>1, <2>3
  <2> QED BY <2>1, <2>2, <2>3, <2>4
<1>1. \A i \in 1 .. n : /\ queue[i] \in QueuedPacket
                        /\ queue[i].pos \in 0 .. RingBufferSize - 1
                        /\ queue[i].len \in 0 .. MaxPacketSize
  BY QueueElement
<1>2. /\ queue[1].pos = m_RingPos
      /\ Inside(queue[1])
  BY <1>0 DEF LayoutInv, Chained, AllInside
<1>3. After(queue[1]) \in 1 .. RingBufferSize
  BY <1>0, <1>1, <1>2 DEF Inside, After, Slot
<1>4. m_RingPos' \in Slot
  BY <1>0, <1>3 DEF NextPos, Wrap, Slot
<1>5. \A i \in 2 .. n : InOrder(queue[1], queue[i]) /\ Inside(queue[i])
  BY <1>0 DEF LayoutInv, AllInOrder, AllInside
<1>6. Chained'
  <2>1. CASE n = 1
    <3>1. m_RingPos' = EndPos'
      BY <2>1, <1>0 DEF LayoutInv, Chained
    <3> QED BY <2>1, <3>1, <1>0 DEF Chained
  <2>2. CASE n > 1
    <3>1. queue'[1] = queue[2] /\ queue'[Len(queue')] = queue[n]
      BY <2>2, <1>0
    <3>2. queue[2].pos = m_RingPos' /\ NextPos(queue[n]) = EndPos
      BY <2>2, <1>0 DEF LayoutInv, Chained
    <3>3. \A i \in 1 .. n - 2 : queue'[i + 1].pos = NextPos(queue'[i])
      BY <2>2, <1>0 DEF LayoutInv, Chained
    <3>4. /\ Len(queue') > 0
          /\ queue'[1].pos = m_RingPos'
          /\ NextPos(queue'[Len(queue')]) = EndPos'
          /\ \A i \in 1 .. Len(queue') - 1 : queue'[i + 1].pos = NextPos(queue'[i])
      BY <2>2, <3>1, <3>2, <3>3, <1>0
    <3> QED BY <3>4 DEF Chained, NextPos, Wrap, After
  <2> QED BY <2>1, <2>2, <1>0
<1>a. /\ m_RingPos \in Int /\ m_RingPos' \in Int /\ m_WritePos \in Int
      /\ EndPos \in Int /\ EndPos < RingBufferSize /\ RingBufferSize \in Int
      /\ m_RingPos >= 0 /\ m_RingPos' >= 0 /\ EndPos >= 0
  BY <1>0, <1>4 DEF Slot
<1>b. /\ \A i \in 1 .. n : /\ queue[i].pos \in Int /\ queue[i].pos >= 0
                            /\ queue[i].pos < RingBufferSize
                            /\ queue[i].len \in Int /\ queue[i].len >= 0
  BY <1>0, <1>1 DEF Slot
<1>7. \/ m_RingPos < m_RingPos' /\ m_RingPos' <= After(queue[1])
         /\ (m_RingPos <= EndPos => m_RingPos' <= EndPos)
      \/ /\ m_RingPos' = 0 /\ EndPos < m_RingPos 
         /\ queue[1].cmd = "RESTART" \/ After(queue[1]) = RingBufferSize
  <2>1. /\ queue[1].pos \in Int /\ queue[1].len \in Int /\ queue[1].len >= 0
    BY <1>0, <1>b
  <2>2. m_RingPos' = IF queue[1].cmd = "RESTART" \/ After(queue[1]) = RingBufferSize
                     THEN 0 ELSE After(queue[1])
    BY <1>0, <1>3 DEF NextPos, Wrap
  <2> HIDE DEF n
  <2> QED BY <2>1, <2>2, <1>a, <1>2 DEF Inside, After
<1>c. \A i \in 2 .. n :
        /\ After(queue[i]) \in Int /\ After(queue[1]) \in Int
        /\ After(queue[i]) > queue[i].pos
        /\ queue[i].pos \in Int /\ queue[i].pos >= 0 /\ queue[i].pos < RingBufferSize
  BY <1>0, <1>b, <1>3 DEF After
<1>d. \A i \in 2 .. n : \/ After(queue[1]) <= queue[i].pos /\ queue[1].cmd # "RESTART"
                        \/ queue[i].pos < m_RingPos
  BY <1>5 DEF InOrder
<1>8. AllInside'
  <2> SUFFICES ASSUME NEW i \in 2 .. n
               PROVE  Inside(queue[i - 1])'
    BY <1>0 DEF AllInside
  <2>1. queue'[i - 1] = queue[i]
    BY <1>0
  <2>2. \/ /\ EndPos < m_RingPos /\ m_RingPos <= queue[i].pos
           /\ After(queue[i]) <= RingBufferSize
        \/ /\ After(queue[i]) <= EndPos /\ queue[i].cmd # "RESTART"
           /\ m_RingPos <= EndPos => m_RingPos <= queue[i].pos
    BY <1>5 DEF Inside
  <2>3. \/ /\ EndPos < m_RingPos' /\ m_RingPos' <= queue[i].pos
           /\ After(queue[i]) <= RingBufferSize
        \/ /\ After(queue[i]) <= EndPos /\ queue[i].cmd # "RESTART"
           /\ m_RingPos' <= EndPos => m_RingPos' <= queue[i].pos
    BY <2>2, <1>a, <1>c, <1>d, <1>7
  <2> QED BY <2>1, <2>3 DEF Inside, After
<1>9. AllInOrder'
  <2> SUFFICES ASSUME NEW i \in 2 .. n, NEW j \in 2 .. n, i < j
               PROVE  InOrder(queue[i - 1], queue[j - 1])'
    BY <1>0 DEF AllInOrder
  <2>1. queue'[i - 1] = queue[i] /\ queue'[j - 1] = queue[j]
    BY <1>0
  <2>2. \/ After(queue[i]) <= queue[j].pos /\ queue[i].cmd # "RESTART"
        \/ queue[j].pos < m_RingPos /\ m_RingPos <= queue[i].pos
    BY <1>0 DEF LayoutInv, AllInOrder, InOrder
  <2>3. \/ After(queue[i]) <= queue[j].pos /\ queue[i].cmd # "RESTART"
        \/ queue[j].pos < m_RingPos' /\ m_RingPos' <= queue[i].pos
    <3>1. CASE queue[j].pos < m_RingPos /\ m_RingPos <= queue[i].pos
      <4>1. After(queue[1]) <= queue[i].pos /\ queue[1].cmd # "RESTART"
        BY <3>1, <1>a, <1>c, <1>d
      <4>2. m_RingPos < m_RingPos' /\ m_RingPos' <= After(queue[1])
        BY <4>1, <1>a, <1>c, <1>7
      <4> QED BY <3>1, <4>1, <4>2, <1>a, <1>c
    <3> QED BY <3>1, <2>2
  <2> QED BY <2>1, <2>3 DEF InOrder, After
<1>10. AllStored'
  <2> SUFFICES ASSUME NEW i \in 2 .. n
               PROVE  Stored(queue[i - 1])'
    BY <1>0 DEF AllStored
  <2>1. queue'[i - 1] = queue[i] /\ Stored(queue[i])
    BY <1>0 DEF LayoutInv, AllStored
  <2> QED BY <2>1 DEF Stored, Sent, Tag, Qword
<1>11. ASSUME eePc # "wrap_rewind"
       PROVE  /\ m_RingPos <= m_WritePos =>
                   m_RingPos <= m_RingPos' /\ m_RingPos' <= m_WritePos
              /\ m_WritePos < m_RingPos =>
                   m_RingPos' = 0 \/ m_RingPos <= m_RingPos'
  BY <1>11, <1>a, <1>7 DEF EndPos
<1>12. \A k \in 1 .. RingBufferSize :
          eePc # "wrap_rewind" /\ RoomFor(k) => RoomFor(k)'
  BY <1>11, <1>0, <1>4 DEF RoomFor, Slot
<1>13. eePc # "wrap_rewind" /\ 0 < m_RingPos /\ m_RingPos <= m_WritePos
          => 0 < m_RingPos' /\ m_RingPos' <= m_WritePos'
  BY <1>11, <1>0, <1>4 DEF Slot
<1> QED BY <1>4, <1>6, <1>8, <1>9, <1>10, <1>12, <1>13 DEF LayoutInv

(* Publishing a packet at m_WritePos where there is room for it, or the    *)
(* RESTART before a rewind, extends the layout by that packet.             *)
LEMMA Push ==
  ASSUME TypeOK, LayoutInv, eePc # "wrap_rewind",
         NEW p \in QueuedPacket, p.pos = m_WritePos, RoomFor(p.len + 1), Stored(p),
         p.cmd = "RESTART" => 0 < m_RingPos /\ m_RingPos <= m_WritePos,
         queue' = Append(queue, p), EndPos' = NextPos(p),
         UNCHANGED <<m_RingPos, m_RingBuffer>>
  PROVE  LayoutInv'
<1> USE RingAssumption
<1> DEFINE n == Len(queue)
<1>0. /\ n \in Nat /\ Len(queue') = n + 1
      /\ \A i \in 1 .. n : queue'[i] = queue[i]
      /\ queue'[n + 1] = p
  BY DEF TypeOK
<1>1. \A i \in 1 .. n : /\ queue[i].pos \in Int /\ queue[i].pos >= 0
                        /\ After(queue[i]) \in Int /\ After(queue[i]) > queue[i].pos
  <2> SUFFICES ASSUME NEW i \in 1 .. n
               PROVE  /\ queue[i].pos \in Int /\ queue[i].pos >= 0
                      /\ After(queue[i]) \in Int /\ After(queue[i]) > queue[i].pos
    OBVIOUS
  <2>1. /\ queue[i].pos \in 0 .. RingBufferSize - 1
        /\ queue[i].len \in 0 .. MaxPacketSize
    BY QueueElement
  <2> QED BY <2>1 DEF After
<1>2. /\ p.pos \in Int /\ p.pos >= 0 /\ p.pos < RingBufferSize
      /\ p.len \in Int /\ p.len >= 0
      /\ After(p) \in Int /\ After(p) = p.pos + p.len + 1
      /\ m_RingPos \in Int /\ m_RingPos >= 0 /\ m_RingPos < RingBufferSize
      /\ m_WritePos \in Int /\ EndPos = m_WritePos /\ RingBufferSize \in Int
  BY DEF QueuedPacket, Slot, After, TypeOK, EndPos
<1>3. \/ After(p) = RingBufferSize /\ 0 < m_RingPos /\ m_RingPos <= m_WritePos
      \/ After(p) < RingBufferSize /\ (m_RingPos <= m_WritePos \/ After(p) < m_RingPos)
  BY <1>2 DEF RoomFor
<1>4. EndPos' = IF p.cmd = "RESTART" \/ After(p) = RingBufferSize THEN 0 ELSE After(p)
  BY <1>2, <1>3 DEF NextPos, Wrap
<1>5. \A i \in 1 .. n :
        \/ /\ m_WritePos < m_RingPos /\ m_RingPos <= queue[i].pos
           /\ After(queue[i]) <= RingBufferSize
        \/ /\ After(queue[i]) <= m_WritePos /\ queue[i].cmd # "RESTART"
           /\ m_RingPos <= m_WritePos => m_RingPos <= queue[i].pos
  BY <1>2 DEF LayoutInv, AllInside, Inside
<1>6. Chained'
  <2>1. /\ n > 0 => queue[1].pos = m_RingPos /\ NextPos(queue[n]) = p.pos
        /\ n = 0 => p.pos = m_RingPos
    BY <1>0, <1>2 DEF LayoutInv, Chained
  <2>2. \A i \in 1 .. n - 1 : queue[i + 1].pos = NextPos(queue[i])
    BY DEF LayoutInv, Chained
  <2>3. /\ Len(queue') > 0 /\ queue'[1].pos = m_RingPos'
        /\ NextPos(queue'[Len(queue')]) = EndPos'
    BY <1>0, <2>1
  <2>4. \A i \in 1 .. Len(queue') - 1 : queue'[i + 1].pos = NextPos(queue'[i])
    BY <1>0, <2>1, <2>2
  <2> QED BY <2>3, <2>4 DEF Chained, NextPos, Wrap, After
<1>7. AllInside'
  <2> SUFFICES ASSUME NEW i \in 1 .. n + 1
               PROVE  Inside(queue[i])'
    BY <1>0 DEF AllInside
  <2>1. CASE i = n + 1
    <3>1. \/ EndPos' < m_RingPos /\ m_RingPos <= p.pos /\ After(p) <= RingBufferSize
          \/ /\ After(p) <= EndPos' /\ p.cmd # "RESTART"
             /\ m_RingPos <= EndPos' => m_RingPos <= p.pos
      BY <1>2, <1>3, <1>4
    <3> QED BY <3>1, <2>1, <1>0 DEF Inside, After
  <2>2. CASE i \in 1 .. n
    <3>1. \/ /\ EndPos' < m_RingPos /\ m_RingPos <= queue[i].pos
             /\ After(queue[i]) <= RingBufferSize
          \/ /\ After(queue[i]) <= EndPos' /\ queue[i].cmd # "RESTART"
             /\ m_RingPos <= EndPos' => m_RingPos <= queue[i].pos
      <4>1. /\ queue[i].pos \in Int /\ queue[i].pos >= 0
            /\ After(queue[i]) \in Int /\ After(queue[i]) > queue[i].pos
        BY <2>2, <1>1
      <4>2. \/ /\ m_WritePos < m_RingPos /\ m_RingPos <= queue[i].pos
               /\ After(queue[i]) <= RingBufferSize
            \/ /\ After(queue[i]) <= m_WritePos /\ queue[i].cmd # "RESTART"
               /\ m_RingPos <= m_WritePos => m_RingPos <= queue[i].pos
        BY <2>2, <1>5
      <4>3. CASE EndPos' = 0
        <5>1. 0 < m_RingPos /\ m_RingPos <= m_WritePos
          BY <4>3, <1>2, <1>3, <1>4
        <5> QED BY <4>1, <4>2, <4>3, <5>1, <1>2
      <4>4. CASE EndPos' = After(p) /\ (m_RingPos <= m_WritePos \/ After(p) < m_RingPos)
        BY <4>1, <4>2, <4>4, <1>2
      <4> QED BY <4>3, <4>4, <1>2, <1>3, <1>4
    <3> QED BY <3>1, <2>2, <1>0 DEF Inside, After
  <2> QED BY <2>1, <2>2, <1>0
<1>8. AllInOrder'
  <2> SUFFICES ASSUME NEW i \in 1 .. n + 1, NEW j \in 1 .. n + 1, i < j
               PROVE  InOrder(queue[i], queue[j])'
    BY <1>0 DEF AllInOrder
  <2>1. i \in 1 .. n /\ queue'[i] = queue[i] /\ queue[i].pos \in Int
    BY <1>0, <1>1
  <2>2. CASE j = n + 1
    <3>1. \/ After(queue[i]) <= p.pos /\ queue[i].cmd # "RESTART"
          \/ p.pos < m_RingPos /\ m_RingPos <= queue[i].pos
      BY <2>1, <1>1, <1>2, <1>5
    <3> QED BY <3>1, <2>1, <2>2, <1>0 DEF InOrder, After
  <2>3. CASE j \in 1 .. n
    <3>1. queue'[j] = queue[j] /\ InOrder(queue[i], queue[j])
      BY <2>1, <2>3, <1>0 DEF LayoutInv, AllInOrder
    <3> QED BY <3>1, <2>1 DEF InOrder, After
  <2> QED BY <2>2, <2>3, <1>0
<1>9. AllStored'
  <2> SUFFICES ASSUME NEW i \in 1 .. n + 1
               PROVE  Stored(queue[i])'
    BY <1>0 DEF AllStored
  <2>1. CASE i = n + 1
    BY <2>1, <1>0 DEF Stored, Sent, Tag, Qword
  <2>2. CASE i \in 1 .. n
    <3>1. queue'[i] = queue[i] /\ Stored(queue[i])
      BY <2>2, <1>0 DEF LayoutInv, AllStored
    <3> QED BY <3>1 DEF Stored, Sent, Tag, Qword
  <2> QED BY <2>1, <2>2, <1>0
<1> QED BY <1>6, <1>7, <1>8, <1>9 DEF LayoutInv

(* Where the stalls found room nothing is queued. *)
LEMMA OverwriteFree ==
  ASSUME TypeOK, LayoutInv, eePc # "wrap_rewind",
         NEW n \in 1 .. RingBufferSize, RoomFor(n)
  PROVE  \A i \in 1 .. Len(queue) :
           \A s \in SlotsOf(queue[i]) :
             s \in Slot /\ (s < m_WritePos \/ s >= m_WritePos + n)
<1> USE RingAssumption
<1>1. m_WritePos \in Int /\ m_RingPos \in Int /\ EndPos = m_WritePos /\ m_RingPos >= 0
  BY DEF TypeOK, Slot, EndPos
<1>2. ASSUME NEW i \in 1 .. Len(queue), NEW s \in SlotsOf(queue[i])
      PROVE  s \in Slot /\ (s < m_WritePos \/ s >= m_WritePos + n)
  <2>1. /\ queue[i].pos \in 0 .. RingBufferSize - 1
        /\ queue[i].len \in 0 .. MaxPacketSize
    BY QueueElement
  <2>2. \/ /\ m_WritePos < m_RingPos /\ m_RingPos <= queue[i].pos
           /\ After(queue[i]) <= RingBufferSize
        \/ After(queue[i]) <= m_WritePos
    BY <1>1 DEF LayoutInv, AllInside, Inside
  <2>3. s \in Int /\ queue[i].pos <= s /\ s < After(queue[i])
    BY <1>2, <2>1 DEF SlotsOf, After
  <2>4. After(queue[i]) \in Int /\ m_WritePos < RingBufferSize
    BY <2>1, <1>1 DEF After, TypeOK, Slot
  <2> QED BY <2>1, <2>2, <2>3, <2>4, <1>1 DEF RoomFor, Slot
<1> QED BY <1>2

(* Storing into the room at m_WritePos leaves every queued packet as it    *)
(* was sent.                                                               *)
LEMMA Overwrite ==
  ASSUME TypeOK, LayoutInv, eePc # "wrap_rewind",
         NEW n \in 1 .. RingBufferSize, RoomFor(n),
         \A i \in Slot : i < m_WritePos \/ i >= m_WritePos + n
                         => m_RingBuffer'[i] = m_RingBuffer[i],
         UNCHANGED <<m_RingPos, m_WritePos, queue>>, EndPos' = EndPos
  PROVE  LayoutInv'
<1> USE RingAssumption
<1>1. m_WritePos \in Int /\ m_RingPos \in Int
  BY DEF TypeOK, Slot
<1>2. \A i \in 1 .. Len(queue) : \A s \in SlotsOf(queue[i]) :
        s \in Slot /\ (s < m_WritePos \/ s >= m_WritePos + n)
  BY OverwriteFree
<1>3. AllStored'
  <2> SUFFICES ASSUME NEW i \in 1 .. Len(queue)
               PROVE  Stored(queue[i])'
    BY DEF AllStored
  <2>1. /\ queue[i].pos \in 0 .. RingBufferSize - 1
        /\ queue[i].len \in 0 .. MaxPacketSize
    BY QueueElement
  <2>2. Stored(queue[i])
    BY DEF LayoutInv, AllStored
  <2>3. \A s \in SlotsOf(queue[i]) : m_RingBuffer'[s] = m_RingBuffer[s]
    BY <1>2
  <2>4. /\ queue[i].pos \in SlotsOf(queue[i])
        /\ \A k \in 1 .. queue[i].len : queue[i].pos + k \in SlotsOf(queue[i])
    BY <2>1, SMTT(40) DEF SlotsOf
  <2> QED BY <2>2, <2>3, <2>4 DEF Stored, Sent, Tag, Qword
<1>4. Chained' /\ AllInside' /\ AllInOrder'
  BY DEF LayoutInv, Chained, AllInside, Inside, AllInOrder, InOrder, NextPos, Wrap, After
<1> QED BY <1>3, <1>4 DEF LayoutInv

(* Every action keeps the variables in their domains. *)
LEMMA TypeStep ==
  ASSUME RingInv, [Next]_vars
  PROVE  TypeOK'
<1> USE RingAssumption DEF RingInv
<1> USE DEF SetEvent, EEGoto, CallSimple, Publish, StartUpload, EEOnly, GSGoto, eeSide,
            ringVars, tallies, gsVars, eeVars, TypeOK, EEPc, GSPc, Nothing, Tag
<1>1. CASE SimplePrep
  <2>1. /\ m_post_event' \in 0 .. MaxPosts
        /\ m_CopyCommandTally' \in Nat /\ m_CopyDataTally' \in Nat
    BY <1>1 DEF SimplePrep
  <2>2. eePc' \in EEPc
    BY <1>1 DEF SimplePrep
  <2> QED BY <2>1, <2>2, <1>1 DEF SimplePrep
<1>2. CASE SimpleSpin
  BY <1>2 DEF SimpleSpin, QwordSet, SimpleCommand, Command, QueuedPacket, Slot, Future, Wrap
<1>3. CASE SimpleWrite
  BY <1>3 DEF SimpleWrite, QwordSet, SimpleCommand, Command, QueuedPacket, Slot, Future, Wrap
<1>4. CASE SimplePublish
  BY <1>4 DEF SimplePublish, QwordSet, SimpleCommand, Command, QueuedPacket, Slot, Future, Wrap
<1>5. CASE DataStall
  BY <1>5 DEF DataStall, QwordSet, SimpleCommand, Command, QueuedPacket, Slot, Future, Wrap
<1>6. CASE FitStall
  BY <1>6 DEF FitStall, QwordSet, SimpleCommand, Command, QueuedPacket, Slot, Future, Wrap
<1>7. CASE WrapStall
  BY <1>7 DEF WrapStall, QwordSet, SimpleCommand, Command, QueuedPacket, Slot, Future, Wrap
<1>8. CASE WrapLock
  BY <1>8 DEF WrapLock, QwordSet, SimpleCommand, Command, QueuedPacket, Slot, Future, Wrap
<1>9. CASE WrapRewind
  BY <1>9 DEF WrapRewind, QwordSet, SimpleCommand, Command, QueuedPacket, Slot, Future, Wrap
<1>10. CASE WrapUnlock
  <2>1. m_lock_RingRestart' \in BOOLEAN
    BY <1>10, Zenon DEF WrapUnlock
  <2> QED BY <2>1, <1>10 DEF WrapUnlock
<1>11. CASE WrapPost
  BY <1>11 DEF WrapPost, QwordSet, SimpleCommand, Command, QueuedPacket, Slot, Future, Wrap
<1>12. CASE WrapBegin
  BY <1>12 DEF WrapBegin, QwordSet, SimpleCommand, Command, QueuedPacket, Slot, Future, Wrap
<1>13. CASE DataTag
  BY <1>13 DEF DataTag, QwordSet, SimpleCommand, Command, QueuedPacket, Slot, Future, Wrap
<1>14. CASE DataCopy
  <2>1. Qword(upload) \in QwordSet
    BY DEF QwordSet, Qword
  <2>2. m_RingBuffer' \in [Slot -> QwordSet]
    BY <2>1, <1>14 DEF DataCopy
  <2> QED BY <2>2, <1>14 DEF DataCopy
<1>15. CASE DataPublish
  BY <1>15 DEF DataPublish, QwordSet, SimpleCommand, Command, QueuedPacket, Slot, Future, Wrap
<1>16. CASE DataKick
  <2>1. m_post_event' \in 0 .. MaxPosts
    BY <1>16 DEF DataKick
  <2>2. m_CopyCommandTally' \in Nat /\ m_CopyDataTally' \in Nat
    BY <1>16 DEF DataKick
  <2> QED BY <2>1, <2>2, <1>16 DEF DataKick
<1>17. CASE VsyncThrottle
  <2>1. eePc' \in EEPc
    BY <1>17 DEF VsyncThrottle
  <2> QED BY <2>1, <1>17 DEF VsyncThrottle
<1>18. CASE VsyncCheck
  BY <1>18, SMTT(40) DEF VsyncCheck, QwordSet, SimpleCommand, Command, QueuedPacket, Slot, Future, Wrap
<1>19. CASE VsyncCount
  BY <1>19 DEF VsyncCount, QwordSet, SimpleCommand, Command, QueuedPacket, Slot, Future, Wrap
<1>20. CASE PostEvent
  BY <1>20 DEF PostEvent, QwordSet, SimpleCommand, Command, QueuedPacket, Slot, Future, Wrap
<1>21. CASE WaitPost
  BY <1>21 DEF WaitPost, QwordSet, SimpleCommand, Command, QueuedPacket, Slot, Future, Wrap
<1>22. CASE WaitSpin
  BY <1>22 DEF WaitSpin, QwordSet, SimpleCommand, Command, QueuedPacket, Slot, Future, Wrap
<1>23. CASE ResetPos
  BY <1>23 DEF ResetPos, QwordSet, SimpleCommand, Command, QueuedPacket, Slot, Future, Wrap
<1>24. CASE ResetSkip
  BY <1>24 DEF ResetSkip, QwordSet, SimpleCommand, Command, QueuedPacket, Slot, Future, Wrap
<1>25. CASE ResetMode
  BY <1>25 DEF ResetMode, QwordSet, SimpleCommand, Command, QueuedPacket, Slot, Future, Wrap
<1>26. CASE QuitPost
  BY <1>26 DEF QuitPost, QwordSet, SimpleCommand, Command, QueuedPacket, Slot, Future, Wrap
<1>27. CASE Join
  BY <1>27 DEF Join, QwordSet, SimpleCommand, Command, QueuedPacket, Slot, Future, Wrap
<1>28. CASE PrepFits
  <2>1. PICK n \in PacketSizes, d \in Payload : m_packet_size' = n /\ upload' = d
    BY <1>28 DEF PrepFits
  <2>2. m_packet_size' \in 0 .. MaxPacketSize /\ upload' \in Payload \cup {NoData}
    BY <2>1, PacketAssumption
  <2>3. /\ m_post_event' \in 0 .. MaxPosts
        /\ m_CopyCommandTally' \in Nat /\ m_CopyDataTally' \in Nat
    BY <1>28 DEF PrepFits
  <2>4. /\ eePc' \in EEPc
        /\ UNCHANGED <<eeRet, simple, ringVars, m_lock_RingRestart, m_QueuedFrames, gsVars>>
    BY <1>28 DEF PrepFits
  <2> QED BY <2>2, <2>3, <2>4
<1>29. CASE PrepWraps
  <2>1. PICK n \in PacketSizes, d \in Payload : m_packet_size' = n /\ upload' = d
    BY <1>29 DEF PrepWraps
  <2>2. m_packet_size' \in 0 .. MaxPacketSize /\ upload' \in Payload \cup {NoData}
    BY <2>1, PacketAssumption
  <2>3. /\ m_post_event' \in 0 .. MaxPosts
        /\ m_CopyCommandTally' \in Nat /\ m_CopyDataTally' \in Nat
    BY <1>29 DEF PrepWraps
  <2>4. /\ eePc' \in EEPc
        /\ UNCHANGED <<eeRet, simple, ringVars, m_lock_RingRestart, m_QueuedFrames, gsVars>>
    BY <1>29 DEF PrepWraps
  <2> QED BY <2>2, <2>3, <2>4
<1>30. CASE PrepExact
  <2>1. PICK n \in PacketSizes, d \in Payload : m_packet_size' = n /\ upload' = d
    BY <1>30 DEF PrepExact
  <2>2. m_packet_size' \in 0 .. MaxPacketSize /\ upload' \in Payload \cup {NoData}
    BY <2>1, PacketAssumption
  <2>3. /\ m_post_event' \in 0 .. MaxPosts
        /\ m_CopyCommandTally' \in Nat /\ m_CopyDataTally' \in Nat
    BY <1>30 DEF PrepExact
  <2>4. /\ eePc' \in EEPc
        /\ UNCHANGED <<eeRet, simple, ringVars, m_lock_RingRestart, m_QueuedFrames, gsVars>>
    BY <1>30 DEF PrepExact
  <2> QED BY <2>2, <2>3, <2>4
<1>31. CASE SendSimple
  BY <1>31 DEF SendSimple, QwordSet, SimpleCommand, Command, QueuedPacket, Slot, Future, Wrap
<1>32. CASE PostVsyncEnd
  BY <1>32 DEF PostVsyncEnd, QwordSet, SimpleCommand, Command, QueuedPacket, Slot, Future, Wrap
<1>33. CASE StartWaitGS
  BY <1>33 DEF StartWaitGS, QwordSet, SimpleCommand, Command, QueuedPacket, Slot, Future, Wrap
<1>34. CASE StartFreeze
  BY <1>34 DEF StartFreeze, QwordSet, SimpleCommand, Command, QueuedPacket, Slot, Future, Wrap
<1>35. CASE StartClose
  BY <1>35 DEF StartClose, QwordSet, SimpleCommand, Command, QueuedPacket, Slot, Future, Wrap
<1>36. CASE GSWait
  BY <1>36 DEF GSWait, PacketRead, Qword, QwordSet, GSReady, Slot, Wrap
<1>37. CASE GSBusy
  BY <1>37 DEF GSBusy, PacketRead, Qword, QwordSet, GSReady, Slot, Wrap
<1>38. CASE GSLoop
  <2>1. gsPc' \in {"rest", "restart", "handle"} /\ ringposinc' = 1
    BY <1>38 DEF GSLoop
  <2> QED BY <2>1, <1>38 DEF GSLoop
<1>39. CASE GSRest
  <2>1. m_RingBufferIsBusy' \in BOOLEAN
    BY <1>39, Zenon DEF GSRest
  <2> QED BY <2>1, <1>39 DEF GSRest
<1>40. CASE GSHandle
  <2>1. m_RingBuffer[m_RingPos] \in QwordSet
    OBVIOUS
  <2>2. handled' \in QwordSet
    BY <2>1, <1>40 DEF GSHandle, PacketRead, Qword, QwordSet
  <2>3. ringposinc' \in 1 .. MaxPacketSize + 1
    BY <2>1, <1>40 DEF GSHandle, QwordSet
  <2>4. gsPc' \in GSPc
    BY <1>40 DEF GSHandle
  <2>5. m_QueuedFrames' \in Int
    BY <1>40 DEF GSHandle
  <2> QED BY <2>2, <2>3, <2>4, <2>5, <1>40 DEF GSHandle
<1>41. CASE GSAdvance
  BY <1>41, SMTT(30) DEF GSAdvance, PacketRead, Qword, QwordSet, GSReady, Slot, Wrap
<1>42. CASE GSRestart
  BY <1>42 DEF GSRestart, PacketRead, Qword, QwordSet, GSReady, Slot, Wrap
<1>43. CASE GSRestartLock
  BY <1>43 DEF GSRestartLock, PacketRead, Qword, QwordSet, GSReady, Slot, Wrap
<1>44. CASE UNCHANGED vars
  BY <1>44 DEF vars
<1> QED BY <1>1, <1>2, <1>3, <1>4, <1>5, <1>6, <1>7, <1>8, <1>9, <1>10, <1>11, <1>12, <1>13, <1>14, <1>15, <1>16, <1>17, <1>18, <1>19, <1>20, <1>21, <1>22, <1>23, <1>24, <1>25, <1>26, <1>27, <1>28, <1>29, <1>30, <1>31, <1>32, <1>33, <1>34, <1>35, <1>36, <1>37, <1>38, <1>39, <1>40, <1>41, <1>42, <1>43, <1>44
       DEF Next, EEStep, EEBegin, GSStep, Done

(* Every action keeps the layout of the queued packets in the buffer. *)
LEMMA LayoutStep ==
  ASSUME RingInv, [Next]_vars
  PROVE  LayoutInv'
<1> USE RingAssumption
<1> USE DEF EEGoto, CallSimple, StartUpload, EEOnly, GSGoto, eeSide, ringVars,
            tallies, gsVars, eeVars
<1>0. TypeOK /\ LayoutInv /\ EEReady /\ GSReady /\ ResetLosesNothing
  BY DEF RingInv
<1>1. ASSUME UNCHANGED <<m_RingPos, m_RingBuffer, queue>>, EndPos' = EndPos
      PROVE  LayoutInv'
  BY <1>0, <1>1, LayoutFrame
<1>2. CASE SimplePrep
  BY <1>2, <1>0, <1>1 DEF SimplePrep, EndPos
<1>3. CASE SimpleSpin
  BY <1>3, <1>0, <1>1 DEF SimpleSpin, EndPos
<1>4. CASE DataStall
  BY <1>4, <1>0, <1>1 DEF DataStall, EndPos
<1>5. CASE FitStall
  BY <1>5, <1>0, <1>1 DEF FitStall, EndPos
<1>6. CASE WrapStall
  BY <1>6, <1>0, <1>1 DEF WrapStall, EndPos
<1>7. CASE WrapLock
  BY <1>7, <1>0, <1>1 DEF WrapLock, EndPos
<1>8. CASE WrapRewind
  BY <1>8, <1>0, <1>1 DEF WrapRewind, EndPos
<1>9. CASE WrapUnlock
  BY <1>9, <1>0, <1>1 DEF WrapUnlock, EndPos
<1>10. CASE WrapPost
  BY <1>10, <1>0, <1>1 DEF WrapPost, EndPos
<1>11. CASE WrapBegin
  BY <1>11, <1>0, <1>1 DEF WrapBegin, EndPos
<1>12. CASE DataKick
  BY <1>12, <1>0, <1>1 DEF DataKick, EndPos
<1>13. CASE VsyncThrottle
  BY <1>13, <1>0, <1>1 DEF VsyncThrottle, EndPos
<1>14. CASE VsyncCheck
  BY <1>14, <1>0, <1>1 DEF VsyncCheck, EndPos
<1>15. CASE VsyncCount
  BY <1>15, <1>0, <1>1 DEF VsyncCount, EndPos
<1>16. CASE PostEvent
  BY <1>16, <1>0, <1>1 DEF PostEvent, EndPos
<1>17. CASE WaitPost
  BY <1>17, <1>0, <1>1 DEF WaitPost, EndPos
<1>18. CASE WaitSpin
  BY <1>18, <1>0, <1>1 DEF WaitSpin, EndPos, EEReady
<1>19. CASE ResetSkip
  BY <1>19, <1>0, <1>1 DEF ResetSkip, EndPos
<1>20. CASE ResetMode
  BY <1>20, <1>0, <1>1 DEF ResetMode, EndPos
<1>21. CASE QuitPost
  BY <1>21, <1>0, <1>1 DEF QuitPost, EndPos
<1>22. CASE Join
  BY <1>22, <1>0, <1>1 DEF Join, EndPos
<1>23. CASE PrepFits
  BY <1>23, <1>0, <1>1 DEF PrepFits, EndPos
<1>24. CASE PrepWraps
  BY <1>24, <1>0, <1>1 DEF PrepWraps, EndPos
<1>25. CASE PrepExact
  BY <1>25, <1>0, <1>1 DEF PrepExact, EndPos
<1>26. CASE SendSimple
  BY <1>26, <1>0, <1>1 DEF SendSimple, EndPos
<1>27. CASE PostVsyncEnd
  BY <1>27, <1>0, <1>1 DEF PostVsyncEnd, EndPos
<1>28. CASE StartWaitGS
  BY <1>28, <1>0, <1>1 DEF StartWaitGS, EndPos
<1>29. CASE StartFreeze
  BY <1>29, <1>0, <1>1 DEF StartFreeze, EndPos
<1>30. CASE StartClose
  BY <1>30, <1>0, <1>1 DEF StartClose, EndPos
<1>31. CASE GSWait
  BY <1>31, <1>0, <1>1 DEF GSWait, EndPos
<1>32. CASE GSBusy
  BY <1>32, <1>0, <1>1 DEF GSBusy, EndPos
<1>33. CASE GSLoop
  BY <1>33, <1>0, <1>1 DEF GSLoop, EndPos
<1>34. CASE GSRest
  BY <1>34, <1>0, <1>1 DEF GSRest, EndPos
<1>35. CASE GSHandle
  BY <1>35, <1>0, <1>1 DEF GSHandle, EndPos
<1>36. CASE GSRestartLock
  BY <1>36, <1>0, <1>1 DEF GSRestartLock, EndPos
<1>37. CASE SimpleWrite
  <2>1. RoomFor(1) /\ eePc # "wrap_rewind" /\ EndPos' = EndPos
    BY <1>37, <1>0 DEF SimpleWrite, EEReady, EndPos
  <2>2. \A i \in Slot : i < m_WritePos \/ i >= m_WritePos + 1
                        => m_RingBuffer'[i] = m_RingBuffer[i]
    BY <1>37, <1>0 DEF SimpleWrite, TypeOK, Slot
  <2> QED BY <2>1, <2>2, <1>37, <1>0, Overwrite DEF SimpleWrite
<1>38. CASE DataTag
  <2>1. /\ RoomFor(m_packet_size + 1) /\ eePc # "wrap_rewind" /\ EndPos' = EndPos
        /\ m_packet_size + 1 \in 1 .. RingBufferSize
    BY <1>38, <1>0 DEF DataTag, EEReady, EndPos, TypeOK
  <2>2. \A i \in Slot : i < m_WritePos \/ i >= m_WritePos + (m_packet_size + 1)
                        => m_RingBuffer'[i] = m_RingBuffer[i]
    BY <1>38, <1>0 DEF DataTag, TypeOK, Slot
  <2> QED BY <2>1, <2>2, <1>38, <1>0, Overwrite DEF DataTag
<1>39. CASE DataCopy
  <2>1. /\ RoomFor(m_packet_size + 1) /\ eePc # "wrap_rewind" /\ EndPos' = EndPos
        /\ m_packet_size + 1 \in 1 .. RingBufferSize
    BY <1>39, <1>0 DEF DataCopy, EEReady, EndPos, TypeOK
  <2>2. \A i \in Slot : i < m_WritePos \/ i >= m_WritePos + (m_packet_size + 1)
                        => m_RingBuffer'[i] = m_RingBuffer[i]
    BY <1>39, <1>0 DEF DataCopy, DataSlots, TypeOK, Slot
  <2> QED BY <2>1, <2>2, <1>39, <1>0, Overwrite DEF DataCopy
<1>40. CASE SimplePublish
  <2> DEFINE p == [pos |-> m_WritePos, cmd |-> simple.cmd,
                  len |-> simple.len, data |-> simple.data]
  <2>1. /\ eePc = "simple_publish" /\ m_WritePos' = Wrap(m_WritePos + 1)
        /\ queue' = Append(queue, p) /\ UNCHANGED <<m_RingPos, m_RingBuffer>>
        /\ eePc' = eeRet
    BY <1>40 DEF SimplePublish, Publish, Future
  <2>2. p \in QueuedPacket /\ simple \in QwordSet
    BY <1>0 DEF TypeOK, QueuedPacket, QwordSet
  <2>3. /\ simple.len = 0 /\ RoomFor(1) /\ m_RingBuffer[m_WritePos] = simple
        /\ simple.cmd = "RESTART" =>
             0 < m_RingPos /\ m_RingPos <= m_WritePos /\ eeRet = "wrap_rewind"
        /\ simple.cmd # "RESTART" => eeRet # "wrap_rewind"
    BY <2>1, <1>0 DEF EEReady, SendingSimple, Restarting
  <2>4. simple = Tag(simple.cmd, simple.len, simple.data)
    BY <2>2 DEF QwordSet, Tag
  <2>5. Stored(p)
    BY <2>3, <2>4 DEF Stored, Sent
  <2>6. EndPos' = NextPos(p)
    <3>1. CASE simple.cmd = "RESTART"
      BY <3>1, <2>1, <2>3 DEF EndPos, NextPos
    <3>2. CASE simple.cmd # "RESTART"
      <4>1. EndPos' = Wrap(m_WritePos + 1)
        BY <3>2, <2>1, <2>3 DEF EndPos
      <4>2. NextPos(p) = Wrap(m_WritePos + 0 + 1)
        BY <3>2, <2>3 DEF NextPos, After
      <4> QED BY <4>1, <4>2, <1>0 DEF TypeOK, Slot
    <3> QED BY <3>1, <3>2
  <2>7. p.pos = m_WritePos /\ p.len + 1 = 1 /\ p.cmd = simple.cmd
    BY <2>3
  <2> HIDE DEF p
  <2> QED BY <2>1, <2>2, <2>3, <2>5, <2>6, <2>7, <1>0, Push
<1>41. CASE DataPublish
  <2> DEFINE p == [pos |-> m_WritePos, cmd |-> "DATA",
                  len |-> m_packet_size, data |-> upload]
  <2>1. /\ eePc = "data_publish" /\ m_WritePos' = Wrap(m_WritePos + 1 + m_packet_size)
        /\ queue' = Append(queue, p) /\ UNCHANGED <<m_RingPos, m_RingBuffer>>
        /\ eePc' = "data_kick"
    BY <1>41 DEF DataPublish, Publish, Tag
  <2>2. p \in QueuedPacket
    BY <1>0 DEF TypeOK, QueuedPacket, Command
  <2>3. /\ RoomFor(m_packet_size + 1)
        /\ m_RingBuffer[m_WritePos] = Tag("DATA", m_packet_size, upload)
        /\ \A k \in 1 .. m_packet_size : m_RingBuffer[m_WritePos + k] = Qword(upload)
    BY <2>1, <1>0 DEF EEReady
  <2>4. Stored(p)
    BY <2>3 DEF Stored, Sent
  <2>5. EndPos' = NextPos(p)
    BY <2>1, <1>0 DEF EndPos, NextPos, After, TypeOK, Slot
  <2>6. p.pos = m_WritePos /\ p.len = m_packet_size /\ p.cmd # "RESTART"
    OBVIOUS
  <2> HIDE DEF p
  <2> QED BY <2>1, <2>2, <2>3, <2>4, <2>5, <2>6, <1>0, Push
<1>42. CASE ResetPos
  BY <1>42, <1>0, <1>1 DEF ResetPos, ResetLosesNothing, EndPos
<1>43. CASE GSAdvance
  <2>1. Len(queue) > 0 /\ queue[1].cmd # "RESTART" /\ ringposinc = 1 + queue[1].len
    BY <1>43, <1>0 DEF GSAdvance, GSReady
  <2>2. /\ queue[1].pos \in 0 .. RingBufferSize - 1
        /\ queue[1].len \in 0 .. MaxPacketSize
    BY <2>1, <1>0, QueueElement DEF TypeOK
  <2>3. m_RingPos = queue[1].pos /\ m_RingPos' = Wrap(m_RingPos + ringposinc)
    BY <1>43, <2>1, <1>0 DEF GSAdvance, LayoutInv, Chained
  <2>4. m_RingPos + ringposinc = After(queue[1])
    BY <2>1, <2>2, <2>3 DEF After
  <2>5. m_RingPos' = NextPos(queue[1])
    BY <2>1, <2>3, <2>4 DEF NextPos
  <2> QED BY <2>1, <2>5, <1>43, <1>0, Pop DEF GSAdvance, EndPos
<1>44. CASE GSRestart
  <2>1. Len(queue) > 0 /\ queue[1].cmd = "RESTART"
    BY <1>44, <1>0 DEF GSRestart, GSReady
  <2>2. m_RingPos' = NextPos(queue[1])
    BY <1>44, <2>1 DEF GSRestart, NextPos
  <2> QED BY <2>1, <2>2, <1>44, <1>0, Pop DEF GSRestart, EndPos
<1>45. CASE UNCHANGED vars
  BY <1>45, <1>1 DEF vars, EndPos
<1> QED BY <1>2, <1>3, <1>4, <1>5, <1>6, <1>7, <1>8, <1>9, <1>10, <1>11, <1>12, <1>13, <1>14, <1>15, <1>16, <1>17, <1>18, <1>19, <1>20, <1>21, <1>22, <1>23, <1>24, <1>25, <1>26, <1>27, <1>28, <1>29, <1>30, <1>31, <1>32, <1>33, <1>34, <1>35, <1>36, <1>37, <1>38, <1>39, <1>40, <1>41, <1>42, <1>43, <1>44, <1>45
       DEF Next, EEStep, EEBegin, GSStep, Done

(* Outside the rewind of a RESTART the positions are equal exactly when    *)
(* nothing is queued.                                                      *)
LEMMA PositionsTell ==
  ASSUME RingInv
  PROVE  EqualMeansEmpty /\ (eePc # "wrap_rewind" => (m_RingPos = m_WritePos <=> Len(queue) = 0))
<1> USE RingAssumption DEF RingInv
<1>1. queue = <<>> <=> Len(queue) = 0
  BY DEF TypeOK
<1>2. ASSUME eePc # "wrap_rewind", m_RingPos = m_WritePos, Len(queue) > 0
      PROVE  FALSE
  <2>1. /\ queue[1].pos \in 0 .. RingBufferSize - 1 /\ queue[1].len \in 0 .. MaxPacketSize
        /\ m_WritePos \in Int
    BY <1>2, QueueElement DEF TypeOK, Slot
  <2>2. queue[1].pos = m_RingPos /\ Inside(queue[1]) /\ EndPos = m_WritePos
    BY <1>2 DEF LayoutInv, Chained, AllInside, EndPos, TypeOK
  <2> QED BY <2>1, <2>2, <1>2 DEF Inside, After
<1>3. eePc # "wrap_rewind" /\ Len(queue) = 0 => m_RingPos = m_WritePos
  BY DEF LayoutInv, Chained, EndPos
<1>4. Len(queue) \in Nat
  BY SMTT(40) DEF TypeOK
<1> QED BY <1>1, <1>2, <1>3, <1>4 DEF EqualMeansEmpty

(* Every action keeps what the two threads know. *)
LEMMA ReadyStep ==
  ASSUME RingInv, [Next]_vars
  PROVE  EEReady' /\ GSReady' /\ ResetLosesNothing'
<1> USE RingAssumption
<1> USE DEF EEGoto, CallSimple, StartUpload, EEOnly, GSGoto, eeSide, ringVars,
            tallies, gsVars, eeVars, EEReady, SendingSimple, Restarting, Tag
<1>0. TypeOK /\ LayoutInv /\ EEReady /\ GSReady /\ ResetLosesNothing
  BY DEF RingInv
<1>a. /\ m_RingPos \in Int /\ m_WritePos \in Int /\ RingBufferSize \in Int
      /\ m_RingPos >= 0 /\ m_RingPos < RingBufferSize
      /\ m_WritePos >= 0 /\ m_WritePos < RingBufferSize
      /\ m_packet_size \in Int /\ m_packet_size >= 0 /\ m_packet_size <= MaxPacketSize
      /\ MaxPacketSize \in Int /\ MaxPacketSize + 2 <= RingBufferSize
  BY <1>0 DEF TypeOK, Slot
<1>1. CASE SimplePrep
  <2>0. Future # m_RingPos => RoomFor(1)
    BY <1>a DEF RoomFor, Future, Wrap
  <2>1. EEReady'
    BY <1>1, <1>0, <2>0 DEF SimplePrep, RoomFor
  <2>2. GSReady' /\ ResetLosesNothing'
    BY <1>1, <1>0 DEF SimplePrep, GSReady, ResetLosesNothing
  <2> QED BY <2>1, <2>2
<1>2. CASE SimpleSpin
  <2>0. Future # m_RingPos => RoomFor(1)
    BY <1>a DEF RoomFor, Future, Wrap
  <2>1. EEReady'
    BY <1>2, <1>0, <2>0 DEF SimpleSpin, RoomFor
  <2>2. GSReady' /\ ResetLosesNothing'
    BY <1>2, <1>0 DEF SimpleSpin, GSReady, ResetLosesNothing
  <2> QED BY <2>1, <2>2
<1>3. CASE SimpleWrite
  <2>0. m_RingBuffer'[m_WritePos] = simple
    BY <1>3, <1>0 DEF SimpleWrite, TypeOK
  <2>1. EEReady'
    BY <1>3, <1>0, <2>0 DEF SimpleWrite, RoomFor
  <2>2. GSReady' /\ ResetLosesNothing'
    BY <1>3, <1>0 DEF SimpleWrite, GSReady, ResetLosesNothing
  <2> QED BY <2>1, <2>2
<1>4. CASE DataStall
  <2>1. EEReady'
    BY <1>4, <1>0, <1>a DEF DataStall, RoomFor, Future, Wrap, ReaderPastBase
  <2>2. GSReady' /\ ResetLosesNothing'
    BY <1>4, <1>0 DEF DataStall, GSReady, ResetLosesNothing
  <2> QED BY <2>1, <2>2
<1>5. CASE FitStall
  <2>1. EEReady'
    BY <1>5, <1>0, <1>a DEF FitStall, RoomFor, Future, Wrap, ReaderPastBase
  <2>2. GSReady' /\ ResetLosesNothing'
    BY <1>5, <1>0 DEF FitStall, GSReady, ResetLosesNothing
  <2> QED BY <2>1, <2>2
<1>6. CASE WrapStall
  <2>1. EEReady'
    BY <1>6, <1>0, <1>a DEF WrapStall, RoomFor, Future, Wrap, ReaderPastBase
  <2>2. GSReady' /\ ResetLosesNothing'
    BY <1>6, <1>0 DEF WrapStall, GSReady, ResetLosesNothing
  <2> QED BY <2>1, <2>2
<1>7. CASE WrapLock
  <2>1. EEReady'
    BY <1>7, <1>0, <1>a DEF WrapLock, RoomFor, Future, Wrap, ReaderPastBase
  <2>2. GSReady' /\ ResetLosesNothing'
    BY <1>7, <1>0 DEF WrapLock, GSReady, ResetLosesNothing
  <2> QED BY <2>1, <2>2
<1>8. CASE WrapRewind
  <2>1. EEReady'
    BY <1>8, <1>0, <1>a DEF WrapRewind, RoomFor, Future, Wrap, ReaderPastBase
  <2>2. GSReady' /\ ResetLosesNothing'
    BY <1>8, <1>0 DEF WrapRewind, GSReady, ResetLosesNothing
  <2> QED BY <2>1, <2>2
<1>9. CASE WrapUnlock
  <2>1. EEReady'
    BY <1>9, <1>0, <1>a DEF WrapUnlock, RoomFor, Future, Wrap, ReaderPastBase
  <2>2. GSReady' /\ ResetLosesNothing'
    BY <1>9, <1>0 DEF WrapUnlock, GSReady, ResetLosesNothing
  <2> QED BY <2>1, <2>2
<1>10. CASE WrapPost
  <2>1. EEReady'
    BY <1>10, <1>0, <1>a DEF WrapPost, RoomFor, Future, Wrap, ReaderPastBase
  <2>2. GSReady' /\ ResetLosesNothing'
    BY <1>10, <1>0 DEF WrapPost, GSReady, ResetLosesNothing
  <2> QED BY <2>1, <2>2
<1>11. CASE WrapBegin
  <2>1. EEReady'
    BY <1>11, <1>0, <1>a DEF WrapBegin, RoomFor, Future, Wrap, ReaderPastBase
  <2>2. GSReady' /\ ResetLosesNothing'
    BY <1>11, <1>0 DEF WrapBegin, GSReady, ResetLosesNothing
  <2> QED BY <2>1, <2>2
<1>12. CASE DataTag
  <2>0. m_RingBuffer'[m_WritePos] = Tag("DATA", m_packet_size, upload)
    BY <1>12, <1>0 DEF DataTag, TypeOK
  <2>1. EEReady'
    BY <1>12, <1>0, <2>0 DEF DataTag, RoomFor
  <2>2. GSReady' /\ ResetLosesNothing'
    BY <1>12, <1>0 DEF DataTag, GSReady, ResetLosesNothing
  <2> QED BY <2>1, <2>2
<1>13. CASE DataCopy
  <2>0. RoomFor(m_packet_size + 1) /\ m_RingBuffer[m_WritePos] = Tag("DATA", m_packet_size, upload)
    BY <1>13, <1>0 DEF DataCopy
  <2>a. /\ m_RingBuffer'[m_WritePos] = m_RingBuffer[m_WritePos]
        /\ \A k \in 1 .. m_packet_size : m_RingBuffer'[m_WritePos + k] = Qword(upload)
    <3>1. m_WritePos + m_packet_size < RingBufferSize
      BY <2>0, <1>a DEF RoomFor
    <3>2. m_WritePos \in Slot /\ m_WritePos \notin DataSlots
      BY <1>a DEF DataSlots, Slot
    <3>3. ASSUME NEW k \in 1 .. m_packet_size
          PROVE  m_WritePos + k \in Slot /\ m_WritePos + k \in DataSlots
      BY <3>1, <1>a DEF DataSlots, Slot
    <3>4. m_RingBuffer' = [i \in Slot |-> IF i \in DataSlots THEN Qword(upload)
                                                             ELSE m_RingBuffer[i]]
      BY <1>13 DEF DataCopy
    <3> QED BY <3>2, <3>3, <3>4
  <2>1. EEReady'
    BY <1>13, <2>0, <2>a, <1>0 DEF DataCopy, RoomFor, Qword
  <2>2. GSReady' /\ ResetLosesNothing'
    BY <1>13, <1>0 DEF DataCopy, GSReady, ResetLosesNothing
  <2> QED BY <2>1, <2>2
<1>14. CASE DataKick
  <2>1. EEReady'
    BY <1>14, <1>0, <1>a DEF DataKick, RoomFor, Future, Wrap, ReaderPastBase
  <2>2. GSReady' /\ ResetLosesNothing'
    BY <1>14, <1>0 DEF DataKick, GSReady, ResetLosesNothing
  <2> QED BY <2>1, <2>2
<1>15. CASE VsyncThrottle
  <2>1. EEReady'
    BY <1>15, <1>0, <1>a DEF VsyncThrottle, RoomFor, Future, Wrap, ReaderPastBase
  <2>2. GSReady' /\ ResetLosesNothing'
    BY <1>15, <1>0 DEF VsyncThrottle, GSReady, ResetLosesNothing
  <2> QED BY <2>1, <2>2
<1>16. CASE VsyncCheck
  <2>1. EEReady'
    BY <1>16, <1>0, <1>a DEF VsyncCheck, RoomFor, Future, Wrap, ReaderPastBase
  <2>2. GSReady' /\ ResetLosesNothing'
    BY <1>16, <1>0 DEF VsyncCheck, GSReady, ResetLosesNothing
  <2> QED BY <2>1, <2>2
<1>17. CASE VsyncCount
  <2>1. EEReady'
    BY <1>17, <1>0, <1>a DEF VsyncCount, RoomFor, Future, Wrap, ReaderPastBase
  <2>2. GSReady' /\ ResetLosesNothing'
    BY <1>17, <1>0 DEF VsyncCount, GSReady, ResetLosesNothing
  <2> QED BY <2>1, <2>2
<1>18. CASE PostEvent
  <2>1. EEReady'
    BY <1>18, <1>0, <1>a DEF PostEvent, RoomFor, Future, Wrap, ReaderPastBase
  <2>2. GSReady' /\ ResetLosesNothing'
    BY <1>18, <1>0 DEF PostEvent, GSReady, ResetLosesNothing
  <2> QED BY <2>1, <2>2
<1>19. CASE WaitPost
  <2>1. EEReady'
    BY <1>19, <1>0, <1>a DEF WaitPost, RoomFor, Future, Wrap, ReaderPastBase
  <2>2. GSReady' /\ ResetLosesNothing'
    BY <1>19, <1>0 DEF WaitPost, GSReady, ResetLosesNothing
  <2> QED BY <2>1, <2>2
<1>20. CASE ResetPos
  <2>1. EEReady'
    BY <1>20, <1>0, <1>a DEF ResetPos, RoomFor, Future, Wrap, ReaderPastBase
  <2>2. GSReady' /\ ResetLosesNothing'
    BY <1>20, <1>0 DEF ResetPos, GSReady, ResetLosesNothing
  <2> QED BY <2>1, <2>2
<1>21. CASE ResetSkip
  <2>1. EEReady'
    BY <1>21, <1>0, <1>a DEF ResetSkip, RoomFor, Future, Wrap, ReaderPastBase
  <2>2. GSReady' /\ ResetLosesNothing'
    BY <1>21, <1>0 DEF ResetSkip, GSReady, ResetLosesNothing
  <2> QED BY <2>1, <2>2
<1>22. CASE ResetMode
  <2>1. EEReady'
    BY <1>22, <1>0, <1>a DEF ResetMode, RoomFor, Future, Wrap, ReaderPastBase
  <2>2. GSReady' /\ ResetLosesNothing'
    BY <1>22, <1>0 DEF ResetMode, GSReady, ResetLosesNothing
  <2> QED BY <2>1, <2>2
<1>23. CASE QuitPost
  <2>1. EEReady'
    BY <1>23, <1>0, <1>a DEF QuitPost, RoomFor, Future, Wrap, ReaderPastBase
  <2>2. GSReady' /\ ResetLosesNothing'
    BY <1>23, <1>0 DEF QuitPost, GSReady, ResetLosesNothing
  <2> QED BY <2>1, <2>2
<1>24. CASE Join
  <2>1. EEReady'
    BY <1>24, <1>0, <1>a DEF Join, RoomFor, Future, Wrap, ReaderPastBase
  <2>2. GSReady' /\ ResetLosesNothing'
    BY <1>24, <1>0 DEF Join, GSReady, ResetLosesNothing
  <2> QED BY <2>1, <2>2
<1>25. CASE PrepFits
  <2>1. EEReady'
    BY <1>25, <1>0, <1>a, PacketAssumption DEF PrepFits, RoomFor, Future, Wrap, ReaderPastBase
  <2>2. GSReady' /\ ResetLosesNothing'
    BY <1>25, <1>0 DEF PrepFits, GSReady, ResetLosesNothing
  <2> QED BY <2>1, <2>2
<1>26. CASE PrepWraps
  <2>1. EEReady'
    BY <1>26, <1>0, <1>a, PacketAssumption DEF PrepWraps, RoomFor, Future, Wrap, ReaderPastBase
  <2>2. GSReady' /\ ResetLosesNothing'
    BY <1>26, <1>0 DEF PrepWraps, GSReady, ResetLosesNothing
  <2> QED BY <2>1, <2>2
<1>27. CASE PrepExact
  <2>1. EEReady'
    BY <1>27, <1>0, <1>a, PacketAssumption DEF PrepExact, RoomFor, Future, Wrap, ReaderPastBase
  <2>2. GSReady' /\ ResetLosesNothing'
    BY <1>27, <1>0 DEF PrepExact, GSReady, ResetLosesNothing
  <2> QED BY <2>1, <2>2
<1>28. CASE SendSimple
  <2>1. EEReady'
    BY <1>28, <1>0, <1>a DEF SendSimple, RoomFor, Future, Wrap, ReaderPastBase
  <2>2. GSReady' /\ ResetLosesNothing'
    BY <1>28, <1>0 DEF SendSimple, GSReady, ResetLosesNothing
  <2> QED BY <2>1, <2>2
<1>29. CASE PostVsyncEnd
  <2>1. EEReady'
    BY <1>29, <1>0, <1>a DEF PostVsyncEnd, RoomFor, Future, Wrap, ReaderPastBase
  <2>2. GSReady' /\ ResetLosesNothing'
    BY <1>29, <1>0 DEF PostVsyncEnd, GSReady, ResetLosesNothing
  <2> QED BY <2>1, <2>2
<1>30. CASE StartWaitGS
  <2>1. EEReady'
    BY <1>30, <1>0, <1>a DEF StartWaitGS, RoomFor, Future, Wrap, ReaderPastBase
  <2>2. GSReady' /\ ResetLosesNothing'
    BY <1>30, <1>0 DEF StartWaitGS, GSReady, ResetLosesNothing
  <2> QED BY <2>1, <2>2
<1>31. CASE StartFreeze
  <2>1. EEReady'
    BY <1>31, <1>0, <1>a DEF StartFreeze, RoomFor, Future, Wrap, ReaderPastBase
  <2>2. GSReady' /\ ResetLosesNothing'
    BY <1>31, <1>0 DEF StartFreeze, GSReady, ResetLosesNothing
  <2> QED BY <2>1, <2>2
<1>32. CASE StartClose
  <2>1. EEReady'
    BY <1>32, <1>0, <1>a DEF StartClose, RoomFor, Future, Wrap, ReaderPastBase
  <2>2. GSReady' /\ ResetLosesNothing'
    BY <1>32, <1>0 DEF StartClose, GSReady, ResetLosesNothing
  <2> QED BY <2>1, <2>2
<1>33. CASE SimplePublish
  <2> DEFINE p == [pos |-> m_WritePos, cmd |-> simple.cmd,
                  len |-> simple.len, data |-> simple.data]
  <2>1. /\ eePc = "simple_publish" /\ eePc' = eeRet /\ eeRet' = "run" /\ queue' = Append(queue, p)
        /\ UNCHANGED <<m_RingPos, gsPc, ringposinc, m_lock_RingRestart>>
    BY <1>33 DEF SimplePublish, Publish
  <2>2. /\ queue \in Seq(QueuedPacket) /\ Len(queue) \in Nat
        /\ Len(queue') = Len(queue) + 1 /\ queue'[Len(queue')] = p
        /\ Len(queue) > 0 => queue'[1] = queue[1]
    BY <2>1, <1>0 DEF TypeOK
  <2>3. EEReady'
    <3>1. CASE simple.cmd = "RESTART"
      BY <3>1, <2>1, <2>2, <1>0
    <3>2. CASE simple.cmd # "RESTART"
      BY <3>2, <2>1, <1>0
    <3> QED BY <3>1, <3>2
  <2>4. GSReady'
    BY <2>1, <2>2, <1>0 DEF GSReady
  <2>5. ResetLosesNothing'
    BY <2>1, <1>0 DEF ResetLosesNothing
  <2> QED BY <2>3, <2>4, <2>5
<1>34. CASE DataPublish
  <2>1. /\ eePc = "data_publish" /\ eePc' = "data_kick"
        /\ \E p : queue' = Append(queue, p) /\ p \in QueuedPacket
        /\ UNCHANGED <<m_RingPos, gsPc, ringposinc, m_lock_RingRestart>>
    BY <1>34, <1>0, SMTT(30) DEF DataPublish, Publish, TypeOK, QueuedPacket, Command
  <2>2. /\ Len(queue) \in Nat /\ Len(queue') = Len(queue) + 1
        /\ Len(queue) > 0 => queue'[1] = queue[1]
    BY <2>1, <1>0 DEF TypeOK
  <2>3. EEReady' /\ ResetLosesNothing'
    BY <2>1, <1>0 DEF ResetLosesNothing
  <2>4. GSReady'
    BY <2>1, <2>2, <1>0 DEF GSReady
  <2> QED BY <2>3, <2>4
<1>35. CASE WaitSpin
  <2>1. /\ eePc = "wait_spin" /\ m_RingPos = m_WritePos /\ eePc' = eeRet
        /\ UNCHANGED <<m_RingPos, m_WritePos, m_RingBuffer, queue, gsPc, ringposinc,
                       m_lock_RingRestart>>
    BY <1>35 DEF WaitSpin
  <2>2. queue = <<>> /\ Len(queue) = 0
    BY <2>1, PositionsTell DEF EqualMeansEmpty
  <2>3. EEReady'
    BY <2>1, <1>0
  <2>4. GSReady' /\ ResetLosesNothing'
    BY <2>1, <2>2, <1>0 DEF GSReady, ResetLosesNothing
  <2> QED BY <2>3, <2>4
<1>36. CASE GSWait
  <2>1. EEReady'
    BY <1>36, <1>0 DEF GSWait, RoomFor
  <2>2. GSReady' /\ ResetLosesNothing'
    BY <1>36, <1>0 DEF GSWait, GSReady, ResetLosesNothing
  <2> QED BY <2>1, <2>2
<1>37. CASE GSBusy
  <2>1. EEReady'
    BY <1>37, <1>0 DEF GSBusy, RoomFor
  <2>2. GSReady' /\ ResetLosesNothing'
    BY <1>37, <1>0 DEF GSBusy, GSReady, ResetLosesNothing
  <2> QED BY <2>1, <2>2
<1>38. CASE GSRest
  <2>1. EEReady'
    BY <1>38, <1>0 DEF GSRest, RoomFor
  <2>2. GSReady' /\ ResetLosesNothing'
    BY <1>38, <1>0 DEF GSRest, GSReady, ResetLosesNothing
  <2> QED BY <2>1, <2>2
<1>39. CASE GSRestartLock
  <2>1. EEReady'
    BY <1>39, <1>0 DEF GSRestartLock, RoomFor
  <2>2. GSReady' /\ ResetLosesNothing'
    BY <1>39, <1>0 DEF GSRestartLock, GSReady, ResetLosesNothing
  <2> QED BY <2>1, <2>2
<1>40. CASE GSLoop
  <2>0. Len(queue) > 0 => /\ m_RingBuffer[m_RingPos].cmd = queue[1].cmd
                          /\ m_RingBuffer[m_RingPos].len = queue[1].len
    <3>1. Len(queue) \in Nat
      BY <1>0 DEF TypeOK
    <3>2. Len(queue) > 0 => queue[1].pos = m_RingPos /\ Stored(queue[1])
      BY <3>1, <1>0 DEF LayoutInv, Chained, AllStored
    <3> QED BY <3>2 DEF Stored, Sent
  <2>1. eePc = "wrap_rewind" => Len(queue) > 0
    BY <1>40, <1>0 DEF GSLoop
  <2>2. m_RingPos # m_WritePos => Len(queue) > 0
    BY <2>1, PositionsTell, <1>0 DEF TypeOK
  <2>3. EEReady'
    BY <1>40, <2>1, <1>0 DEF GSLoop, RoomFor
  <2>4. GSReady'
    BY <1>40, <2>0, <2>2, <1>0 DEF GSLoop, GSReady
  <2>5. ResetLosesNothing'
    BY <1>40, <1>0 DEF GSLoop, ResetLosesNothing
  <2> QED BY <2>3, <2>4, <2>5
<1>41. CASE GSHandle
  <2>0. Len(queue) > 0 => /\ m_RingBuffer[m_RingPos].cmd = queue[1].cmd
                          /\ m_RingBuffer[m_RingPos].len = queue[1].len
    <3>1. Len(queue) \in Nat
      BY <1>0 DEF TypeOK
    <3>2. Len(queue) > 0 => queue[1].pos = m_RingPos /\ Stored(queue[1])
      BY <3>1, <1>0 DEF LayoutInv, Chained, AllStored
    <3> QED BY <3>2 DEF Stored, Sent
  <2>1. EEReady'
    BY <1>41, <1>0 DEF GSHandle, RoomFor
  <2>2. gsPc = "handle" /\ gsPc' \in {"advance", "quit"}
    BY <1>41 DEF GSHandle
  <2>3. GSReady'
    BY <1>41, <2>0, <2>2, <1>0 DEF GSHandle, GSReady
  <2>4. ResetLosesNothing'
    BY <1>41, <1>0 DEF GSHandle, ResetLosesNothing
  <2> QED BY <2>1, <2>3, <2>4
<1>42. CASE GSAdvance
  <2>1. /\ Len(queue) > 0 /\ queue[1].cmd # "RESTART" /\ gsPc = "advance" /\ gsPc' = "loop"
        /\ queue' = Tail(queue) /\ ringposinc = 1 + queue[1].len
        /\ UNCHANGED <<m_WritePos, m_RingBuffer, eeVars, m_lock_RingRestart>>
    BY <1>42, <1>0 DEF GSAdvance, GSReady
  <2>2. m_RingPos' = NextPos(queue[1])
    <3>1. m_RingPos = queue[1].pos /\ m_RingPos' = Wrap(m_RingPos + ringposinc)
      BY <1>42, <2>1, <1>0 DEF GSAdvance, LayoutInv, Chained
    <3>2. queue[1].pos \in Int /\ queue[1].len \in Int
      BY <2>1, <1>0, QueueElement DEF TypeOK
    <3>3. m_RingPos + ringposinc = After(queue[1])
      BY <3>1, <3>2, <2>1 DEF After
    <3> QED BY <3>1, <3>3, <2>1 DEF NextPos
  <2>3. /\ \A k \in 1 .. RingBufferSize :
              eePc # "wrap_rewind" /\ RoomFor(k) => RoomFor(k)'
        /\ eePc # "wrap_rewind" /\ 0 < m_RingPos /\ m_RingPos <= m_WritePos
              => 0 < m_RingPos' /\ m_RingPos' <= m_WritePos'
    BY <2>1, <2>2, <1>0, Pop DEF EndPos
  <2>4. /\ eePc \in {"simple_write", "simple_publish"} => RoomFor(1)'
        /\ eePc \in {"data_tag", "data_copy", "data_publish"} => RoomFor(m_packet_size + 1)'
    <3>1. 1 \in 1 .. RingBufferSize /\ m_packet_size + 1 \in 1 .. RingBufferSize
      BY <1>a
    <3>2. m_packet_size' = m_packet_size
      BY <2>1
    <3>3. /\ eePc # "wrap_rewind" /\ RoomFor(1) => RoomFor(1)'
          /\ eePc # "wrap_rewind" /\ RoomFor(m_packet_size + 1) => RoomFor(m_packet_size + 1)'
      BY <2>3, <3>1, <3>2 DEF RoomFor
    <3> QED BY <3>3, <1>0
  <2>5. eePc = "wrap_rewind" => Len(queue') > 0 /\ queue'[Len(queue')].cmd = "RESTART"
    <3> SUFFICES ASSUME eePc = "wrap_rewind"
                 PROVE  Len(queue') > 0 /\ queue'[Len(queue')].cmd = "RESTART"
      OBVIOUS
    <3>1. queue[Len(queue)].cmd = "RESTART"
      BY <2>1, <1>0
    <3>2. Len(queue) > 1
      BY <3>1, <2>1, <1>0 DEF TypeOK
    <3>3. Len(queue') = Len(queue) - 1 /\ queue'[Len(queue')] = queue[Len(queue)]
      BY <3>2, <2>1, <1>0 DEF TypeOK
    <3> QED BY <3>1, <3>2, <3>3, <1>0 DEF TypeOK
  <2>6. EEReady'
    BY <2>1, <2>3, <2>4, <2>5, <1>0
  <2>7. GSReady' /\ ResetLosesNothing'
    BY <2>1, <1>0 DEF GSReady, ResetLosesNothing
  <2> QED BY <2>6, <2>7
<1>43. CASE GSRestart
  <2>1. /\ Len(queue) > 0 /\ queue[1].cmd = "RESTART" /\ gsPc = "restart"
        /\ gsPc' = "restart_lock" /\ queue' = Tail(queue)
        /\ UNCHANGED <<m_WritePos, m_RingBuffer, eeVars, m_lock_RingRestart>>
    BY <1>43, <1>0 DEF GSRestart, GSReady
  <2>2. m_RingPos' = NextPos(queue[1])
    BY <1>43, <2>1 DEF GSRestart, NextPos
  <2>3. /\ \A k \in 1 .. RingBufferSize :
              eePc # "wrap_rewind" /\ RoomFor(k) => RoomFor(k)'
        /\ eePc # "wrap_rewind" /\ 0 < m_RingPos /\ m_RingPos <= m_WritePos
              => 0 < m_RingPos' /\ m_RingPos' <= m_WritePos'
    BY <2>1, <2>2, <1>0, Pop DEF EndPos
  <2>4. /\ eePc \in {"simple_write", "simple_publish"} => RoomFor(1)'
        /\ eePc \in {"data_tag", "data_copy", "data_publish"} => RoomFor(m_packet_size + 1)'
    <3>1. 1 \in 1 .. RingBufferSize /\ m_packet_size + 1 \in 1 .. RingBufferSize
      BY <1>a
    <3>2. m_packet_size' = m_packet_size
      BY <2>1
    <3>3. /\ eePc # "wrap_rewind" /\ RoomFor(1) => RoomFor(1)'
          /\ eePc # "wrap_rewind" /\ RoomFor(m_packet_size + 1) => RoomFor(m_packet_size + 1)'
      BY <2>3, <3>1, <3>2 DEF RoomFor
    <3> QED BY <3>3, <1>0
  <2>5. eePc = "wrap_rewind" => Len(queue') = 0
    <3>1. Len(queue) \in Nat /\ Len(queue') = Len(queue) - 1
      BY <2>1, <1>0 DEF TypeOK
    <3>2. ASSUME eePc = "wrap_rewind", Len(queue) > 1
          PROVE  FALSE
      <4>1. queue[2].pos = 0 /\ Inside(queue[2]) /\ Inside(queue[1]) /\ EndPos = 0
        BY <3>1, <3>2, <2>1, <1>0 DEF LayoutInv, Chained, NextPos, AllInside, EndPos
      <4>2. queue[2].len \in 0 .. MaxPacketSize
        BY <3>1, <3>2, <1>0, QueueElement DEF TypeOK
      <4> QED BY <4>1, <4>2, <2>1, <1>a DEF Inside, After
    <3>3. Len(queue) > 0
      BY <2>1
    <3>4. eePc = "wrap_rewind" => Len(queue) = 1
      BY <3>1, <3>2, <3>3
    <3>5. Len(queue) = 1 => Len(queue') = 0
      BY <3>1
    <3> QED BY <3>4, <3>5
  <2>6. EEReady'
    BY <2>1, <2>3, <2>4, <2>5, <1>0
  <2>7. GSReady' /\ ResetLosesNothing'
    BY <2>1, <1>0 DEF GSReady, ResetLosesNothing
  <2> QED BY <2>6, <2>7
<1>44. CASE UNCHANGED vars
  BY <1>44, <1>0 DEF vars, GSReady, ResetLosesNothing, RoomFor
<1> QED BY <1>1, <1>2, <1>3, <1>4, <1>5, <1>6, <1>7, <1>8, <1>9, <1>10, <1>11, <1>12, <1>13, <1>14, <1>15, <1>16, <1>17, <1>18, <1>19, <1>20, <1>21, <1>22, <1>23, <1>24, <1>25, <1>26, <1>27, <1>28, <1>29, <1>30, <1>31, <1>32, <1>33, <1>34, <1>35, <1>36, <1>37, <1>38, <1>39, <1>40, <1>41, <1>42, <1>43, <1>44
       DEF Next, EEStep, EEBegin, GSStep, Done

(* The inductive invariant holds from the start... *)
LEMMA InitInv == Init => RingInv
<1> SUFFICES ASSUME Init PROVE RingInv
  OBVIOUS
<1> USE RingAssumption DEF Init
<1>1. TypeOK
  <2>1. Nothing \in QwordSet
    BY DEF QwordSet, Nothing, Tag
  <2>2. 0 \in Slot
    BY DEF Slot
  <2> QED BY <2>1, <2>2 DEF TypeOK, EEPc, GSPc
<1>2. queue = <<>> /\ Len(queue) = 0
  OBVIOUS
<1>3. LayoutInv
  BY <1>2 DEF LayoutInv, Chained, AllInside, AllInOrder, AllStored, EndPos
<1>4. EEReady /\ GSReady /\ ResetLosesNothing
  BY <1>2 DEF EEReady, GSReady, ResetLosesNothing, SendingSimple, Restarting
<1> QED BY <1>1, <1>3, <1>4 DEF RingInv

(* ... and every step of either thread keeps it: at any buffer size, for   *)
(* any packets, the queued packets tile the buffer between m_RingPos and   *)
(* m_WritePos and each of them is still stored whole.                      *)
THEOREM RingInvariant == Spec => []RingInv
<1>1. RingInv /\ [Next]_vars => RingInv'
  <2> SUFFICES ASSUME RingInv, [Next]_vars PROVE RingInv'
    OBVIOUS
  <2>1. TypeOK'
    BY TypeStep DEF RingInv
  <2>2. LayoutInv'
    BY LayoutStep
  <2>3. EEReady' /\ GSReady' /\ ResetLosesNothing'
    BY ReadyStep
  <2> QED BY <2>1, <2>2, <2>3 DEF RingInv
<1> QED BY InitInv, <1>1, PTL DEF Spec

(* The type invariant of the ring. *)
THEOREM TypeCorrect == Spec => []TypeOK
<1>1. RingInv => TypeOK
  BY DEF RingInv
<1> QED BY RingInvariant, <1>1, PTL

(* The positions tell an empty ring from one that is not. *)
THEOREM EmptyExactly == Spec => []EqualMeansEmpty
<1>1. RingInv => EqualMeansEmpty
  BY PositionsTell
<1> QED BY RingInvariant, <1>1, PTL

(* When Reset moves m_RingPos nothing is lost by it. *)
THEOREM ResetSafe == Spec => []ResetLosesNothing
<1>1. RingInv => ResetLosesNothing
  BY DEF RingInv
<1> QED BY RingInvariant, <1>1, PTL

(* No store of the EE thread touches a qword that is still to be read. *)
LEMMA TargetFree ==
  ASSUME RingInv
  PROVE  NoOverwrite
<1> USE RingAssumption
<1>0. TypeOK /\ LayoutInv /\ EEReady
  BY DEF RingInv
<1>1. /\ m_RingPos \in Int /\ m_WritePos \in Int /\ RingBufferSize \in Int
      /\ m_WritePos >= 0 /\ m_RingPos < RingBufferSize
      /\ m_packet_size \in Int /\ m_packet_size >= 0
      /\ m_packet_size + 1 \in 1 .. RingBufferSize /\ 1 \in 1 .. RingBufferSize
  BY <1>0 DEF TypeOK, Slot
<1>2. ASSUME NEW n \in 1 .. RingBufferSize, RoomFor(n), eePc # "wrap_rewind",
             \A s \in WriteTarget : s \in Int /\ m_WritePos <= s /\ s < m_WritePos + n
      PROVE  NoOverwrite
  <2>1. WriteTarget \subseteq Slot
    BY <1>1, <1>2 DEF RoomFor, Slot
  <2>2. \A i \in 1 .. Len(queue) :
          \A s \in SlotsOf(queue[i]) : s < m_WritePos \/ s >= m_WritePos + n
    BY <1>0, <1>2, OverwriteFree
  <2>3. ASSUME NEW i \in 1 .. Len(queue), NEW s \in WriteTarget, s \in SlotsOf(queue[i])
        PROVE  FALSE
    <3>1. s < m_WritePos \/ s >= m_WritePos + n
      BY <2>2, <2>3
    <3> QED BY <3>1, <1>1, <1>2
  <2> QED BY <2>1, <2>3 DEF NoOverwrite
<1>3. CASE eePc \in {"simple_write"}
  <2>1. WriteTarget = {m_WritePos}
    BY <1>3 DEF WriteTarget
  <2> QED BY <2>1, <1>0, <1>1, <1>2, <1>3 DEF EEReady
<1>4. CASE eePc \in {"data_tag", "data_copy"}
  <2>1. WriteTarget \subseteq m_WritePos .. m_WritePos + m_packet_size
    BY <1>1, <1>4 DEF WriteTarget, DataSlots
  <2>2. RoomFor(m_packet_size + 1)
    BY <1>0, <1>4 DEF EEReady
  <2> QED BY <2>1, <2>2, <1>1, <1>2, <1>4
<1>5. CASE eePc \notin {"simple_write", "data_tag", "data_copy"}
  BY <1>5 DEF WriteTarget, NoOverwrite
<1> QED BY <1>3, <1>4, <1>5

(* The EE thread never overwrites a packet the GS thread has not passed. *)
THEOREM NeverOverwrites == Spec => []NoOverwrite
<1>1. RingInv => NoOverwrite
  BY TargetFree
<1> QED BY RingInvariant, <1>1, PTL

(* The packet the GS thread is about to act on is the oldest, and whole. *)
LEMMA HeadIsWhole ==
  ASSUME RingInv
  PROVE  NoTornRead
<1> USE RingAssumption
<1> SUFFICES ASSUME gsPc = "handle"
             PROVE  queue # <<>> /\ PacketRead = Sent(Head(queue))
  BY DEF NoTornRead
<1>0. TypeOK /\ LayoutInv /\ GSReady
  BY DEF RingInv
<1>1. /\ queue \in Seq(QueuedPacket) /\ Len(queue) \in Nat /\ Len(queue) > 0
      /\ queue # <<>> /\ Head(queue) = queue[1] /\ 1 \in 1 .. Len(queue)
  BY <1>0 DEF TypeOK, GSReady
<1>2. m_RingPos = queue[1].pos /\ Inside(queue[1]) /\ Stored(queue[1])
  BY <1>0, <1>1 DEF LayoutInv, Chained, AllInside, AllStored
<1>3. /\ queue[1].pos \in 0 .. RingBufferSize - 1 /\ queue[1].len \in 0 .. MaxPacketSize
      /\ EndPos \in Int /\ EndPos < RingBufferSize
  BY <1>0, <1>1, QueueElement DEF TypeOK, EndPos, Slot
<1>4. m_RingBuffer[m_RingPos] = Sent(queue[1])
  BY <1>2 DEF Stored
<1>5. /\ m_RingBuffer[m_RingPos].len = queue[1].len
      /\ m_RingBuffer[m_RingPos].data = queue[1].data
  BY <1>4 DEF Sent, Tag
<1>6. ASSUME NEW k \in 1 .. queue[1].len
      PROVE  /\ m_RingPos + k < RingBufferSize
             /\ m_RingBuffer[m_RingPos + k] = Qword(queue[1].data)
  <2>1. m_RingPos + k < RingBufferSize
    BY <1>2, <1>3 DEF Inside, After
  <2> QED BY <2>1, <1>2 DEF Stored
<1>7. PacketRead = m_RingBuffer[m_RingPos]
  BY <1>5, <1>6 DEF PacketRead
<1> QED BY <1>1, <1>4, <1>7

(* The GS thread never acts on a packet that is not what the EE sent. *)
THEOREM NeverTorn == Spec => []NoTornRead
<1>1. RingInv => NoTornRead
  BY HeadIsWhole
<1> QED BY RingInvariant, <1>1, PTL

(* WaitGS leaves its loop only when the GS thread has finished it all. *)
THEOREM WaitDrains == Spec => WaitReturnsDrained
<1>1. RingInv /\ [Next]_vars
        => [eePc = "wait_spin" /\ eePc' # "wait_spin" => queue = <<>>]_vars
  <2> SUFFICES ASSUME RingInv, [Next]_vars, eePc = "wait_spin", eePc' # "wait_spin"
               PROVE  queue = <<>>
    OBVIOUS
  <2>1. m_RingPos = m_WritePos
    BY DEF Next, EEStep, EEBegin, GSStep, Done, vars, eeSide, eeVars, gsVars, ringVars, tallies,
           GSGoto, EEOnly, EEGoto, CallSimple, StartUpload,
           SimplePrep, SimpleSpin, SimpleWrite, SimplePublish, DataStall, FitStall,
           WrapStall, WrapLock, WrapRewind, WrapUnlock, WrapPost, WrapBegin, DataTag,
           DataCopy, DataPublish, DataKick, VsyncThrottle, VsyncCheck, VsyncCount,
           PostEvent, WaitPost, WaitSpin, ResetPos, ResetSkip, ResetMode, QuitPost, Join,
           PrepFits, PrepWraps, PrepExact, SendSimple, PostVsyncEnd, StartWaitGS,
           StartFreeze, StartClose, GSWait, GSBusy, GSLoop, GSRest, GSHandle, GSAdvance,
           GSRestart, GSRestartLock
  <2> QED BY <2>1, PositionsTell DEF EqualMeansEmpty
<1> QED BY RingInvariant, <1>1, PTL DEF WaitReturnsDrained, Spec
-----------------------------------------------------------------------------
(* What the packets mean: the frames they count, and the stream they are.  *)

(* The simple packet is one exactly while the EE thread is sending it. *)
LEMMA SimpleStep ==
  ASSUME RingInv, Bookkeeping, [Next]_vars
  PROVE  /\ SendingSimple' => simple'.cmd \in SimpleCommand
         /\ ~SendingSimple' => simple' = Nothing
<1> USE DEF EEGoto, CallSimple, StartUpload, EEOnly, eeVars, SendingSimple, SimpleCommand
<1>0. /\ EEReady
      /\ SendingSimple => simple.cmd \in SimpleCommand
      /\ ~SendingSimple => simple = Nothing
  BY DEF RingInv, Bookkeeping
<1>1. CASE UNCHANGED eeVars
  BY <1>0, <1>1
<1>2. CASE SimplePrep \/ SimpleSpin \/ SimpleWrite
  BY <1>0, <1>2 DEF SimplePrep, SimpleSpin, SimpleWrite
<1>3. CASE SimplePublish
  BY <1>0, <1>3 DEF SimplePublish, EEReady, Restarting
<1>4. CASE DataStall \/ FitStall \/ WrapStall \/ WrapRewind \/ WrapUnlock \/ WrapPost
             \/ WrapBegin
  BY <1>0, <1>4 DEF DataStall, FitStall, WrapStall, WrapRewind, WrapUnlock, WrapPost, WrapBegin
<1>5. CASE DataTag \/ DataCopy \/ DataPublish \/ DataKick \/ VsyncThrottle \/ VsyncCheck
  BY <1>0, <1>5 DEF DataTag, DataCopy, DataPublish, DataKick, VsyncThrottle, VsyncCheck
<1>6. CASE WrapLock \/ VsyncCount \/ ResetPos \/ ResetSkip \/ ResetMode
             \/ SendSimple \/ StartFreeze \/ StartClose
  BY <1>6 DEF WrapLock, VsyncCount, ResetPos, ResetSkip, ResetMode, SendSimple, StartFreeze,
              StartClose, Tag
<1>7. CASE PostEvent \/ WaitPost \/ QuitPost \/ Join
  BY <1>0, <1>7 DEF PostEvent, WaitPost, QuitPost, Join
<1>8. CASE WaitSpin
  BY <1>0, <1>8 DEF WaitSpin, EEReady
<1>9. CASE PrepFits \/ PrepWraps \/ PrepExact
  BY <1>0, <1>9 DEF PrepFits, PrepWraps, PrepExact
<1>10. CASE PostVsyncEnd \/ StartWaitGS
  BY <1>0, <1>10 DEF PostVsyncEnd, StartWaitGS
<1>11. CASE GSStep
  BY <1>1, <1>11 DEF GSStep, GSWait, GSBusy, GSLoop, GSRest, GSHandle, GSAdvance, GSRestart,
                     GSRestartLock, GSGoto, eeSide
<1>12. CASE UNCHANGED vars
  BY <1>1, <1>12 DEF vars
<1> QED BY <1>2, <1>3, <1>4, <1>5, <1>6, <1>7, <1>8, <1>9, <1>10, <1>11, <1>12
        DEF Next, EEStep, EEBegin, Done

(* What a step may do to the packets: send one, ... *)
Sends(p) ==
  /\ p \in QueuedPacket /\ p.cmd # "none"
  /\ queue' = Append(queue, p)
  /\ UNCHANGED <<handled, gsPc, m_QueuedFrames>>
  /\ p.cmd = "VSYNC" <=> simple.cmd = "VSYNC"
  /\ simple'.cmd # "VSYNC"

(* ... act on the oldest, ... *)
ActsOnHead ==
  /\ Len(queue) > 0 /\ queue[1].cmd # "RESTART"
  /\ gsPc = "handle" /\ handled' = Sent(queue[1])
  /\ gsPc' = IF queue[1].cmd = "QUIT" THEN "quit" ELSE "advance"
  /\ m_QueuedFrames' = IF queue[1].cmd = "VSYNC" THEN m_QueuedFrames - 1 ELSE m_QueuedFrames
  /\ UNCHANGED <<queue, simple>>

(* ... pass it, ... *)
PassesHead ==
  /\ Len(queue) > 0 /\ queue[1].cmd # "RESTART"
  /\ gsPc = "advance" /\ gsPc' = "loop"
  /\ handled = Sent(queue[1]) /\ handled' = Nothing
  /\ queue' = Tail(queue)
  /\ UNCHANGED <<simple, m_QueuedFrames>>

(* ... pass a RESTART, ... *)
PassesRestart ==
  /\ Len(queue) > 0 /\ queue[1].cmd = "RESTART"
  /\ gsPc = "restart" /\ gsPc' = "restart_lock"
  /\ queue' = Tail(queue)
  /\ UNCHANGED <<handled, simple, m_QueuedFrames>>

(* ... count a frame that is about to be sent, forget that any are queued  *)
(* when none is, ...                                                       *)
CountsFrame ==
  /\ simple.cmd # "VSYNC" /\ simple'.cmd = "VSYNC"
  /\ m_QueuedFrames' = m_QueuedFrames + 1
  /\ UNCHANGED <<queue, handled, gsPc>>
ForgetsFrames ==
  /\ queue = <<>> /\ gsPc # "advance"
  /\ simple.cmd # "VSYNC" /\ m_QueuedFrames' = 0
  /\ UNCHANGED <<queue, handled, gsPc, simple>>

(* ... or nothing that shows. *)
LeavesPackets ==
  /\ UNCHANGED <<queue, handled, m_QueuedFrames>>
  /\ simple'.cmd = "VSYNC" <=> simple.cmd = "VSYNC"
  /\ gsPc' = gsPc \/ {gsPc, gsPc'} \cap {"advance", "quit"} = {}

LEMMA Effects ==
  ASSUME RingInv, Bookkeeping, [Next]_vars
  PROVE  \/ \E p : Sends(p)
         \/ ActsOnHead \/ PassesHead \/ PassesRestart
         \/ CountsFrame \/ ForgetsFrames \/ LeavesPackets
<1> USE RingAssumption
<1> USE DEF EEGoto, CallSimple, StartUpload, EEOnly, GSGoto, eeSide, ringVars,
            tallies, gsVars, eeVars
<1>0. /\ TypeOK /\ LayoutInv /\ GSReady /\ ResetLosesNothing
      /\ queue \in Seq(QueuedPacket) /\ Len(queue) \in Nat
      /\ SendingSimple => simple.cmd \in SimpleCommand
      /\ ~SendingSimple => simple.cmd # "VSYNC"
      /\ gsPc = "advance" => handled = Sent(queue[1])
  BY DEF RingInv, Bookkeeping, TypeOK, Nothing, Tag
<1>1. CASE SimplePrep \/ SimpleSpin \/ SimpleWrite
  BY <1>1 DEF SimplePrep, SimpleSpin, SimpleWrite, LeavesPackets
<1>2. CASE SimplePublish
  <2> DEFINE p == [pos |-> m_WritePos, cmd |-> simple.cmd,
                   len |-> simple.len, data |-> simple.data]
  <2>1. p \in QueuedPacket /\ p.cmd # "none"
    BY <1>0, <1>2 DEF SimplePublish, TypeOK, QwordSet, QueuedPacket, SendingSimple, SimpleCommand
  <2>2. queue' = Append(queue, p) /\ UNCHANGED <<handled, gsPc, m_QueuedFrames>>
    BY <1>2 DEF SimplePublish, Publish
  <2>3. p.cmd = simple.cmd /\ simple'.cmd # "VSYNC"
    BY <1>2 DEF SimplePublish, Nothing, Tag
  <2> QED BY <2>1, <2>2, <2>3 DEF Sends
<1>3. CASE DataPublish
  <2> DEFINE p == [pos |-> m_WritePos, cmd |-> "DATA",
                   len |-> m_packet_size, data |-> upload]
  <2>1. p \in QueuedPacket /\ p.cmd # "none"
    BY <1>0 DEF TypeOK, QueuedPacket, Command
  <2>2. queue' = Append(queue, p) /\ UNCHANGED <<handled, gsPc, m_QueuedFrames, simple>>
    BY <1>3 DEF DataPublish, Publish, Tag
  <2>3. p.cmd # "VSYNC" /\ simple.cmd # "VSYNC"
    BY <1>0, <1>3 DEF DataPublish, SendingSimple
  <2> QED BY <2>1, <2>2, <2>3 DEF Sends
<1>4. CASE DataStall \/ FitStall \/ WrapStall \/ WrapRewind \/ WrapUnlock \/ WrapPost
             \/ WrapBegin
  BY <1>4 DEF DataStall, FitStall, WrapStall, WrapRewind, WrapUnlock, WrapPost, WrapBegin,
              LeavesPackets
<1>5. CASE DataTag \/ DataCopy \/ DataKick \/ VsyncThrottle
  BY <1>5 DEF DataTag, DataCopy, DataKick, VsyncThrottle, LeavesPackets
<1>6. CASE WrapLock \/ ResetSkip \/ ResetMode \/ SendSimple \/ StartFreeze \/ StartClose
  BY <1>0, <1>6 DEF WrapLock, ResetSkip, ResetMode, SendSimple, StartFreeze, StartClose, Tag,
                    SendingSimple, LeavesPackets
<1>7. CASE PostEvent \/ WaitPost \/ QuitPost \/ Join \/ WaitSpin \/ PostVsyncEnd \/ StartWaitGS
  BY <1>7 DEF PostEvent, WaitPost, QuitPost, Join, WaitSpin, PostVsyncEnd, StartWaitGS,
              LeavesPackets
<1>8. CASE PrepFits \/ PrepWraps \/ PrepExact
  BY <1>8 DEF PrepFits, PrepWraps, PrepExact, LeavesPackets
<1>9. CASE VsyncCheck
  <2>1. CASE m_WritePos = m_RingPos
    <3>1. queue = <<>>
      BY <1>9, <2>1, PositionsTell DEF VsyncCheck, EqualMeansEmpty
    <3>2. gsPc # "advance" /\ simple.cmd # "VSYNC"
      BY <3>1, <1>0, <1>9 DEF GSReady, VsyncCheck, SendingSimple
    <3> QED BY <1>9, <2>1, <3>1, <3>2 DEF VsyncCheck, ForgetsFrames
  <2>2. CASE m_WritePos # m_RingPos
    BY <1>9, <2>2 DEF VsyncCheck, LeavesPackets
  <2> QED BY <2>1, <2>2
<1>10. CASE VsyncCount
  BY <1>0, <1>10 DEF VsyncCount, Tag, SendingSimple, CountsFrame
<1>11. CASE ResetPos
  BY <1>0, <1>11 DEF ResetPos, Tag, SendingSimple, ResetLosesNothing, LeavesPackets
<1>12. CASE GSWait \/ GSBusy \/ GSLoop \/ GSRest \/ GSRestartLock
  BY <1>12 DEF GSWait, GSBusy, GSLoop, GSRest, GSRestartLock, LeavesPackets
<1>13. CASE GSHandle
  <2>1. Len(queue) > 0 /\ queue[1].cmd # "RESTART"
    BY <1>0, <1>13 DEF GSReady, GSHandle
  <2>2. PacketRead = Sent(queue[1])
    BY <1>13, <2>1, <1>0, HeadIsWhole DEF NoTornRead, GSHandle
  <2>3. PacketRead.cmd = queue[1].cmd
    BY <2>2 DEF Sent, Tag
  <2> QED BY <1>13, <2>1, <2>2, <2>3 DEF GSHandle, ActsOnHead
<1>14. CASE GSAdvance
  BY <1>0, <1>14 DEF GSAdvance, GSReady, PassesHead
<1>15. CASE GSRestart
  BY <1>0, <1>15 DEF GSRestart, GSReady, PassesRestart
<1>16. CASE UNCHANGED vars
  BY <1>16 DEF vars, LeavesPackets
<1> QED BY <1>1, <1>2, <1>3, <1>4, <1>5, <1>6, <1>7, <1>8, <1>9, <1>10, <1>11, <1>12, <1>13,
           <1>14, <1>15, <1>16 DEF Next, EEStep, EEBegin, GSStep, Done
(* Sending a packet counts it when it is a vsync... *)
LEMMA CountAppend ==
  ASSUME TypeOK, NEW p \in QueuedPacket, queue' = Append(queue, p)
  PROVE  /\ VsyncsQueued \in Nat
         /\ VsyncsQueued' = IF p.cmd = "VSYNC" THEN VsyncsQueued + 1 ELSE VsyncsQueued
<1> DEFINE n == Len(queue)
           S == {i \in 1 .. n : queue[i].cmd = "VSYNC"}
<1>1. /\ n \in Nat /\ Len(queue') = n + 1
      /\ \A i \in 1 .. n : queue'[i] = queue[i]
      /\ queue'[n + 1] = p
  BY DEF TypeOK
<1>2. IsFiniteSet(1 .. n)
  <2>1. 1 \in Int /\ n \in Int
    BY <1>1
  <2> HIDE DEF n
  <2> QED BY <2>1, FS_Interval
<1>3. IsFiniteSet(S) /\ Cardinality(S) \in Nat
  BY <1>2, FS_Subset, FS_CardinalityType
<1>4. {i \in 1 .. Len(queue') : queue'[i].cmd = "VSYNC"}
        = IF p.cmd = "VSYNC" THEN S \cup {n + 1} ELSE S
  BY <1>1
<1>5. n + 1 \notin S
  BY <1>1
<1>6. Cardinality(S \cup {n + 1}) = Cardinality(S) + 1
  BY <1>3, <1>5, FS_AddElement
<1> QED BY <1>3, <1>4, <1>6 DEF VsyncsQueued

(* ... and passing one uncounts it. *)
LEMMA CountTail ==
  ASSUME TypeOK, Len(queue) > 0, queue' = Tail(queue)
  PROVE  /\ VsyncsQueued \in Nat
         /\ VsyncsQueued' = IF queue[1].cmd = "VSYNC" THEN VsyncsQueued - 1 ELSE VsyncsQueued
<1> DEFINE n == Len(queue)
           S == {i \in 1 .. n : queue[i].cmd = "VSYNC"}
           T == {i \in 1 .. n - 1 : queue[i + 1].cmd = "VSYNC"}
           f == [i \in T |-> i + 1]
<1>1. /\ n \in Nat /\ n >= 1 /\ Len(queue') = n - 1
      /\ \A i \in 1 .. n - 1 : queue'[i] = queue[i + 1]
  BY DEF TypeOK
<1>2. IsFiniteSet(1 .. n) /\ IsFiniteSet(1 .. n - 1)
  BY <1>1, FS_Interval
<1>3. IsFiniteSet(S) /\ Cardinality(S) \in Nat
  BY <1>2, FS_Subset, FS_CardinalityType
<1>4. IsFiniteSet(T)
  BY <1>2, FS_Subset
<1>5. {i \in 1 .. Len(queue') : queue'[i].cmd = "VSYNC"} = T
  BY <1>1
<1>6. ExistsBijection(T, S \ {1})
  <2>1. f \in [T -> S \ {1}]
    BY <1>1
  <2>2. \A a, b \in DOMAIN f : f[a] = f[b] => a = b
    BY <1>1
  <2>3. ASSUME NEW t \in S \ {1}
        PROVE  \E s \in T : f[s] = t
    <3>1. t - 1 \in T /\ f[t - 1] = t
      BY <1>1
    <3> QED BY <3>1
  <2>4. f \in Bijection(T, S \ {1})
    BY <2>1, <2>2, <2>3 DEF Bijection, Injection, IsInjective, Surjection
  <2> QED BY <2>4 DEF ExistsBijection
<1>7. Cardinality(T) = Cardinality(S \ {1})
  BY <1>4, <1>6, FS_Bijection
<1>8. Cardinality(S \ {1}) = IF queue[1].cmd = "VSYNC" THEN Cardinality(S) - 1
                                                        ELSE Cardinality(S)
  <2>1. 1 \in S <=> queue[1].cmd = "VSYNC"
    BY <1>1
  <2> HIDE DEF S
  <2> QED BY <2>1, <1>3, FS_RemoveElement
<1>9. VsyncsQueued = Cardinality(S) /\ VsyncsQueued' = Cardinality(T)
  BY <1>5 DEF VsyncsQueued
<1> HIDE DEF S, T
<1> QED BY <1>3, <1>7, <1>8, <1>9

(* Every step keeps m_QueuedFrames the number of vsyncs on their way. *)
LEMMA FramesStep ==
  ASSUME RingInv, Bookkeeping, FramesCounted, [Next]_vars
  PROVE  FramesCounted'
<1>0. TypeOK /\ m_QueuedFrames \in Int
  BY DEF RingInv, TypeOK
<1>1. UNCHANGED queue => VsyncsQueued' = VsyncsQueued
  BY DEF VsyncsQueued
<1>2. VsyncsQueued \in Nat
  <2>1. IsFiniteSet(1 .. Len(queue))
    BY <1>0, FS_Interval DEF TypeOK
  <2> QED BY <2>1, FS_Subset, FS_CardinalityType DEF VsyncsQueued
<1>3. ASSUME NEW p, Sends(p)
      PROVE  FramesCounted'
  <2>1. VsyncsQueued' = IF p.cmd = "VSYNC" THEN VsyncsQueued + 1 ELSE VsyncsQueued
    BY <1>0, <1>3, CountAppend DEF Sends
  <2> QED BY <2>1, <1>0, <1>2, <1>3 DEF Sends, FramesCounted
<1>4. CASE ActsOnHead
  BY <1>0, <1>1, <1>2, <1>4 DEF ActsOnHead, FramesCounted, Sent, Tag
<1>5. CASE PassesHead
  <2>1. VsyncsQueued' = IF queue[1].cmd = "VSYNC" THEN VsyncsQueued - 1 ELSE VsyncsQueued
    BY <1>0, <1>5, CountTail DEF PassesHead
  <2> QED BY <2>1, <1>0, <1>2, <1>5 DEF PassesHead, FramesCounted, Sent, Tag
<1>6. CASE PassesRestart
  <2>1. VsyncsQueued' = VsyncsQueued
    BY <1>0, <1>6, CountTail DEF PassesRestart
  <2> QED BY <2>1, <1>0, <1>2, <1>6 DEF PassesRestart, FramesCounted
<1>7. CASE CountsFrame
  BY <1>0, <1>1, <1>2, <1>7 DEF CountsFrame, FramesCounted
<1>8. CASE ForgetsFrames
  <2>1. VsyncsQueued = 0
    <3>1. {i \in 1 .. Len(queue) : queue[i].cmd = "VSYNC"} = {}
      BY <1>8 DEF ForgetsFrames
    <3> QED BY <3>1, FS_EmptySet DEF VsyncsQueued
  <2> QED BY <2>1, <1>0, <1>1, <1>8 DEF ForgetsFrames, FramesCounted
<1>9. CASE LeavesPackets
  BY <1>0, <1>1, <1>2, <1>9 DEF LeavesPackets, FramesCounted
<1> QED BY <1>3, <1>4, <1>5, <1>6, <1>7, <1>8, <1>9, Effects

(* The GS thread remembers the packet it stands on until it has passed it. *)
LEMMA HandledStep ==
  ASSUME RingInv, Bookkeeping, [Next]_vars
  PROVE  gsPc' = "advance" => handled' = Sent(queue[1])'
<1> USE DEF Sent, Tag
<1>0. /\ queue \in Seq(QueuedPacket) /\ Len(queue) \in Nat
      /\ gsPc = "advance" => Len(queue) > 0 /\ handled = Sent(queue[1])
  BY DEF RingInv, TypeOK, GSReady, Bookkeeping
<1>1. ASSUME NEW p, Sends(p)
      PROVE  gsPc' = "advance" => handled' = Sent(queue[1])'
  <2>1. Len(queue) > 0 => queue'[1] = queue[1]
    BY <1>0, <1>1 DEF Sends
  <2> QED BY <2>1, <1>0, <1>1 DEF Sends
<1>2. CASE ActsOnHead \/ PassesHead \/ PassesRestart
  BY <1>2 DEF ActsOnHead, PassesHead, PassesRestart
<1>3. CASE CountsFrame \/ ForgetsFrames \/ LeavesPackets
  BY <1>0, <1>3 DEF CountsFrame, ForgetsFrames, LeavesPackets
<1> QED BY <1>1, <1>2, <1>3, Effects

StreamInv == RingInv /\ Bookkeeping /\ FramesCounted

(* With the layout, what the two threads hold besides the buffer is        *)
(* inductive.                                                              *)
LEMMA StreamInvariant == Spec => []StreamInv
<1>1. Init => StreamInv
  <2> SUFFICES ASSUME Init PROVE StreamInv
    OBVIOUS
  <2>1. RingInv
    BY InitInv
  <2>2. Bookkeeping
    BY DEF Init, Bookkeeping, SendingSimple
  <2>3. FramesCounted
    <3>1. {i \in 1 .. Len(queue) : queue[i].cmd = "VSYNC"} = {}
      BY DEF Init
    <3>2. VsyncsQueued = 0
      BY <3>1, FS_EmptySet DEF VsyncsQueued
    <3> QED BY <3>2 DEF Init, FramesCounted, Nothing, Tag
  <2> QED BY <2>1, <2>2, <2>3 DEF StreamInv
<1>2. RingInv /\ [Next]_vars => RingInv'
  BY TypeStep, LayoutStep, ReadyStep DEF RingInv
<1>3. StreamInv /\ [Next]_vars => StreamInv'
  BY <1>2, SimpleStep, HandledStep, FramesStep DEF StreamInv, Bookkeeping
<1> QED BY <1>1, <1>3, PTL DEF Spec

(* m_QueuedFrames counts the vsyncs the GS thread has still to display,    *)
(* however the two threads interleave their updates of it.                 *)
THEOREM FramesAlwaysCounted == Spec => []FramesCounted
<1>1. StreamInv => FramesCounted
  BY DEF StreamInv
<1> QED BY StreamInvariant, <1>1, PTL
(* A RESTART is behind the reader's way to the end of the buffer, and no   *)
(* other packet can follow it there: the queue never holds two.            *)
OneRestart(q) ==
  \A i, j \in 1 .. Len(q) : i < j => ~(q[i].cmd = "RESTART" /\ q[j].cmd = "RESTART")

LEMMA RestartsOnce ==
  ASSUME RingInv
  PROVE  OneRestart(queue)
<1>0. TypeOK /\ LayoutInv
  BY DEF RingInv
<1> SUFFICES ASSUME NEW i \in 1 .. Len(queue), NEW j \in 1 .. Len(queue), i < j,
                    queue[i].cmd = "RESTART", queue[j].cmd = "RESTART"
             PROVE  FALSE
  BY DEF OneRestart
<1>1. queue[j].pos \in Int /\ m_RingPos \in Int
  BY <1>0, QueueElement DEF TypeOK, Slot
<1>2. InOrder(queue[i], queue[j]) /\ Inside(queue[j])
  BY <1>0 DEF LayoutInv, AllInOrder, AllInside
<1> QED BY <1>1, <1>2 DEF InOrder, Inside

(* The stream's view of a queue is a sequence, short of the queue by the   *)
(* RESTART when there is one.                                              *)
LEMMA RealOnes ==
  ASSUME NEW q \in Seq(QueuedPacket)
  PROVE  /\ RealPackets(q) \in Seq(QwordSet)
         /\ Len(RealPackets(q)) = IF RestartBy(q, Len(q)) THEN Len(q) - 1 ELSE Len(q)
         /\ \A i \in 1 .. Len(RealPackets(q)) :
              RealPackets(q)[i] = Sent(q[IF RestartBy(q, i) THEN i + 1 ELSE i])
<1> DEFINE m == IF RestartBy(q, Len(q)) THEN Len(q) - 1 ELSE Len(q)
           elem(i) == Sent(q[IF RestartBy(q, i) THEN i + 1 ELSE i])
<1>1. Len(q) \in Nat
  OBVIOUS
<1>2. m \in Nat
  BY <1>1 DEF RestartBy
<1>3. ASSUME NEW i \in 1 .. m
      PROVE  elem(i) \in QwordSet
  <2>1. (IF RestartBy(q, i) THEN i + 1 ELSE i) \in 1 .. Len(q)
    <3>1. RestartBy(q, i) => RestartBy(q, Len(q))
      BY <1>1, <1>2 DEF RestartBy
    <3> QED BY <3>1, <1>1, <1>2
  <2>2. PICK k \in 1 .. Len(q) : k = IF RestartBy(q, i) THEN i + 1 ELSE i
    BY <2>1
  <2>3. q[k] \in QueuedPacket
    BY <1>1
  <2>4. Sent(q[k]) \in QwordSet
    BY <2>3 DEF Sent, Tag, QwordSet, QueuedPacket
  <2> QED BY <2>2, <2>4
<1>4. RealPackets(q) = [i \in 1 .. m |-> elem(i)]
  BY DEF RealPackets
<1> HIDE DEF m, elem
<1>5. RealPackets(q) \in [1 .. m -> QwordSet]
  BY <1>3, <1>4
<1>6. RealPackets(q) \in Seq(QwordSet) /\ Len(RealPackets(q)) = m
  BY <1>2, <1>5
<1> QED BY <1>4, <1>6 DEF m, elem

(* Passing a RESTART does not show in the stream... *)
LEMMA RestartPassed ==
  ASSUME NEW q \in Seq(QueuedPacket), Len(q) > 0, q[1].cmd = "RESTART", OneRestart(q)
  PROVE  RealPackets(Tail(q)) = RealPackets(q)
<1> DEFINE t == Tail(q)
<1>1. /\ Len(q) \in Nat /\ t \in Seq(QueuedPacket) /\ Len(t) = Len(q) - 1
      /\ \A i \in 1 .. Len(t) : t[i] = q[i + 1]
  OBVIOUS
<1> HIDE DEF t
<1>2. \A i \in 1 .. Len(q) : RestartBy(q, i)
  BY <1>1 DEF RestartBy
<1>3. \A i \in 1 .. Len(t) : ~RestartBy(t, i)
  BY <1>1, SMTT(30) DEF RestartBy, OneRestart
<1>4. /\ RealPackets(q) \in Seq(QwordSet) /\ Len(RealPackets(q)) = Len(q) - 1
      /\ \A i \in 1 .. Len(q) - 1 : RealPackets(q)[i] = Sent(q[i + 1])
  BY <1>1, <1>2, RealOnes
<1>5. /\ RealPackets(t) \in Seq(QwordSet) /\ Len(RealPackets(t)) = Len(t)
      /\ \A i \in 1 .. Len(t) : RealPackets(t)[i] = Sent(t[i])
  <2>1. ~RestartBy(t, Len(t))
    BY <1>1, <1>3 DEF RestartBy
  <2> QED BY <2>1, <1>1, <1>3, RealOnes
<1>6. RealPackets(t) = RealPackets(q)
  <2>1. Len(RealPackets(t)) = Len(RealPackets(q))
    BY <1>1, <1>4, <1>5
  <2>2. \A i \in 1 .. Len(RealPackets(t)) : RealPackets(t)[i] = RealPackets(q)[i]
    BY <1>1, <1>4, <1>5
  <2> QED BY <1>4, <1>5, <2>1, <2>2, SeqEqual
<1> QED BY <1>6 DEF t

(* ... nor does sending one; *)
LEMMA RestartSent ==
  ASSUME NEW q \in Seq(QueuedPacket), NEW p \in QueuedPacket, p.cmd = "RESTART",
         OneRestart(Append(q, p))
  PROVE  RealPackets(Append(q, p)) = RealPackets(q)
<1> DEFINE a == Append(q, p)
<1>1. /\ Len(q) \in Nat /\ a \in Seq(QueuedPacket) /\ Len(a) = Len(q) + 1
      /\ \A i \in 1 .. Len(q) : a[i] = q[i]
      /\ a[Len(q) + 1] = p
  OBVIOUS
<1> HIDE DEF a
<1>2. OneRestart(a)
  BY DEF a
<1>3. \A i \in 0 .. Len(q) : ~RestartBy(q, i) /\ ~RestartBy(a, i)
  <2>1. ASSUME NEW r \in 1 .. Len(q)
        PROVE  q[r].cmd # "RESTART" /\ a[r].cmd # "RESTART"
    BY <1>1, <1>2 DEF OneRestart
  <2> QED BY <2>1, <1>1 DEF RestartBy
<1>4. RestartBy(a, Len(a))
  BY <1>1 DEF RestartBy
<1>5. /\ RealPackets(q) \in Seq(QwordSet) /\ Len(RealPackets(q)) = Len(q)
      /\ \A i \in 1 .. Len(q) : RealPackets(q)[i] = Sent(q[i])
  BY <1>1, <1>3, RealOnes
<1>6. /\ RealPackets(a) \in Seq(QwordSet) /\ Len(RealPackets(a)) = Len(q)
      /\ \A i \in 1 .. Len(q) : RealPackets(a)[i] = Sent(a[i])
  BY <1>1, <1>3, <1>4, RealOnes
<1>7. RealPackets(a) = RealPackets(q)
  <2>1. \A i \in 1 .. Len(RealPackets(a)) : RealPackets(a)[i] = RealPackets(q)[i]
    BY <1>1, <1>5, <1>6
  <2> QED BY <1>5, <1>6, <2>1, SeqEqual
<1> QED BY <1>7 DEF a

(* ... any other packet is appended to it when it is sent, ... *)
LEMMA PacketSent ==
  ASSUME NEW q \in Seq(QueuedPacket), NEW p \in QueuedPacket, p.cmd # "RESTART"
  PROVE  RealPackets(Append(q, p)) = Append(RealPackets(q), Sent(p))
<1> DEFINE a == Append(q, p)
           m == Len(RealPackets(q))
           b == Append(RealPackets(q), Sent(p))
<1>1. /\ Len(q) \in Nat /\ a \in Seq(QueuedPacket) /\ Len(a) = Len(q) + 1
      /\ \A i \in 1 .. Len(q) : a[i] = q[i]
      /\ a[Len(q) + 1] = p
  OBVIOUS
<1>2. /\ RealPackets(q) \in Seq(QwordSet)
      /\ m = IF RestartBy(q, Len(q)) THEN Len(q) - 1 ELSE Len(q)
      /\ \A i \in 1 .. m : RealPackets(q)[i] = Sent(q[IF RestartBy(q, i) THEN i + 1 ELSE i])
  BY RealOnes
<1>3. /\ RealPackets(a) \in Seq(QwordSet)
      /\ Len(RealPackets(a)) = IF RestartBy(a, Len(a)) THEN Len(a) - 1 ELSE Len(a)
      /\ \A i \in 1 .. Len(RealPackets(a)) :
           RealPackets(a)[i] = Sent(a[IF RestartBy(a, i) THEN i + 1 ELSE i])
  BY <1>1, RealOnes
<1>4. Sent(p) \in QwordSet
  BY DEF Sent, Tag, QwordSet, QueuedPacket
<1>5. /\ b \in Seq(QwordSet) /\ Len(b) = m + 1 /\ b[m + 1] = Sent(p)
      /\ \A i \in 1 .. m : b[i] = RealPackets(q)[i]
  BY <1>2, <1>4
<1> HIDE DEF a, b
<1>6. \A i \in 1 .. Len(q) : RestartBy(a, i) <=> RestartBy(q, i)
  BY <1>1 DEF RestartBy
<1>7. /\ RestartBy(a, Len(a)) <=> RestartBy(q, Len(q))
      /\ \A i \in 1 .. Len(q) : RestartBy(q, i) => RestartBy(q, Len(q))
  BY <1>1 DEF RestartBy
<1>8. m \in Nat /\ Len(RealPackets(a)) = m + 1
  BY <1>1, <1>2, <1>3, <1>7
<1> HIDE DEF m
<1>9. ASSUME NEW i \in 1 .. m + 1
      PROVE  RealPackets(a)[i] = b[i]
  <2>1. CASE i \in 1 .. m
    <3>1. i \in 1 .. Len(q) /\ (RestartBy(q, i) => i + 1 \in 1 .. Len(q))
      BY <2>1, <1>1, <1>2, <1>7, <1>8
    <3>2. a[IF RestartBy(a, i) THEN i + 1 ELSE i] = q[IF RestartBy(q, i) THEN i + 1 ELSE i]
      BY <3>1, <1>1, <1>6
    <3> QED BY <2>1, <3>2, <1>2, <1>3, <1>5, <1>8
  <2>2. CASE i = m + 1
    <3>1. (IF RestartBy(a, i) THEN i + 1 ELSE i) = Len(q) + 1
      <4>1. CASE RestartBy(q, Len(q))
        <5>1. i = Len(q) /\ i \in 1 .. Len(q)
          BY <4>1, <2>2, <1>1, <1>2, <1>8
        <5> QED BY <4>1, <5>1, <1>6
      <4>2. CASE ~RestartBy(q, Len(q))
        <5>1. i = Len(a)
          BY <4>2, <2>2, <1>1, <1>2
        <5> QED BY <4>2, <5>1, <1>1, <1>7
      <4> QED BY <4>1, <4>2
    <3> QED BY <2>2, <3>1, <1>1, <1>3, <1>5, <1>8
  <2> QED BY <2>1, <2>2, <1>8
<1>10. RealPackets(a) = b
  BY <1>3, <1>5, <1>8, <1>9, SeqEqual
<1> QED BY <1>10 DEF a, b

(* ... and is its first when it is the oldest, until it is passed.         *)
LEMMA PacketPassed ==
  ASSUME NEW q \in Seq(QueuedPacket), Len(q) > 0, q[1].cmd # "RESTART"
  PROVE  /\ RealPackets(q) # <<>> /\ Head(RealPackets(q)) = Sent(q[1])
         /\ RealPackets(Tail(q)) = Tail(RealPackets(q))
<1> DEFINE t == Tail(q)
           r == RealPackets(q)
<1>1. /\ Len(q) \in Nat /\ t \in Seq(QueuedPacket) /\ Len(t) = Len(q) - 1
      /\ \A i \in 1 .. Len(t) : t[i] = q[i + 1]
  OBVIOUS
<1>2. /\ r \in Seq(QwordSet)
      /\ Len(r) = IF RestartBy(q, Len(q)) THEN Len(q) - 1 ELSE Len(q)
      /\ \A i \in 1 .. Len(r) : r[i] = Sent(q[IF RestartBy(q, i) THEN i + 1 ELSE i])
  BY RealOnes, SMTT(40)
<1>3. /\ RealPackets(t) \in Seq(QwordSet)
      /\ Len(RealPackets(t)) = IF RestartBy(t, Len(t)) THEN Len(t) - 1 ELSE Len(t)
      /\ \A i \in 1 .. Len(RealPackets(t)) :
           RealPackets(t)[i] = Sent(t[IF RestartBy(t, i) THEN i + 1 ELSE i])
  BY <1>1, RealOnes, ZenonT(40)
<1> HIDE DEF t, r
<1>4. \A i \in 0 .. Len(t) : RestartBy(t, i) <=> RestartBy(q, i + 1)
  <2> SUFFICES ASSUME NEW i \in 0 .. Len(t)
               PROVE  RestartBy(t, i) <=> RestartBy(q, i + 1)
    OBVIOUS
  <2>1. ASSUME NEW k \in 1 .. i, t[k].cmd = "RESTART"
        PROVE  RestartBy(q, i + 1)
    <3>1. k + 1 \in 1 .. i + 1 /\ q[k + 1].cmd = "RESTART"
      BY <1>1, <2>1
    <3> QED BY <3>1 DEF RestartBy
  <2>2. ASSUME NEW k \in 1 .. i + 1, q[k].cmd = "RESTART"
        PROVE  RestartBy(t, i)
    <3>1. k # 1
      BY <2>2
    <3>2. k - 1 \in 1 .. i /\ t[k - 1].cmd = "RESTART"
      BY <1>1, <2>2, <3>1
    <3> QED BY <3>2 DEF RestartBy
  <2> QED BY <2>1, <2>2 DEF RestartBy
<1>5. ~RestartBy(q, 1) /\ (RestartBy(q, Len(q)) => Len(q) > 1)
  BY <1>1 DEF RestartBy
<1>6. /\ Len(r) >= 1 /\ r[1] = Sent(q[1]) /\ r # <<>>
      /\ Head(r) = r[1] /\ Tail(r) \in Seq(QwordSet) /\ Len(Tail(r)) = Len(r) - 1
      /\ \A i \in 1 .. Len(r) - 1 : Tail(r)[i] = r[i + 1]
  <2>1. Len(r) \in Nat /\ Len(r) >= 1
    BY <1>1, <1>2, <1>5
  <2>2. r[1] = Sent(q[1])
    BY <2>1, <1>2, <1>5
  <2> QED BY <2>1, <2>2, <1>2
<1>7. Len(RealPackets(t)) = Len(r) - 1
  BY <1>1, <1>2, <1>3, <1>4
<1>8. ASSUME NEW i \in 1 .. Len(r) - 1
      PROVE  RealPackets(t)[i] = Tail(r)[i]
  <2>1. /\ i \in 1 .. Len(t) /\ i + 1 \in 1 .. Len(r)
        /\ RestartBy(t, i) => i + 1 \in 1 .. Len(t)
    <3>1. /\ i \in 1 .. Len(t) /\ i + 1 \in 1 .. Len(r)
      BY <1>1, <1>2, <1>6
    <3>2. RestartBy(q, i + 1) => RestartBy(q, Len(q))
      BY <3>1, <1>1 DEF RestartBy
    <3> QED BY <3>1, <3>2, <1>1, <1>2, <1>4
  <2>2. RealPackets(t)[i] = Sent(t[IF RestartBy(t, i) THEN i + 1 ELSE i])
    BY <1>3, <1>7
  <2>3. r[i + 1] = Sent(q[IF RestartBy(q, i + 1) THEN i + 2 ELSE i + 1])
    BY <2>1, <1>2
  <2>4. RestartBy(t, i) <=> RestartBy(q, i + 1)
    BY <2>1, <1>4
  <2>5. t[IF RestartBy(t, i) THEN i + 1 ELSE i]
          = q[IF RestartBy(q, i + 1) THEN i + 2 ELSE i + 1]
    BY <2>1, <2>4, <1>1
  <2> QED BY <2>2, <2>3, <2>5, <1>6
<1>9. RealPackets(t) = Tail(r)
  <2>1. \A i \in 1 .. Len(RealPackets(t)) : RealPackets(t)[i] = Tail(r)[i]
    BY <1>7, <1>8
  <2> QED BY <1>3, <1>6, <1>7, <2>1, SeqEqual
<1> QED BY <1>6, <1>9 DEF t, r

(* The ring implements the stream: the GS thread acts on every packet of   *)
(* the EE thread once, in the order sent, with the contents sent, whatever *)
(* the size of the buffer and of the packets, and the RESTARTs between.    *)
THEOREM RingIsAStream == Spec => ImplementsStream
<1> DEFINE now == <<RealPackets(queue), handled, gsPc \in {"advance", "quit"}>>
<1>1. Init => Stream!Init
  <2> SUFFICES ASSUME Init PROVE Stream!Init
    OBVIOUS
  <2>1. queue \in Seq(QueuedPacket) /\ Len(queue) = 0 /\ ~RestartBy(queue, 0)
    BY DEF Init, RestartBy
  <2>2. RealPackets(queue) \in Seq(QwordSet) /\ Len(RealPackets(queue)) = 0
    BY <2>1, RealOnes
  <2>3. RealPackets(queue) = <<>>
    BY <2>2
  <2> QED BY <2>3 DEF Init, Stream!Init
<1>2. StreamInv => OneRestart(queue)
  BY RestartsOnce DEF StreamInv
<1>3. /\ StreamInv /\ OneRestart(queue) /\ OneRestart(queue)' /\ [Next]_vars
      => [Stream!Next]_now
  <2> SUFFICES ASSUME StreamInv, OneRestart(queue), OneRestart(queue'), [Next]_vars
               PROVE  Stream!Next \/ UNCHANGED now
    OBVIOUS
  <2>0. RingInv /\ Bookkeeping /\ queue \in Seq(QueuedPacket)
    BY DEF StreamInv, RingInv, TypeOK
  <2>1. ASSUME NEW p, Sends(p)
        PROVE  Stream!Next \/ UNCHANGED now
    <3>1. p \in QueuedPacket /\ queue' = Append(queue, p) /\ UNCHANGED <<handled, gsPc>>
      BY <2>1 DEF Sends
    <3>2. CASE p.cmd = "RESTART"
      <4>1. RealPackets(queue') = RealPackets(queue)
        BY <2>0, <3>1, <3>2, RestartSent
      <4> QED BY <3>1, <4>1
    <3>3. CASE p.cmd # "RESTART"
      <4>1. RealPackets(queue') = Append(RealPackets(queue), Sent(p))
        BY <2>0, <3>1, <3>3, PacketSent
      <4>2. Sent(p) \in [cmd : Command \ {"RESTART"}, len : 0 .. MaxPacketSize,
                         data : Payload \cup {NoData}]
        BY <2>1, <3>1, <3>3 DEF Sends, QueuedPacket, Sent, Tag
      <4>3. Stream!Send
        BY <3>1, <4>1, <4>2 DEF Stream!Send
      <4> QED BY <4>3 DEF Stream!Next
    <3> QED BY <3>2, <3>3
  <2>2. CASE ActsOnHead
    <3>1. RealPackets(queue) # <<>> /\ Head(RealPackets(queue)) = Sent(queue[1])
      BY <2>0, <2>2, PacketPassed DEF ActsOnHead
    <3>2. Stream!Act
      BY <2>2, <3>1 DEF ActsOnHead, Stream!Act
    <3> QED BY <3>2 DEF Stream!Next
  <2>3. CASE PassesHead
    <3>1. RealPackets(queue') = Tail(RealPackets(queue))
      BY <2>0, <2>3, PacketPassed DEF PassesHead
    <3>2. Stream!Finish
      BY <2>3, <3>1 DEF PassesHead, Stream!Finish
    <3> QED BY <3>2 DEF Stream!Next
  <2>4. CASE PassesRestart
    <3>1. RealPackets(queue') = RealPackets(queue)
      BY <2>0, <2>4, RestartPassed DEF PassesRestart
    <3> QED BY <2>4, <3>1 DEF PassesRestart
  <2>5. CASE CountsFrame \/ ForgetsFrames \/ LeavesPackets
    <3>1. queue' = queue /\ handled' = handled
      BY <2>5 DEF CountsFrame, ForgetsFrames, LeavesPackets
    <3>2. \/ gsPc' = gsPc
          \/ gsPc \notin {"advance", "quit"} /\ gsPc' \notin {"advance", "quit"}
      BY <2>5 DEF CountsFrame, ForgetsFrames, LeavesPackets
    <3>3. (gsPc' \in {"advance", "quit"}) = (gsPc \in {"advance", "quit"})
      BY <3>2
    <3>4. RealPackets(queue') = RealPackets(queue)
      BY <3>1
    <3> QED BY <3>1, <3>3, <3>4
  <2> QED BY <2>0, <2>1, <2>2, <2>3, <2>4, <2>5, Effects
<1> QED BY <1>1, <1>2, <1>3, StreamInvariant, PTL
        DEF Spec, ImplementsStream, Stream!Spec
-----------------------------------------------------------------------------
(* No thread waits in vain.  Neither thread tells the other what it waits    *)
(* for, and the GS thread goes to sleep whenever it finds the buffer empty:  *)
(* that somebody always has something to do follows only from who has        *)
(* posted the event since he last published.                                 *)

HoldsCommand(cmd) == \E i \in 1 .. Len(queue) : queue[i].cmd = cmd

(* The GS thread is at work, or will be when it takes the next post. *)
Awake == m_post_event > 0 \/ gsPc \notin {"wait", "rest"}

(* The places where the EE thread waits, having posted the event since it  *)
(* published its last packet...                                            *)
Posted == {"simple_spin", "data_stall", "fit_stall", "wrap_stall", "wrap_begin",
           "wait_spin", "join"}

(* ... and those from which no operation begins any more. *)
Closing == {"quit_post", "join", "closed"}

(* A vsync is left to a sleeping thread only until the post behind it.     *)
PostsBehind ==
  /\ eePc \in Posted /\ queue # <<>> => Awake
  /\ HoldsCommand("VSYNC") /\ eePc # "post" => Awake
  /\ SendingSimple /\ simple.cmd = "VSYNC" => eeRet = "post"

(* QUIT is the last packet, and the one that the GS thread ends with. *)
QuitIsLast ==
  /\ SendingSimple /\ simple.cmd = "QUIT" => eeRet = "quit_post"
  /\ SendingSimple /\ simple.cmd # "QUIT" => eeRet # "quit_post"
  /\ HoldsCommand("QUIT") \/ gsPc = "quit" => eePc \in Closing
  /\ eePc \in Closing => queue # <<>> /\ queue[Len(queue)].cmd = "QUIT"
  /\ gsPc = "advance" => handled.cmd # "QUIT"

(* Between the RESTART and the rewind m_WritePos is behind the RESTART. *)
BehindRestart ==
  eePc = "wrap_rewind" /\ queue # <<>> => m_WritePos = Wrap(After(queue[Len(queue)]))

WakeInv == PostsBehind /\ QuitIsLast /\ BehindRestart

(* A buffer that looks empty to the GS thread is. *)
LEMMA LooksEmpty ==
  ASSUME RingInv, BehindRestart, m_RingPos = m_WritePos
  PROVE  queue = <<>>
<1> USE RingAssumption
<1>0. /\ TypeOK /\ LayoutInv /\ EEReady
      /\ queue \in Seq(QueuedPacket) /\ Len(queue) \in Nat
      /\ m_WritePos \in 0 .. RingBufferSize - 1
  BY DEF RingInv, TypeOK, Slot
<1>1. CASE eePc # "wrap_rewind"
  BY <1>1, PositionsTell DEF EqualMeansEmpty
<1>2. CASE eePc = "wrap_rewind" /\ queue # <<>>
  <2> DEFINE n == Len(queue)
  <2>1. n \in 1 .. Len(queue)
    BY <1>0, <1>2
  <2>2. /\ queue[n].pos \in 0 .. RingBufferSize - 1 /\ queue[n].len \in 0 .. MaxPacketSize
        /\ queue[n].cmd = "RESTART"
    BY <2>1, <1>0, <1>2, QueueElement DEF EEReady
  <2>3. Inside(queue[n]) /\ EndPos = 0
    BY <2>1, <1>0, <1>2 DEF LayoutInv, AllInside, EndPos
  <2>4. m_WritePos = Wrap(queue[n].pos + queue[n].len + 1)
    BY <1>2 DEF BehindRestart, After
  <2> QED BY <2>2, <2>3, <2>4, <1>0 DEF Inside, After, Wrap
<1> QED BY <1>1, <1>2

(* What the queue holds after a packet more, and after one less. *)
LEMMA HoldsMore ==
  ASSUME TypeOK, NEW p, queue' = Append(queue, p), p \in QueuedPacket
  PROVE  /\ \A cmd : HoldsCommand(cmd)' <=> HoldsCommand(cmd) \/ p.cmd = cmd
         /\ queue' # <<>> /\ queue'[Len(queue')] = p
<1>1. /\ queue \in Seq(QueuedPacket) /\ Len(queue) \in Nat /\ Len(queue') = Len(queue) + 1
      /\ \A i \in 1 .. Len(queue) : queue'[i] = queue[i]
      /\ queue'[Len(queue) + 1] = p
  BY DEF TypeOK
<1>2. ASSUME NEW cmd
      PROVE  HoldsCommand(cmd)' <=> HoldsCommand(cmd) \/ p.cmd = cmd
  BY <1>1 DEF HoldsCommand
<1>3. queue' # <<>>
  BY <1>1
<1> QED BY <1>1, <1>2, <1>3

(* The GS thread takes the oldest packet out: of any kind there is one left *)
(* only if there was one before.                                            *)
LEMMA HoldsLess ==
  ASSUME TypeOK, Len(queue) > 0, queue' = Tail(queue)
  PROVE  /\ \A cmd : HoldsCommand(cmd)' => HoldsCommand(cmd)
         /\ \A cmd : queue[Len(queue)].cmd = cmd /\ queue[1].cmd # cmd
                       => queue' # <<>> /\ queue'[Len(queue')].cmd = cmd
         /\ queue' # <<>> => queue'[Len(queue')] = queue[Len(queue)] /\ queue # <<>>
<1>1. /\ queue \in Seq(QueuedPacket) /\ Len(queue) \in Nat /\ Len(queue') = Len(queue) - 1
      /\ \A i \in 1 .. Len(queue) - 1 : queue'[i] = queue[i + 1]
  BY DEF TypeOK
<1>2. ASSUME NEW cmd, HoldsCommand(cmd)'
      PROVE  HoldsCommand(cmd)
  <2>1. PICK i \in 1 .. Len(queue') : queue'[i].cmd = cmd
    BY <1>2 DEF HoldsCommand
  <2>2. i + 1 \in 1 .. Len(queue) /\ queue[i + 1].cmd = cmd
    BY <1>1, <2>1
  <2> QED BY <2>2 DEF HoldsCommand
<1>3. queue' # <<>> => Len(queue') > 0
  BY <1>1
<1>4. queue' # <<>> => queue'[Len(queue')] = queue[Len(queue)] /\ queue # <<>>
  BY <1>1, <1>3
<1>5. ASSUME NEW cmd, queue[Len(queue)].cmd = cmd, queue[1].cmd # cmd
      PROVE  queue' # <<>>
  <2>1. Len(queue) # 1
    BY <1>5
  <2>2. PICK n \in Nat : n = Len(queue)
    BY <1>1
  <2>3. PICK k \in Int : k = Len(queue') /\ k = n - 1
    BY <1>1, <2>2
  <2>4. n # 1 /\ n > 0
    BY <2>1, <2>2
  <2>5. k # 0
    BY <2>3, <2>4
  <2>6. Len(queue') # 0
    BY <2>3, <2>5
  <2>7. Len(<<>>) = 0
    OBVIOUS
  <2> QED BY <2>6, <2>7, Zenon
<1> QED BY <1>2, <1>4, <1>5

(* SetEvent leaves the GS thread with something to do, unless it is gone. *)
LEMMA SetEventWakes ==
  ASSUME TypeOK, SetEvent, gsPc' = gsPc
  PROVE  Awake'
BY RingAssumption DEF TypeOK, SetEvent, Awake

(* The EE thread keeps what the GS thread has to do, and what it has sent  *)
(* last, while it publishes nothing.                                       *)
Unpublished == /\ UNCHANGED <<queue, gsPc, handled>>
               /\ UNCHANGED m_post_event \/ Awake'

(* A GS thread with something to do keeps it while nothing is published. *)
LEMMA AwakeKept ==
  ASSUME Unpublished, Awake
  PROVE  Awake'
BY DEF Unpublished, Awake

(* The EE thread sends nothing, ... *)
LEMMA WakeQuiet ==
  ASSUME RingInv, WakeInv, Unpublished, ~SendingSimple',
         eePc' \in Posted => eePc \in Posted \/ Awake',
         eePc = "post" => eePc' = "post" \/ Awake',
         eePc \in Closing <=> eePc' \in Closing,
         eePc' # "wrap_rewind"
  PROVE  WakeInv'
<1>1. HoldsCommand("VSYNC")' = HoldsCommand("VSYNC") /\ HoldsCommand("QUIT")' = HoldsCommand("QUIT")
  BY DEF HoldsCommand, Unpublished
<1>2. PostsBehind'
  BY <1>1, AwakeKept DEF WakeInv, PostsBehind, Unpublished
<1>3. QuitIsLast'
  BY <1>1 DEF WakeInv, QuitIsLast, Unpublished
<1>4. BehindRestart'
  BY DEF BehindRestart
<1> QED BY <1>2, <1>3, <1>4 DEF WakeInv

(* ... or enters SendSimplePacket, ... *)
LEMMA WakeCalls ==
  ASSUME RingInv, WakeInv, UNCHANGED <<queue, gsPc, handled, m_post_event>>,
         eePc \notin {"post"} \cup Closing,
         NEW cmd, NEW data, NEW ret, CallSimple(cmd, data, ret),
         cmd = "VSYNC" => ret = "post",
         cmd = "QUIT" <=> ret = "quit_post"
  PROVE  WakeInv'
<1>1. HoldsCommand("VSYNC")' = HoldsCommand("VSYNC") /\ HoldsCommand("QUIT")' = HoldsCommand("QUIT")
  BY DEF HoldsCommand
<1>2. eePc' = "simple_prep" /\ simple'.cmd = cmd /\ eeRet' = ret
  BY DEF CallSimple, Tag
<1>3. PostsBehind'
  BY <1>1, <1>2 DEF WakeInv, PostsBehind, Awake, Posted
<1>4. QuitIsLast'
  BY <1>1, <1>2 DEF WakeInv, QuitIsLast, Closing
<1>5. BehindRestart'
  BY <1>2 DEF BehindRestart
<1> QED BY <1>3, <1>4, <1>5 DEF WakeInv

(* ... or is in it. *)
LEMMA WakeSends ==
  ASSUME RingInv, WakeInv, Unpublished, SendingSimple, SendingSimple',
         UNCHANGED <<simple, eeRet>>,
         eePc' = "simple_spin" => Awake'
  PROVE  WakeInv'
<1>1. HoldsCommand("VSYNC")' = HoldsCommand("VSYNC") /\ HoldsCommand("QUIT")' = HoldsCommand("QUIT")
  BY DEF HoldsCommand, Unpublished
<1>2. eePc # "post" /\ eePc \notin Closing /\ eePc' # "post" /\ eePc' \notin Closing
      /\ eePc' # "wrap_rewind" /\ (eePc' \in Posted => eePc' = "simple_spin")
  BY DEF SendingSimple, Closing, Posted
<1>3. PostsBehind'
  BY <1>1, <1>2, AwakeKept DEF WakeInv, PostsBehind
<1>4. QuitIsLast'
  BY <1>1, <1>2 DEF WakeInv, QuitIsLast, Unpublished
<1>5. BehindRestart'
  BY <1>2 DEF BehindRestart
<1> QED BY <1>3, <1>4, <1>5 DEF WakeInv

(* A packet more. *)
LEMMA WakePublishes ==
  ASSUME RingInv, WakeInv, SimplePublish \/ DataPublish
  PROVE  WakeInv'
<1>0. TypeOK /\ EEReady
  BY DEF RingInv
<1>1. CASE SimplePublish
  <2> DEFINE p == [pos |-> m_WritePos, cmd |-> simple.cmd,
                   len |-> simple.len, data |-> simple.data]
  <2>1. p \in QueuedPacket
    BY <1>0 DEF TypeOK, QwordSet, QueuedPacket
  <2>2. /\ queue' = Append(queue, p) /\ m_WritePos' = Future
        /\ UNCHANGED <<m_post_event, gsPc, handled>>
        /\ eePc = "simple_publish" /\ eePc' = eeRet /\ simple' = Nothing
    BY <1>1 DEF SimplePublish, Publish, gsVars
  <2>3. /\ \A cmd : HoldsCommand(cmd)' <=> HoldsCommand(cmd) \/ p.cmd = cmd
        /\ queue' # <<>> /\ queue'[Len(queue')] = p
    BY <1>0, <2>1, <2>2, HoldsMore
  <2> HIDE DEF p
  <2>4. p.cmd = simple.cmd /\ p.pos = m_WritePos /\ p.len = 0
    BY <1>0, <2>2 DEF p, EEReady, SendingSimple
  <2>5. /\ eeRet \in {"run", "post", "wait_post", "quit_post", "reset_skip", "reset_mode", "wrap_rewind"}
        /\ SendingSimple /\ eePc # "post" /\ eePc \notin Closing
    BY <1>0, <2>2 DEF EEReady, SendingSimple, Restarting, Closing
  <2>6. Awake => Awake'
    BY <2>2 DEF Awake
  <2>7. ~SendingSimple' /\ eePc' \notin Posted
    BY <2>2, <2>5 DEF SendingSimple, Posted
  <2>8. PostsBehind'
    BY <2>2, <2>3, <2>4, <2>5, <2>6, <2>7 DEF WakeInv, PostsBehind
  <2>9. QuitIsLast'
    BY <2>2, <2>3, <2>4, <2>5, <2>7 DEF WakeInv, QuitIsLast, Closing
  <2>10. BehindRestart'
    <3>1. m_WritePos + 1 = p.pos + p.len + 1
      BY <2>4, <1>0 DEF TypeOK, Slot
    <3>2. m_WritePos' = Wrap(After(p))
      BY <2>2, <3>1 DEF Future, After
    <3> QED BY <2>3, <3>2, Zenon DEF BehindRestart, Wrap, After
  <2> QED BY <2>8, <2>9, <2>10 DEF WakeInv
<1>2. CASE DataPublish
  <2> DEFINE p == [pos |-> m_WritePos, cmd |-> "DATA",
                   len |-> m_packet_size, data |-> upload]
  <2>1. p \in QueuedPacket /\ p.cmd = "DATA"
    BY <1>0 DEF TypeOK, QueuedPacket, Command
  <2>2. /\ queue' = Append(queue, p)
        /\ UNCHANGED <<m_post_event, gsPc, handled, simple>>
        /\ eePc = "data_publish" /\ eePc' = "data_kick"
    BY <1>2 DEF DataPublish, Publish, gsVars, Tag
  <2>3. /\ \A cmd : HoldsCommand(cmd)' <=> HoldsCommand(cmd) \/ p.cmd = cmd
        /\ queue' # <<>> /\ queue'[Len(queue')] = p
    BY <1>0, <2>1, <2>2, HoldsMore
  <2> HIDE DEF p
  <2>6. Awake => Awake'
    BY <2>2 DEF Awake
  <2>7. ~SendingSimple' /\ eePc' \notin Posted
    BY <2>2 DEF SendingSimple, Posted
  <2>8. PostsBehind'
    BY <2>1, <2>2, <2>3, <2>6, <2>7 DEF WakeInv, PostsBehind
  <2>9. QuitIsLast'
    BY <2>1, <2>2, <2>3, <2>7 DEF WakeInv, QuitIsLast, Closing
  <2> QED BY <2>2, <2>8, <2>9 DEF WakeInv, BehindRestart
<1> QED BY <1>1, <1>2

(* A step of the GS thread. *)
LEMMA WakeGS ==
  ASSUME RingInv, Bookkeeping, WakeInv, GSStep
  PROVE  WakeInv'
<1>0. /\ TypeOK /\ GSReady /\ queue \in Seq(QueuedPacket) /\ Len(queue) \in Nat
      /\ BehindRestart /\ m_post_event \in Nat
  BY DEF RingInv, WakeInv, TypeOK
<1>1. UNCHANGED <<eePc, eeRet, simple, m_WritePos>>
  BY DEF GSStep, GSWait, GSBusy, GSLoop, GSRest, GSHandle, GSAdvance, GSRestart, GSRestartLock,
         GSGoto, eeSide, eeVars
<1>2. SendingSimple' <=> SendingSimple
  BY <1>1 DEF SendingSimple
<1>3. ASSUME UNCHANGED <<queue, handled>>, gsPc' \notin {"quit", "advance"},
             queue # <<>> => Awake' \/ ~Awake
      PROVE  WakeInv'
  <2>1. HoldsCommand("VSYNC")' = HoldsCommand("VSYNC") /\ HoldsCommand("QUIT")' = HoldsCommand("QUIT")
    BY <1>3 DEF HoldsCommand
  <2>2. HoldsCommand("VSYNC") => queue # <<>>
    BY DEF HoldsCommand
  <2>3. PostsBehind'
    BY <1>1, <1>2, <1>3, <2>1, <2>2 DEF WakeInv, PostsBehind
  <2>4. QuitIsLast'
    BY <1>1, <1>2, <1>3, <2>1 DEF WakeInv, QuitIsLast
  <2>5. BehindRestart'
    BY <1>1, <1>3 DEF WakeInv, BehindRestart, Wrap, After
  <2> QED BY <2>3, <2>4, <2>5 DEF WakeInv
<1>4. ASSUME Len(queue) > 0, queue' = Tail(queue), queue[1].cmd # "QUIT",
             gsPc' \in {"loop", "restart_lock"}
      PROVE  WakeInv'
  <2>1. /\ \A cmd : HoldsCommand(cmd)' => HoldsCommand(cmd)
        /\ \A cmd : queue[Len(queue)].cmd = cmd /\ queue[1].cmd # cmd
                      => queue' # <<>> /\ queue'[Len(queue')].cmd = cmd
        /\ queue' # <<>> => queue'[Len(queue')] = queue[Len(queue)] /\ queue # <<>>
    BY <1>0, <1>4, HoldsLess
  <2>2. Awake'
    BY <1>4 DEF Awake
  <2>3. PostsBehind'
    BY <1>1, <1>2, <2>1, <2>2 DEF WakeInv, PostsBehind
  <2>4. QuitIsLast'
    BY <1>1, <1>2, <1>4, <2>1 DEF WakeInv, QuitIsLast
  <2>5. BehindRestart'
    BY <1>1, <2>1 DEF WakeInv, BehindRestart, Wrap, After
  <2> QED BY <2>3, <2>4, <2>5 DEF WakeInv
<1>5. CASE GSWait \/ GSBusy \/ GSRestartLock
  BY <1>5, <1>3 DEF GSWait, GSBusy, GSRestartLock, GSGoto, Awake
<1>6. CASE GSLoop
  <2>1. gsPc' = "rest" => queue = <<>>
    BY <1>0, <1>6, LooksEmpty DEF GSLoop, GSGoto
  <2> QED BY <2>1, <1>3, <1>6 DEF GSLoop, GSGoto, Awake
<1>7. CASE GSRest
  BY <1>0, <1>7, <1>3 DEF GSRest, GSGoto, Awake
<1>8. CASE GSHandle
  <2>1. /\ UNCHANGED queue /\ handled' = PacketRead
        /\ gsPc' = IF PacketRead.cmd = "QUIT" THEN "quit" ELSE "advance"
    BY <1>8 DEF GSHandle, GSGoto
  <2>2. Len(queue) > 0 /\ PacketRead = Sent(queue[1])
    BY <1>0, <1>8, HeadIsWhole DEF GSHandle, NoTornRead, GSReady
  <2>3. PacketRead.cmd = "QUIT" => HoldsCommand("QUIT")
    BY <1>0, <2>2 DEF HoldsCommand, Sent, Tag
  <2>4. HoldsCommand("VSYNC")' = HoldsCommand("VSYNC") /\ HoldsCommand("QUIT")' = HoldsCommand("QUIT")
    BY <2>1 DEF HoldsCommand
  <2>5. Awake'
    BY <2>1 DEF Awake
  <2>6. PostsBehind'
    BY <1>1, <1>2, <2>4, <2>5 DEF WakeInv, PostsBehind
  <2>7. QuitIsLast'
    BY <1>1, <1>2, <2>1, <2>3, <2>4 DEF WakeInv, QuitIsLast
  <2>8. BehindRestart'
    BY <1>1, <2>1 DEF WakeInv, BehindRestart, Wrap, After
  <2> QED BY <2>6, <2>7, <2>8 DEF WakeInv
<1>9. CASE GSAdvance
  <2>1. Len(queue) > 0 /\ handled = Sent(queue[1]) /\ handled.cmd # "QUIT"
    BY <1>0, <1>9 DEF GSAdvance, GSReady, Bookkeeping, WakeInv, QuitIsLast
  <2>2. queue[1].cmd # "QUIT"
    BY <2>1 DEF Sent, Tag
  <2> QED BY <2>1, <2>2, <1>4, <1>9 DEF GSAdvance, GSGoto
<1>10. CASE GSRestart
  BY <1>0, <1>4, <1>10 DEF GSRestart, GSReady, GSGoto
<1> QED BY <1>5, <1>6, <1>7, <1>8, <1>9, <1>10 DEF GSStep

(* Every step keeps all of this. *)
LEMMA WakeStep ==
  ASSUME RingInv, Bookkeeping, WakeInv, [Next]_vars
  PROVE  WakeInv'
<1> USE DEF EEGoto, EEOnly, eeVars, gsVars
<1>0. /\ TypeOK /\ EEReady /\ ResetLosesNothing
      /\ SetEvent /\ gsPc' = gsPc => Awake'
  BY SetEventWakes DEF RingInv
<1>1. CASE SimplePrep
  <2>1. Unpublished /\ (eePc' = "simple_spin" => Awake')
    BY <1>0, <1>1 DEF SimplePrep, Unpublished, ringVars
  <2> QED BY <1>1, <2>1, WakeSends DEF SimplePrep, SendingSimple
<1>2. CASE SimpleSpin \/ SimpleWrite
  <2>1. Unpublished
    BY <1>2 DEF SimpleSpin, SimpleWrite, Unpublished, ringVars
  <2> QED BY <1>2, <2>1, WakeSends DEF SimpleSpin, SimpleWrite, SendingSimple
<1>3. CASE SimplePublish \/ DataPublish
  BY <1>3, WakePublishes
<1>4. CASE PrepFits \/ PrepWraps \/ PrepExact
  <2>1. /\ Unpublished /\ eePc = "run" /\ (eePc' \in Posted => Awake')
        /\ eePc' \in {"data_stall", "data_tag", "wrap_stall", "fit_stall"}
    BY <1>0, <1>4 DEF PrepFits, PrepWraps, PrepExact, StartUpload, Unpublished, ringVars, Posted
  <2> QED BY <2>1, WakeQuiet DEF SendingSimple, Closing
<1>5. CASE DataStall \/ FitStall \/ WrapStall \/ WrapBegin
  <2>1. Unpublished
    BY <1>5 DEF DataStall, FitStall, WrapStall, WrapBegin, Unpublished, ringVars
  <2> QED BY <1>5, <2>1, WakeQuiet
          DEF DataStall, FitStall, WrapStall, WrapBegin, SendingSimple, Closing, Posted
<1>6. CASE WrapRewind \/ WrapUnlock
  <2>1. Unpublished
    BY <1>6 DEF WrapRewind, WrapUnlock, Unpublished, ringVars
  <2> QED BY <1>6, <2>1, WakeQuiet DEF WrapRewind, WrapUnlock, SendingSimple, Closing, Posted
<1>7. CASE WrapPost \/ PostEvent \/ WaitPost \/ QuitPost
  <2>1. Unpublished /\ Awake'
    BY <1>0, <1>7 DEF WrapPost, PostEvent, WaitPost, QuitPost, Unpublished, ringVars
  <2> QED BY <1>7, <2>1, WakeQuiet
          DEF WrapPost, PostEvent, WaitPost, QuitPost, SendingSimple, Closing, Posted
<1>8. CASE DataTag \/ DataCopy \/ DataKick
  <2>1. Unpublished
    BY <1>0, <1>8 DEF DataTag, DataCopy, DataKick, Unpublished, ringVars
  <2> QED BY <1>8, <2>1, WakeQuiet DEF DataTag, DataCopy, DataKick, SendingSimple, Closing, Posted
<1>9. CASE VsyncThrottle \/ VsyncCheck \/ PostVsyncEnd \/ StartWaitGS
  <2>1. Unpublished
    BY <1>9 DEF VsyncThrottle, VsyncCheck, PostVsyncEnd, StartWaitGS, Unpublished, ringVars
  <2> QED BY <1>9, <2>1, WakeQuiet
          DEF VsyncThrottle, VsyncCheck, PostVsyncEnd, StartWaitGS, SendingSimple, Closing, Posted
<1>10. CASE WaitSpin \/ Join
  <2>1. Unpublished
    BY <1>10 DEF WaitSpin, Join, Unpublished, ringVars
  <2>2. eePc = "wait_spin" => eeRet \in {"run", "reset_pos"}
    BY <1>0 DEF EEReady
  <2> QED BY <1>10, <2>1, <2>2, WakeQuiet DEF WaitSpin, Join, SendingSimple, Closing, Posted
<1>11. CASE WrapLock
  <2>1. UNCHANGED <<queue, gsPc, handled, m_post_event>> /\ eePc = "wrap_lock"
    BY <1>11 DEF WrapLock, ringVars
  <2> QED BY <1>11, <2>1, WakeCalls DEF WrapLock, Closing
<1>12. CASE VsyncCount
  <2>1. UNCHANGED <<queue, gsPc, handled, m_post_event>> /\ eePc = "vsync_count"
    BY <1>12 DEF VsyncCount, ringVars
  <2> QED BY <1>12, <2>1, WakeCalls DEF VsyncCount, Closing
<1>13. CASE SendSimple \/ StartFreeze \/ StartClose \/ ResetSkip \/ ResetMode
  <2>1. /\ UNCHANGED <<queue, gsPc, handled, m_post_event>>
        /\ eePc \notin {"post"} \cup Closing
    BY <1>13 DEF SendSimple, StartFreeze, StartClose, ResetSkip, ResetMode, ringVars, Closing
  <2> QED BY <1>13, <2>1, WakeCalls DEF SendSimple, StartFreeze, StartClose, ResetSkip, ResetMode
<1>14. CASE ResetPos
  <2>1. UNCHANGED <<queue, gsPc, handled, m_post_event>> /\ eePc = "reset_pos"
    BY <1>0, <1>14 DEF ResetPos, ResetLosesNothing
  <2> QED BY <1>14, <2>1, WakeCalls DEF ResetPos, Closing
<1>15. CASE GSStep
  BY <1>15, WakeGS
<1>16. CASE UNCHANGED vars
  BY <1>16 DEF vars, WakeInv, PostsBehind, QuitIsLast, BehindRestart, Awake, SendingSimple,
               HoldsCommand, Wrap, After
<1> QED BY <1>1, <1>2, <1>3, <1>4, <1>5, <1>6, <1>7, <1>8, <1>9, <1>10, <1>11, <1>12, <1>13,
           <1>14, <1>15, <1>16 DEF Next, EEStep, EEBegin, Done

DrivenInv == StreamInv /\ WakeInv

(* Who has posted what is known throughout, with what the buffer holds. *)
LEMMA DrivenInvariant == Spec => []DrivenInv
<1>1. Init => WakeInv
  BY DEF Init, WakeInv, PostsBehind, QuitIsLast, BehindRestart, SendingSimple, HoldsCommand,
         Posted, Closing
<1>2. StreamInv /\ WakeInv /\ [Next]_vars => WakeInv'
  BY WakeStep DEF StreamInv
<1> QED BY StreamInvariant, <1>1, <1>2, PTL DEF Spec, DrivenInv

(* The EE thread waits for the GS thread: its next step is not possible, or, *)
(* in PostVsyncEnd, it goes round until the GS thread has caught up.         *)
Stalled ==
  \/ eePc = "simple_spin" /\ Future = m_RingPos
  \/ /\ eePc = "data_stall"
     /\ m_WritePos < m_RingPos /\ m_RingPos <= m_WritePos + m_packet_size + 1
  \/ eePc \in {"fit_stall", "wrap_stall"} /\ ~ReaderPastBase
  \/ eePc = "wrap_begin" /\ m_RingPos # m_WritePos /\ m_RingPos <= m_packet_size + 1
  \/ eePc = "wait_spin" /\ m_RingPos # m_WritePos
  \/ /\ eePc \in {"vsync_throttle", "vsync_check"}
     /\ m_QueuedFrames > MaxFramesAhead /\ m_WritePos # m_RingPos
  \/ eePc = "join" /\ gsPc # "quit"

(* It waits for room in the count of the event, which the code has always. *)
PostsFull ==
  /\ m_post_event = MaxPosts /\ gsPc # "quit"
  /\ \/ eePc \in {"wrap_post", "post", "data_kick", "wait_post", "quit_post"}
     \/ eePc = "simple_prep" /\ Future = m_RingPos

(* The next step of the GS thread is possible. *)
GSGoesOn ==
  /\ gsPc # "quit"
  /\ gsPc = "wait" => m_post_event > 0
  /\ gsPc = "restart_lock" => ~m_lock_RingRestart

(* Nobody waits for a thread that waits (MTGS.cpp:443-454, 494-500, 670-677 *)
(* and 886-1004).                                                           *)
NoDeadlyEmbrace == Stalled \/ PostsFull => GSGoesOn

(* Whenever the EE thread waits, the GS thread is not asleep, not gone and   *)
(* not waiting for the lock: no wake-up is lost, whichever way the threads   *)
(* interleave around the test for an empty buffer (MTGS.cpp:500), and the    *)
(* lock of the restart is never held by a thread that waits.                 *)
THEOREM StallsAreServed == Spec => []NoDeadlyEmbrace
<1>1. DrivenInv => NoDeadlyEmbrace
  <2> SUFFICES ASSUME DrivenInv, Stalled \/ PostsFull
               PROVE  GSGoesOn
    BY DEF NoDeadlyEmbrace
  <2> USE RingAssumption
  <2>0. /\ RingInv /\ TypeOK /\ EEReady /\ EqualMeansEmpty /\ WakeInv /\ FramesCounted
        /\ ~SendingSimple => simple = Nothing
    BY PositionsTell DEF DrivenInv, StreamInv, RingInv, Bookkeeping
  <2>1. ~(Restarting /\ Future = m_RingPos)
    BY <2>0 DEF EEReady, TypeOK, Slot, Future, Wrap
  <2>2. ~m_lock_RingRestart
    BY <2>0, <2>1 DEF EEReady, Stalled, PostsFull, Restarting, SendingSimple
  <2>3. gsPc # "quit"
    BY <2>0 DEF Stalled, PostsFull, WakeInv, QuitIsLast, Closing
  <2>4. CASE PostsFull
    BY <2>2, <2>3, <2>4 DEF PostsFull, GSGoesOn
  <2>5. CASE Stalled /\ eePc \in {"vsync_throttle", "vsync_check"}
    <3>1. m_QueuedFrames > 0 /\ simple = Nothing
      BY <2>0, <2>5 DEF Stalled, SendingSimple, TypeOK
    <3>2. VsyncsQueued # 0
      BY <2>0, <3>1 DEF FramesCounted, Nothing, Tag
    <3>3. {i \in 1 .. Len(queue) : queue[i].cmd = "VSYNC"} # {}
      BY <3>2, FS_EmptySet DEF VsyncsQueued
    <3>4. HoldsCommand("VSYNC")
      BY <3>3 DEF HoldsCommand
    <3>5. Awake
      BY <3>4, <2>0, <2>5 DEF WakeInv, PostsBehind
    <3> QED BY <3>5, <2>2, <2>3 DEF Awake, GSGoesOn
  <2>6. CASE Stalled /\ eePc \notin {"vsync_throttle", "vsync_check"}
    <3>1. eePc \in Posted /\ eePc # "wrap_rewind"
      BY <2>6 DEF Stalled, Posted
    <3>2. eePc # "join" => m_RingPos # m_WritePos
      BY <2>0, <2>6 DEF Stalled, ReaderPastBase, TypeOK, Slot, Future, Wrap
    <3>3. queue # <<>>
      BY <2>0, <3>1, <3>2 DEF EqualMeansEmpty, WakeInv, QuitIsLast, Closing
    <3>4. Awake
      BY <3>1, <3>3, <2>0 DEF WakeInv, PostsBehind
    <3> QED BY <3>4, <2>2, <2>3 DEF Awake, GSGoesOn
  <2> QED BY <2>4, <2>5, <2>6
<1> QED BY DrivenInvariant, <1>1, PTL

(* The packet the GS thread ends with is the last there is. *)
QuitEnds ==
  /\ \A i \in 1 .. Len(queue) : queue[i].cmd = "QUIT" => i = Len(queue)
  /\ gsPc = "quit" => Len(queue) > 0 /\ queue[1].cmd = "QUIT"

(* Nothing is sent behind QUIT, and the GS thread stops at it. *)
LEMMA QuitStep ==
  ASSUME RingInv, Bookkeeping, WakeInv, QuitEnds, [Next]_vars
  PROVE  QuitEnds'
<1>0. /\ queue \in Seq(QueuedPacket) /\ Len(queue) \in Nat
      /\ HoldsCommand("QUIT") \/ gsPc = "quit" => eePc \in Closing
      /\ gsPc = "advance" => handled.cmd # "QUIT"
  BY DEF RingInv, TypeOK, WakeInv, QuitIsLast
<1>1. ASSUME NEW p, Sends(p)
      PROVE  QuitEnds'
  <2>1. /\ queue' = Append(queue, p) /\ gsPc' = gsPc /\ p \in QueuedPacket
    BY <1>1 DEF Sends
  <2>2. /\ Len(queue') = Len(queue) + 1
        /\ \A i \in 1 .. Len(queue) : queue'[i] = queue[i]
    BY <1>0, <2>1
  <2>3. queue' # queue
    BY <1>0, <2>2
  <2>4. eePc \notin Closing
    BY <2>1, <2>3
       DEF Closing, Next, EEStep, EEBegin, GSStep, Done, vars, eeSide, eeVars, gsVars, ringVars,
           tallies, GSGoto, EEOnly, EEGoto, CallSimple, StartUpload,
           SimplePrep, SimpleSpin, SimpleWrite, SimplePublish, DataStall, FitStall,
           WrapStall, WrapLock, WrapRewind, WrapUnlock, WrapPost, WrapBegin, DataTag,
           DataCopy, DataPublish, DataKick, VsyncThrottle, VsyncCheck, VsyncCount,
           PostEvent, WaitPost, WaitSpin, ResetPos, ResetSkip, ResetMode, QuitPost, Join,
           PrepFits, PrepWraps, PrepExact, SendSimple, PostVsyncEnd, StartWaitGS,
           StartFreeze, StartClose, GSWait, GSBusy, GSLoop, GSRest, GSHandle, GSAdvance,
           GSRestart, GSRestartLock
  <2>5. gsPc # "quit" /\ \A i \in 1 .. Len(queue) : queue[i].cmd # "QUIT"
    BY <1>0, <2>4 DEF HoldsCommand
  <2> QED BY <1>0, <2>1, <2>2, <2>5 DEF QuitEnds
<1>2. CASE ActsOnHead
  BY <1>2 DEF ActsOnHead, QuitEnds
<1>3. CASE PassesHead \/ PassesRestart
  <2>1. /\ Len(queue) > 0 /\ queue' = Tail(queue) /\ gsPc' # "quit"
    BY <1>3 DEF PassesHead, PassesRestart
  <2>2. /\ Len(queue') = Len(queue) - 1
        /\ \A i \in 1 .. Len(queue) - 1 : queue'[i] = queue[i + 1]
    BY <1>0, <2>1
  <2> QED BY <1>0, <2>1, <2>2 DEF QuitEnds
<1>4. CASE CountsFrame \/ ForgetsFrames \/ LeavesPackets
  <2>1. UNCHANGED queue /\ (gsPc' = "quit" => gsPc = "quit")
    BY <1>4 DEF CountsFrame, ForgetsFrames, LeavesPackets
  <2> QED BY <2>1 DEF QuitEnds
<1> QED BY <1>1, <1>2, <1>3, <1>4, Effects

(* This is so from the start. *)
LEMMA QuitEndsAlways == Spec => []QuitEnds
<1>1. Init => QuitEnds
  BY DEF Init, QuitEnds
<1>2. DrivenInv /\ QuitEnds /\ [Next]_vars => QuitEnds'
  BY QuitStep DEF DrivenInv, StreamInv
<1> QED BY DrivenInvariant, <1>1, <1>2, PTL DEF Spec

(* A vsync in the buffer is on its way to be displayed. *)
VsyncGoesOn ==
  HoldsCommand("VSYNC") => \/ GSGoesOn
                           \/ eePc \notin {"run", "closed"} /\ ~Stalled /\ ~PostsFull

(* A vsync in the buffer is never left to a thread that sleeps: the GS       *)
(* thread can go on, or the EE thread is in the middle of an operation and   *)
(* is not waiting itself.  Once the EE thread is back in the emulated        *)
(* machine, which may not come here again, it is the GS thread (the post at  *)
(* the end of PostVsyncEnd).                                                 *)
THEOREM VsyncsAreServed == Spec => []VsyncGoesOn
<1>1. DrivenInv /\ QuitEnds /\ NoDeadlyEmbrace => VsyncGoesOn
  <2> SUFFICES ASSUME DrivenInv, QuitEnds, NoDeadlyEmbrace, HoldsCommand("VSYNC"), ~GSGoesOn
               PROVE  eePc \notin {"run", "closed"} /\ ~Stalled /\ ~PostsFull
    BY DEF VsyncGoesOn
  <2>0. RingInv /\ WakeInv /\ EEReady /\ queue \in Seq(QueuedPacket) /\ Len(queue) \in Nat
    BY DEF DrivenInv, StreamInv, RingInv, TypeOK
  <2>1. ~Stalled /\ ~PostsFull
    BY DEF NoDeadlyEmbrace
  <2>2. gsPc # "quit"
    BY <2>0 DEF QuitEnds, HoldsCommand
  <2>3. ~Awake => eePc = "post"
    BY <2>0 DEF WakeInv, PostsBehind
  <2>4. Awake => m_lock_RingRestart
    BY <2>2 DEF Awake, GSGoesOn
  <2>5. m_lock_RingRestart => eePc \notin {"run", "closed"}
    BY <2>0 DEF EEReady, Restarting, SendingSimple
  <2> QED BY <2>1, <2>3, <2>4, <2>5
<1> QED BY DrivenInvariant, QuitEndsAlways, StallsAreServed, <1>1, PTL

-----------------------------------------------------------------------------
(* How long each thread can go on by itself. *)

GSPlace == [wait |-> 0, quit |-> 0, rest |-> 1, advance |-> 3, handle |-> 4, restart |-> 4,
            loop |-> 5, busy |-> 6, restart_lock |-> 6]

(* The most steps the GS thread can take before it has to wait. *)
GSRank == 7 * m_post_event + 3 * Len(queue) + GSPlace[gsPc]

(* The most steps of an operation of the EE thread from each of its places; *)
(* those of SendSimplePacket are counted up to its return.                  *)
StepsFrom ==
  [pc \in EEPc |->
     CASE pc \in {"run", "closed"} -> 0
       [] pc \in {"join", "post", "data_kick", "simple_publish"} -> 1
       [] pc \in {"quit_post", "data_publish", "simple_write"} -> 2
       [] pc \in {"data_copy", "simple_spin"} -> 3
       [] pc \in {"data_tag", "simple_prep"} -> 4
       [] pc \in {"data_stall", "fit_stall", "wrap_begin", "reset_mode"} -> 5
       [] pc \in {"wrap_post", "vsync_count"} -> 6
       [] pc \in {"wrap_unlock", "vsync_check"} -> 7
       [] pc \in {"wrap_rewind", "vsync_throttle"} -> 8
       [] pc = "reset_skip" -> 10
       [] pc = "wrap_lock" -> 13
       [] pc = "wrap_stall" -> 14
       [] pc = "reset_pos" -> 15
       [] pc = "wait_spin" -> 16
       [] pc = "wait_post" -> 17]

EERank == StepsFrom[eePc] + (IF SendingSimple THEN StepsFrom[eeRet] ELSE 0)

(* PostVsyncEnd goes round: too many frames are queued, and not all is done. *)
GoesRound == eePc = "vsync_check" /\ eePc' = "vsync_throttle" /\ m_WritePos # m_RingPos

(* The ranks are natural numbers, and the EE thread's is small. *)
RanksOK == GSRank \in Nat /\ EERank \in 0 .. 21

(* The GS thread comes nearer to its next wait, the EE thread to its end. *)
GSRunsDown == [][/\ GSStep => GSRank' < GSRank
                 /\ Stalled /\ ~GSStep => GSRank' = GSRank]_vars
EERunsDown == [][EEStep => EERank' < EERank \/ GoesRound]_vars

(* The table above, entry by entry. *)
LEMMA StepsAre ==
  /\ StepsFrom["run"] = 0 /\ StepsFrom["closed"] = 0
  /\ StepsFrom["join"] = 1 /\ StepsFrom["post"] = 1 /\ StepsFrom["data_kick"] = 1
  /\ StepsFrom["simple_publish"] = 1
  /\ StepsFrom["quit_post"] = 2 /\ StepsFrom["data_publish"] = 2 /\ StepsFrom["simple_write"] = 2
  /\ StepsFrom["data_copy"] = 3 /\ StepsFrom["simple_spin"] = 3
  /\ StepsFrom["data_tag"] = 4 /\ StepsFrom["simple_prep"] = 4
  /\ StepsFrom["data_stall"] = 5 /\ StepsFrom["fit_stall"] = 5 /\ StepsFrom["wrap_begin"] = 5
  /\ StepsFrom["reset_mode"] = 5
  /\ StepsFrom["wrap_post"] = 6 /\ StepsFrom["vsync_count"] = 6
  /\ StepsFrom["wrap_unlock"] = 7 /\ StepsFrom["vsync_check"] = 7
  /\ StepsFrom["wrap_rewind"] = 8 /\ StepsFrom["vsync_throttle"] = 8
  /\ StepsFrom["reset_skip"] = 10 /\ StepsFrom["wrap_lock"] = 13 /\ StepsFrom["wrap_stall"] = 14
  /\ StepsFrom["reset_pos"] = 15 /\ StepsFrom["wait_spin"] = 16 /\ StepsFrom["wait_post"] = 17
<1> DEFINE S(pc) ==
     CASE pc \in {"run", "closed"} -> 0
       [] pc \in {"join", "post", "data_kick", "simple_publish"} -> 1
       [] pc \in {"quit_post", "data_publish", "simple_write"} -> 2
       [] pc \in {"data_copy", "simple_spin"} -> 3
       [] pc \in {"data_tag", "simple_prep"} -> 4
       [] pc \in {"data_stall", "fit_stall", "wrap_begin", "reset_mode"} -> 5
       [] pc \in {"wrap_post", "vsync_count"} -> 6
       [] pc \in {"wrap_unlock", "vsync_check"} -> 7
       [] pc \in {"wrap_rewind", "vsync_throttle"} -> 8
       [] pc = "reset_skip" -> 10
       [] pc = "wrap_lock" -> 13
       [] pc = "wrap_stall" -> 14
       [] pc = "reset_pos" -> 15
       [] pc = "wait_spin" -> 16
       [] pc = "wait_post" -> 17
<1>1. \A pc \in EEPc : StepsFrom[pc] = S(pc)
  BY DEF StepsFrom
<1> QED BY <1>1 DEF EEPc

(* That of the GS thread, likewise. *)
LEMMA PlacesAre ==
  /\ GSPlace.wait = 0 /\ GSPlace.quit = 0 /\ GSPlace.rest = 1 /\ GSPlace.advance = 3
  /\ GSPlace.handle = 4 /\ GSPlace.restart = 4 /\ GSPlace.loop = 5 /\ GSPlace.busy = 6
  /\ GSPlace.restart_lock = 6
BY DEF GSPlace

(* Both ranks are bounded below, and no operation has more than 21 steps    *)
(* ahead of it: the FREEZE packet, then WaitGS.                             *)
THEOREM RanksAreCounts == Spec => []RanksOK
<1>1. DrivenInv => RanksOK
  <2> SUFFICES ASSUME DrivenInv PROVE RanksOK
    OBVIOUS
  <2>0. /\ TypeOK /\ EEReady /\ Len(queue) \in Nat /\ m_post_event \in Nat
        /\ eePc \in EEPc /\ eeRet \in EEPc /\ gsPc \in GSPc
    BY DEF DrivenInv, StreamInv, RingInv, TypeOK
  <2>1. GSPlace[gsPc] \in 0 .. 6
    BY <2>0, PlacesAre DEF GSPc
  <2>2. GSRank \in Nat
    BY <2>0, <2>1 DEF GSRank
  <2>3. StepsFrom[eePc] \in 0 .. 17
    BY <2>0, StepsAre, SMTT(30) DEF EEPc
  <2>4. SendingSimple => StepsFrom[eePc] \in 0 .. 4 /\ StepsFrom[eeRet] \in 0 .. 17
    BY <2>0, StepsAre, SMTT(30) DEF SendingSimple, EEReady, Restarting
  <2> QED BY <2>2, <2>3, <2>4 DEF EERank, RanksOK
<1> QED BY DrivenInvariant, <1>1, PTL

(* Every step of the GS thread brings it nearer to its next wait, and while  *)
(* the EE thread waits it gives the GS thread nothing more to do.  So, with  *)
(* StallsAreServed, a wait of the EE thread ends when both threads run.      *)
THEOREM GSThreadRunsDown == Spec => GSRunsDown
<1>1. DrivenInv /\ [Next]_vars
        => [/\ GSStep => GSRank' < GSRank
            /\ Stalled /\ ~GSStep => GSRank' = GSRank]_vars
  <2> SUFFICES ASSUME DrivenInv, [Next]_vars
               PROVE  /\ GSStep => GSRank' < GSRank
                      /\ Stalled /\ ~GSStep => GSRank' = GSRank
    OBVIOUS
  <2>0. /\ TypeOK /\ GSReady /\ queue \in Seq(QueuedPacket) /\ Len(queue) \in Nat
        /\ m_post_event \in Nat
    BY DEF DrivenInv, StreamInv, RingInv, TypeOK
  <2>1. ASSUME GSWait \/ GSBusy \/ GSLoop \/ GSRest \/ GSHandle \/ GSRestartLock
        PROVE  GSRank' < GSRank
    <3>1. /\ UNCHANGED queue /\ m_post_event' \in Nat
          /\ IF gsPc = "wait" THEN m_post_event' = m_post_event - 1 ELSE m_post_event' = m_post_event
          /\ <<gsPc, gsPc'>> \in {<<"wait", "busy">>, <<"busy", "loop">>, <<"loop", "rest">>,
                <<"loop", "restart">>, <<"loop", "handle">>, <<"rest", "wait">>,
                <<"handle", "quit">>, <<"handle", "advance">>, <<"restart_lock", "loop">>}
      BY <2>0, <2>1 DEF GSWait, GSBusy, GSLoop, GSRest, GSHandle, GSRestartLock, GSGoto
    <3>2. PICK n \in Nat : n = Len(queue) /\ n = Len(queue')
      BY <2>0, <3>1
    <3> DEFINE x == GSPlace[gsPc]
               y == GSPlace[gsPc']
    <3>a. \/ gsPc = "wait" /\ gsPc' = "busy"
          \/ gsPc = "busy" /\ gsPc' = "loop"
          \/ gsPc = "loop" /\ gsPc' = "rest"
          \/ gsPc = "loop" /\ gsPc' \in {"restart", "handle"}
          \/ gsPc = "rest" /\ gsPc' = "wait"
          \/ gsPc = "handle" /\ gsPc' = "quit"
          \/ gsPc = "handle" /\ gsPc' = "advance"
          \/ gsPc = "restart_lock" /\ gsPc' = "loop"
      BY <3>1, Zenon
    <3>b. \/ gsPc = "wait" /\ x = 0 /\ y = 6
          \/ gsPc # "wait" /\ x = 6 /\ y = 5
          \/ gsPc # "wait" /\ x = 5 /\ y = 1
          \/ gsPc # "wait" /\ x = 5 /\ y = 4
          \/ gsPc # "wait" /\ x = 1 /\ y = 0
          \/ gsPc # "wait" /\ x = 4 /\ y = 0
          \/ gsPc # "wait" /\ x = 4 /\ y = 3
      BY <3>a, PlacesAre
    <3> HIDE DEF x, y
    <3>3. PICK a \in 0 .. 6, b \in 0 .. 6 : 
            /\ a = x
            /\ b = y
            /\ (a = 0 /\ b = 6 /\ gsPc = "wait") \/ (b < a /\ gsPc # "wait")
      BY <3>b
    <3>4. PICK k \in Nat, m \in Nat : k = m_post_event /\ m = m_post_event'
      BY <2>0, <3>1
    <3>5. IF gsPc = "wait" THEN m = k - 1 ELSE m = k
      BY <3>1, <3>4
    <3>6. GSRank = 7 * k + 3 * n + a /\ GSRank' = 7 * m + 3 * n + b
      BY <3>2, <3>3, <3>4, Zenon DEF GSRank, x, y
    <3>7. 7 * m + 3 * n + b < 7 * k + 3 * n + a
      <4>1. CASE gsPc = "wait"
        <5>1. m = k - 1 /\ a = 0 /\ b = 6
          BY <4>1, <3>3, <3>5
        <5> QED BY <5>1
      <4>2. CASE gsPc # "wait"
        <5>1. m = k /\ b < a
          BY <4>2, <3>3, <3>5
        <5> QED BY <5>1
      <4> QED BY <4>1, <4>2
    <3> QED BY <3>6, <3>7
  <2>2. ASSUME GSAdvance \/ GSRestart
        PROVE  GSRank' < GSRank
    <3>1. /\ Len(queue) > 0 /\ queue' = Tail(queue) /\ UNCHANGED m_post_event
          /\ <<gsPc, gsPc'>> \in {<<"advance", "loop">>, <<"restart", "restart_lock">>}
      BY <2>0, <2>2 DEF GSAdvance, GSRestart, GSGoto, GSReady
    <3>2. Len(queue') = Len(queue) - 1
      BY <2>0, <3>1
    <3>3. PICK n \in Nat : n = Len(queue) /\ n - 1 = Len(queue')
      BY <2>0, <3>2
    <3>4. PICK a \in 0 .. 6, b \in 0 .. 6 :
            a = GSPlace[gsPc] /\ b = GSPlace[gsPc'] /\ b <= a + 2
      BY <3>1, PlacesAre
    <3>5. PICK k \in Nat : k = m_post_event /\ k = m_post_event'
      BY <2>0, <3>1
    <3>6. GSRank = 7 * k + 3 * n + a /\ GSRank' = 7 * k + 3 * (n - 1) + b
      BY <3>3, <3>4, <3>5, Zenon DEF GSRank
    <3>7. 7 * k + 3 * (n - 1) + b < 7 * k + 3 * n + a
      BY <3>4
    <3> QED BY <3>6, <3>7
  <2>3. ASSUME Stalled, ~GSStep
        PROVE  UNCHANGED <<queue, m_post_event, gsPc>>
    <3> USE DEF EEGoto, EEOnly, ringVars, gsVars
    <3>1. CASE VsyncThrottle \/ VsyncCheck \/ Done \/ UNCHANGED vars
      BY <3>1 DEF VsyncThrottle, VsyncCheck, Done, vars
    <3>2. ~(SimpleSpin \/ DataStall \/ FitStall \/ WrapStall \/ WrapBegin \/ WaitSpin \/ Join)
      BY <2>0, <2>3 DEF Stalled, SimpleSpin, DataStall, FitStall, WrapStall, WrapBegin, WaitSpin, Join,
                        TypeOK, Slot
    <3>3. ~(SimplePrep \/ SimpleWrite \/ SimplePublish \/ WrapLock \/ WrapRewind
            \/ WrapUnlock \/ WrapPost \/ DataTag \/ DataCopy \/ DataPublish
            \/ DataKick \/ VsyncCount \/ PostEvent \/ WaitPost
            \/ ResetPos \/ ResetSkip \/ ResetMode \/ QuitPost)
      BY <2>3 DEF Stalled, SimplePrep, SimpleWrite, SimplePublish, WrapLock, WrapRewind,
                  WrapUnlock, WrapPost, DataTag, DataCopy, DataPublish,
                  DataKick, VsyncCount, PostEvent, WaitPost, ResetPos, ResetSkip, ResetMode, QuitPost
    <3>4. ~EEBegin
      BY <2>3 DEF Stalled, EEBegin, PrepFits, PrepWraps, PrepExact, SendSimple, StartUpload,
                  PostVsyncEnd, StartWaitGS, StartFreeze, StartClose
    <3> QED BY <2>3, <3>1, <3>2, <3>3, <3>4 DEF Next, EEStep
  <2>4. Stalled /\ ~GSStep => GSRank' = GSRank
    BY <2>3 DEF GSRank
  <2> QED BY <2>1, <2>2, <2>4 DEF GSStep
<1> QED BY DrivenInvariant, <1>1, PTL DEF GSRunsDown, Spec

(* Every step of an operation of the EE thread brings it nearer to its end,  *)
(* but for the loop of PostVsyncEnd.                                         *)
THEOREM EEThreadRunsDown == Spec => EERunsDown
<1>1. DrivenInv => (EEStep => EERank' < EERank \/ GoesRound)
  <2> SUFFICES ASSUME DrivenInv, EEStep
               PROVE  EERank' < EERank \/ GoesRound
    OBVIOUS
  <2> USE DEF EEGoto, CallSimple
  <2>0. EEReady
    BY DEF DrivenInv, StreamInv, RingInv
  <2>1. CASE SimplePrep \/ SimpleSpin \/ SimpleWrite
    <3>1. /\ SendingSimple /\ SendingSimple' /\ UNCHANGED eeRet
          /\ StepsFrom[eePc'] < StepsFrom[eePc] /\ StepsFrom[eePc] \in 0 .. 4 /\ StepsFrom[eePc'] \in 0 .. 4
      BY <2>1, StepsAre DEF SimplePrep, SimpleSpin, SimpleWrite, SendingSimple
    <3>2. StepsFrom[eeRet] \in Nat
      BY <2>0, <3>1, StepsAre DEF EEReady, Restarting
    <3> QED BY <3>1, <3>2 DEF EERank
  <2>2. CASE SimplePublish
    <3>1. /\ SendingSimple /\ ~SendingSimple' /\ eePc' = eeRet /\ StepsFrom[eePc] = 1
          /\ StepsFrom[eeRet] \in Nat
      BY <2>0, <2>2, StepsAre DEF SimplePublish, SendingSimple, EEReady, Restarting
    <3> QED BY <3>1 DEF EERank
  <2>3. CASE DataStall \/ FitStall \/ WrapStall \/ WrapRewind \/ WrapUnlock \/ WrapPost \/ WrapBegin
    BY <2>3, StepsAre DEF DataStall, FitStall, WrapStall, WrapRewind, WrapUnlock, WrapPost, WrapBegin,
                          SendingSimple, EERank
  <2>4. CASE DataTag \/ DataCopy \/ DataPublish \/ DataKick \/ PostEvent \/ WaitPost \/ QuitPost \/ Join
    BY <2>4, StepsAre DEF DataTag, DataCopy, DataPublish, DataKick, PostEvent, WaitPost, QuitPost, Join,
                          SendingSimple, EERank
  <2>5. CASE WrapLock \/ VsyncCount \/ ResetPos \/ ResetSkip \/ ResetMode
    BY <2>5, StepsAre DEF WrapLock, VsyncCount, ResetPos, ResetSkip, ResetMode, SendingSimple, EERank
  <2>6. CASE VsyncThrottle
    BY <2>6, StepsAre DEF VsyncThrottle, SendingSimple, EERank
  <2>7. CASE VsyncCheck
    BY <2>7, StepsAre DEF VsyncCheck, SendingSimple, EERank, GoesRound
  <2>8. CASE WaitSpin
    <3>1. eeRet \in {"run", "reset_pos"}
      BY <2>0, <2>8 DEF WaitSpin, EEReady
    <3> QED BY <2>8, <3>1, StepsAre DEF WaitSpin, SendingSimple, EERank
  <2> QED BY <2>1, <2>2, <2>3, <2>4, <2>5, <2>6, <2>7, <2>8 DEF EEStep
<1>2. DrivenInv /\ [Next]_vars => [EEStep => EERank' < EERank \/ GoesRound]_vars
  BY <1>1
<1> QED BY DrivenInvariant, <1>2, PTL DEF EERunsDown, Spec
=============================================================================
