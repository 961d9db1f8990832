----------------------------- MODULE MovieProofs -----------------------------
(* Proofs about Movie, for any pads, clocks, files, slots and bounds: that   *)
(* its invariants are inductive, what follows for a movie played back, and   *)
(* why playing one comes to an end.                                          *)
EXTENDS Movie, SequenceTheorems, TLAPS

-----------------------------------------------------------------------------
(* The frames of a file.                                                     *)

(* The first n frames.                                                       *)
LEMMA Prefix ==
  ASSUME NEW d \in Seq(Pad), NEW n \in 0 .. Len(d)
  PROVE  /\ SubSeq(d, 1, n) \in Seq(Pad)
         /\ Len(SubSeq(d, 1, n)) = n
         /\ \A i \in 1 .. n : SubSeq(d, 1, n)[i] = d[i]
<1>1. Len(d) \in Nat /\ \A i \in 1 .. n : d[i] \in Pad
  BY LenProperties, ElementOfSeq
<1> QED BY <1>1, SubSeqProperties

(* One more frame read: the ones before it stay.                             *)
LEMMA FrameRead ==
  ASSUME NEW d \in Seq(Pad), NEW p \in Pad
  PROVE  /\ Append(d, p) \in Seq(Pad)
         /\ Len(d) \in Nat /\ Len(Append(d, p)) = Len(d) + 1
         /\ \A i \in 1 .. Len(d) : Append(d, p)[i] = d[i]
         /\ Append(d, p)[Len(d) + 1] = p
BY AppendProperties, LenProperties

(* fwrite of one frame: the frames before it stay.                           *)
LEMMA WrittenFrame ==
  ASSUME NEW d \in Seq(Pad), NEW p \in Pad, pos \in 0 .. Len(d)
  PROVE  /\ Written(d, p) \in Seq(Pad)
         /\ Len(Written(d, p)) >= Len(d)
         /\ Len(Written(d, p)) >= pos + 1
         /\ \A i \in 1 .. pos : Written(d, p)[i] = d[i]
         /\ Written(d, p)[pos + 1] = p
<1> DEFINE w == Written(d, p)
           n == IF pos < Len(d) THEN Len(d) ELSE pos + 1
<1>1. /\ Len(d) \in Nat /\ pos \in Nat /\ n \in Nat /\ pos + 1 \in 1 .. n
      /\ n >= Len(d) /\ n >= pos + 1
      /\ \A i \in 1 .. n : i # pos + 1 => i \in 1 .. Len(d) /\ d[i] \in Pad
  BY LenProperties, ElementOfSeq
<1>2. /\ w = [i \in 1 .. n |-> IF i = pos + 1 THEN p ELSE d[i]]
      /\ \A i \in 1 .. n : w[i] = IF i = pos + 1 THEN p ELSE d[i]
  BY DEF Written
<1> HIDE DEF w
<1>3. w \in [1 .. n -> Pad]
  BY <1>1, <1>2
<1>4. w \in Seq(Pad) /\ Len(w) = n
  BY <1>1, <1>3, SeqDef, LenProperties
<1>5. \A i \in 1 .. pos : i \in 1 .. n /\ i # pos + 1
  BY <1>1
<1> QED BY <1>1, <1>2, <1>4, <1>5 DEF w

(* Re-recording from a savestate: its frames, then what is left of the file. *)
LEMMA RewrittenFrames ==
  ASSUME NEW f \in Movie, NEW st \in State, st.FrameNum = Len(st.data)
  PROVE  /\ Rewritten(f, st).data \in Seq(Pad)
         /\ Len(Rewritten(f, st).data) >= st.FrameNum
         /\ Len(Rewritten(f, st).data) >= Len(f.data)
         /\ \A i \in 1 .. st.FrameNum : Rewritten(f, st).data[i] = st.data[i]
<1> DEFINE d == f.data
           e == st.data
           n == st.FrameNum
           r == SubSeq(d, n + 1, Len(d))
           w == e \o r
<1>1. d \in Seq(Pad) /\ e \in Seq(Pad) /\ n = Len(e) /\ Rewritten(f, st).data = w
  BY DEF Movie, State, Rewritten
<1> HIDE DEF d, e, n
<1>2. n \in Nat /\ Len(d) \in Nat /\ \A i \in n + 1 .. Len(d) : d[i] \in Pad
  BY <1>1, LenProperties, ElementOfSeq
<1>3. r \in Seq(Pad) /\ Len(r) = IF n + 1 <= Len(d) THEN Len(d) - n ELSE 0
  BY <1>1, <1>2, SubSeqProperties
<1> HIDE DEF r
<1>4. /\ w \in Seq(Pad) /\ Len(w) = n + Len(r) /\ Len(r) \in Nat
      /\ \A i \in 1 .. n : w[i] = e[i]
  <2>1. /\ w \in Seq(Pad) /\ Len(w) = Len(e) + Len(r)
        /\ \A i \in 1 .. Len(e) + Len(r) : w[i] = IF i <= Len(e) THEN e[i] ELSE r[i - Len(e)]
    <3>1. e \in Seq(Pad) /\ r \in Seq(Pad)
      BY <1>1, <1>3
    <3> QED BY <3>1, ConcatProperties
  <2>2. Len(r) \in Nat
    BY <1>3, LenProperties
  <2> HIDE DEF w
  <2> QED BY <1>1, <1>2, <2>1, <2>2
<1> HIDE DEF w
<1>5. Len(w) >= n /\ Len(w) >= Len(d)
  BY <1>2, <1>3, <1>4
<1> QED BY <1>1, <1>4, <1>5 DEF d, e, n

-----------------------------------------------------------------------------
(* What is always true, together.                                            *)
Inv == TypeOK /\ MovieInv

(* The records of a movie and of a savestate.                                *)
LEMMA Fields ==
  ASSUME TypeOK
  PROVE  /\ \A f \in FileName : disk[f] # None =>
               /\ disk[f] \in Movie
               /\ disk[f].FrameMax \in Nat /\ disk[f].Rerecs \in Nat
               /\ disk[f].BootTime \in Time /\ disk[f].data \in Seq(Pad)
               /\ Len(disk[f].data) \in Nat
         /\ machine # None =>
               /\ machine \in Machine
               /\ machine.boot \in Time /\ machine.frames \in Seq(Pad)
               /\ Len(machine.frames) \in Nat /\ machine.uncounted \in Nat
         /\ \A f \in FileName : take[f] # None =>
               /\ take[f].boot \in Time /\ take[f].frames \in Seq(Pad)
               /\ Len(take[f].frames) \in Nat /\ take[f].uncounted \in Nat
         /\ File # None => File \in FileName
<1>1. \A f \in FileName : disk[f] # None => disk[f] \in Movie
  BY DEF TypeOK
<1>2. \A f \in FileName : take[f] # None => take[f] \in Machine
  BY DEF TypeOK
<1>3. machine # None => machine \in Machine
  BY DEF TypeOK
<1>4. File # None => File \in FileName
  BY DEF TypeOK
<1> QED BY <1>1, <1>2, <1>3, <1>4, LenProperties DEF Movie, Machine

LEMMA StateFields ==
  ASSUME NEW st \in State
  PROVE  /\ st.machine \in Machine \cup {None} /\ st.hasMovie \in BOOLEAN
         /\ st.FrameNum \in Nat /\ st.data \in Seq(Pad)
BY DEF State

(* MovieEnd changes one header.                                              *)
LEMMA EndedFile ==
  ASSUME TypeOK, OpenFile
  PROVE  /\ Ended \in [FileName -> Movie \cup {None}]
         /\ \A f \in FileName :
              /\ Ended[f] = None <=> disk[f] = None
              /\ disk[f] # None => /\ Ended[f].data = disk[f].data
                                   /\ Ended[f].BootTime = disk[f].BootTime
              /\ f # File \/ ReadOnly => Ended[f] = disk[f]
         /\ File # None /\ ~ReadOnly => Ended[File].FrameMax = FrameMax
<1>1. CASE File # None /\ ~ReadOnly
  <2>1. /\ File \in FileName /\ disk[File] \in Movie /\ disk[File] # None
        /\ FrameMax \in Nat /\ Rerecs \in Nat /\ disk \in [FileName -> Movie \cup {None}]
    BY <1>1, Fields DEF TypeOK, OpenFile
  <2> DEFINE m == [disk[File] EXCEPT !.FrameMax = FrameMax, !.Rerecs = Rerecs]
  <2>2. /\ m \in Movie /\ m.data = disk[File].data /\ m.BootTime = disk[File].BootTime
        /\ m.FrameMax = FrameMax
    BY <2>1 DEF Movie
  <2>3. m # None
    BY <2>2, MovieAssumption
  <2>4. Ended = [disk EXCEPT ![File] = m]
    BY <1>1, <2>1 DEF Ended
  <2> HIDE DEF m
  <2> QED BY <1>1, <2>1, <2>2, <2>3, <2>4
<1>2. CASE ~ (File # None /\ ~ReadOnly)
  BY <1>2 DEF Ended, TypeOK
<1> QED BY <1>1, <1>2

(* The buffer that a savestate takes from the file.                          *)
LEMMA Buffer ==
  ASSUME TypeOK, OpenFile, NEW d \in MovieData
  PROVE  /\ d \in Seq(Pad)
         /\ File = None => Len(d) = 0
         /\ File # None => Len(d) = FrameNum
         /\ File # None /\ FrameNum <= Len(disk[File].data)
              => d = SubSeq(disk[File].data, 1, FrameNum)
<1>1. CASE File = None
  BY <1>1, EmptySeq DEF MovieData
<1>2. CASE File # None
  <2>1. /\ disk[File].data \in Seq(Pad) /\ FrameNum \in Nat
        /\ Len(disk[File].data) \in Nat
    BY <1>2, Fields DEF OpenFile, TypeOK
  <2>2. /\ d \in [1 .. FrameNum -> Pad]
        /\ \A i \in 1 .. FrameNum : i <= Len(disk[File].data) => d[i] = disk[File].data[i]
    BY <1>2 DEF MovieData
  <2>3. d \in Seq(Pad) /\ Len(d) = FrameNum
    BY <2>1, <2>2, SeqDef, LenProperties
  <2>4. ASSUME FrameNum <= Len(disk[File].data)
        PROVE  d = SubSeq(disk[File].data, 1, FrameNum)
    <3> DEFINE e == SubSeq(disk[File].data, 1, FrameNum)
    <3>1. /\ e \in Seq(Pad) /\ Len(e) = FrameNum
          /\ \A i \in 1 .. FrameNum : e[i] = disk[File].data[i]
      BY <2>1, <2>4, Prefix
    <3>2. \A i \in 1 .. FrameNum : d[i] = disk[File].data[i]
      BY <2>1, <2>2, <2>4
    <3> HIDE DEF e
    <3>3. d = e
      BY <2>1, <2>3, <3>1, <3>2, SeqEqual
    <3> QED BY <3>3 DEF e
  <2> QED BY <1>2, <2>3, <2>4
<1> QED BY <1>1, <1>2

(* A machine whose frames are all counted is where the file is positioned.   *)
LEMMA Counted ==
  ASSUME Inv, machine # None, machine.uncounted = 0
  PROVE  /\ File # None /\ pos = FrameNum /\ pos = Len(machine.frames)
         /\ FrameNum <= Len(disk[File].data)
BY Fields DEF Inv, MovieInv, TypeOK, InSync, PastEnd

(* What is frozen is a savestate, and it carries its own movie.              *)
LEMMA Frozen ==
  ASSUME Inv, NEW d \in MovieData
  PROVE  Snapshot(d) \in State /\ Carries(Snapshot(d))
<1> USE DEF Inv, MovieInv
<1>1. d \in Seq(Pad) /\ Len(d) \in Nat
  BY Buffer, LenProperties
<1>2. Snapshot(d) \in State
  BY <1>1 DEF Snapshot, Kept, State, TypeOK
<1>3. ASSUME Kept # None
      PROVE  File # None /\ machine.frames = d /\ Kept = machine /\ machine.uncounted = 0
  <2>1. machine # None /\ Kept = machine /\ machine.uncounted = 0
    BY <1>3 DEF Kept
  <2>2. /\ File # None /\ pos = FrameNum /\ FrameNum <= Len(disk[File].data)
        /\ Len(machine.frames) = FrameNum /\ Len(d) = FrameNum
        /\ d = SubSeq(disk[File].data, 1, FrameNum)
        /\ \A i \in 1 .. FrameNum : machine.frames[i] = disk[File].data[i]
        /\ machine.frames \in Seq(Pad) /\ FrameNum \in Nat
        /\ disk[File].data \in Seq(Pad) /\ Len(disk[File].data) \in Nat
    <3>1. /\ File # None /\ pos = FrameNum /\ Len(machine.frames) = FrameNum
          /\ FrameNum <= Len(disk[File].data)
      BY <2>1, Counted
    <3>2. Len(d) = FrameNum /\ d = SubSeq(disk[File].data, 1, FrameNum)
      BY <3>1, Buffer
    <3>3. \A i \in 1 .. FrameNum : machine.frames[i] = disk[File].data[i]
      BY <2>1, <3>1 DEF InSync
    <3>4. /\ machine.frames \in Seq(Pad) /\ FrameNum \in Nat
          /\ disk[File].data \in Seq(Pad) /\ Len(disk[File].data) \in Nat
      BY <2>1, <3>1, Fields DEF OpenFile, TypeOK
    <3> QED BY <3>1, <3>2, <3>3, <3>4
  <2>3. \A i \in 1 .. FrameNum : SubSeq(disk[File].data, 1, FrameNum)[i] = disk[File].data[i]
    <3>1. FrameNum \in 0 .. Len(disk[File].data)
      BY <2>2
    <3> QED BY <2>2, <3>1, Prefix
  <2>4. \A i \in 1 .. FrameNum : machine.frames[i] = d[i]
    BY <2>2, <2>3
  <2>5. machine.frames = d
    BY <1>1, <2>2, <2>4, SeqEqual
  <2> QED BY <2>1, <2>2, <2>5
<1> QED BY <1>2, <1>3 DEF Snapshot, Carries

-----------------------------------------------------------------------------
(* The invariants are inductive.                                             *)

LEMMA InitInv == Init => Inv
<1> SUFFICES ASSUME Init PROVE Inv
  OBVIOUS
<1> USE DEF Init
<1>1. TypeOK
  BY MovieAssumption DEF TypeOK
<1>2. OpenFile /\ Recording /\ InSync /\ HeaderWithinFile /\ TakeKept
  BY DEF OpenFile, Recording, InSync, HeaderWithinFile, TakeKept
<1>3. SavestatesCarryMovie
  BY DEF SavestatesCarryMovie, Carries
<1> QED BY <1>1, <1>2, <1>3 DEF Inv, MovieInv

(* Steps that leave the files, the open movie and the savestates alone, and  *)
(* the machine too unless they give it up.                                   *)
LEMMA Quiet ==
  ASSUME Inv,
         UNCHANGED <<disk, pos, File, FrameMax, Replay, BootTime, slots, take>>,
         g_RecoveryState' \in {g_RecoveryState, None},
         \/ FrameNum' = FrameNum /\ machine' \in {machine, None}
         \/ FrameNum' \in Nat /\ machine' = None /\ (File = None \/ FrameNum' = 0)
  PROVE  MovieInv'
<1> USE DEF Inv, MovieInv
<1>1. OpenFile' /\ HeaderWithinFile'
  BY DEF OpenFile, HeaderWithinFile
<1>2. Recording'
  BY DEF Recording, TypeOK
<1>3. InSync'
  BY DEF InSync, PastEnd, TypeOK
<1>4. SavestatesCarryMovie'
  BY DEF SavestatesCarryMovie, Carries
<1>5. TakeKept'
  BY DEF TakeKept
<1> QED BY <1>1, <1>2, <1>3, <1>4, <1>5

LEMMA QuietSteps ==
  ASSUME Inv,
         \/ PlainFrame \/ ToggleReadOnly \/ Escape \/ Resume \/ SysReset
         \/ \E s \in Slot : LoadFails(s)
         \/ UNCHANGED vars
  PROVE  Inv'
<1> USE DEF execution, g_Movie
<1>1. ASSUME PlainFrame PROVE Inv'
  <2>1. TypeOK'
    BY <1>1 DEF PlainFrame, Emulate, TypeOK, Inv
  <2>2. machine = None
    BY <1>1 DEF PlainFrame, InSync, Inv, MovieInv
  <2>3. MovieInv'
    BY <1>1, <2>1, <2>2, Quiet DEF PlainFrame, Emulate, TypeOK
  <2> QED BY <2>1, <2>3 DEF Inv
<1>2. ASSUME ToggleReadOnly PROVE Inv'
  BY <1>2, Quiet DEF ToggleReadOnly, TypeOK, Inv
<1>3. ASSUME Escape PROVE Inv'
  BY <1>3, Quiet DEF Escape, TypeOK, Inv
<1>4. ASSUME Resume PROVE Inv'
  BY <1>4, Quiet DEF Resume, TypeOK, Inv
<1>5. ASSUME SysReset PROVE Inv'
  BY <1>5, Quiet DEF SysReset, TypeOK, Inv
<1>6. ASSUME NEW s \in Slot, LoadFails(s) PROVE Inv'
  BY <1>6, Quiet DEF LoadFails, TypeOK, Inv
<1>7. ASSUME UNCHANGED vars PROVE Inv'
  BY <1>7, Quiet DEF vars, TypeOK, Inv
<1> QED BY <1>1, <1>2, <1>3, <1>4, <1>5, <1>6, <1>7

LEMMA BootedMachine ==
  ASSUME NEW t \in Time
  PROVE  /\ Booted(t) \in Machine /\ Booted(t).boot = t
         /\ Booted(t).frames = <<>> /\ Booted(t).uncounted = 0
         /\ Len(Booted(t).frames) = 0
<1>1. <<>> \in Seq(Pad)
  BY EmptySeq
<1> QED BY <1>1 DEF Booted, Machine

LEMMA BootStep ==
  ASSUME Inv, Boot
  PROVE  Inv'
<1>1. TypeOK'
  <2>1. Booted(BootTime) \in Machine
    BY BootedMachine DEF TypeOK, Inv
  <2> QED BY <2>1 DEF Boot, RunExecute, TypeOK, Inv
<1>2. CASE File # None /\ pos = 0
  <2> USE <1>2 DEF Inv, MovieInv, Boot, RunExecute
  <2>1. OpenFile' /\ HeaderWithinFile'
    BY DEF OpenFile, HeaderWithinFile
  <2>2. Recording'
    BY DEF Recording
  <2>3. InSync'
    <3>1. /\ disk[File] # None /\ disk[File].BootTime = BootTime
          /\ disk[File].data \in Seq(Pad) /\ Len(disk[File].data) \in Nat
      BY Fields DEF OpenFile
    <3>2. /\ Booted(BootTime).boot = BootTime /\ Booted(BootTime).uncounted = 0
          /\ Len(Booted(BootTime).frames) = 0
      BY BootedMachine DEF TypeOK
    <3> QED BY <3>1, <3>2 DEF InSync
  <2>4. SavestatesCarryMovie'
    BY DEF SavestatesCarryMovie, Carries
  <2>5. TakeKept'
    BY DEF TakeKept
  <2> QED BY <1>1, <2>1, <2>2, <2>3, <2>4, <2>5
<1>3. CASE ~ (File # None /\ pos = 0)
  BY <1>1, <1>3, Quiet DEF Boot, RunExecute, Inv
<1> QED BY <1>2, <1>3

LEMMA ExitStep ==
  ASSUME Inv, Exit
  PROVE  Inv'
<1> USE DEF Inv, MovieInv, Exit
<1>1. TypeOK'
  BY MovieAssumption DEF TypeOK
<1>2. OpenFile' /\ Recording' /\ InSync' /\ HeaderWithinFile'
  BY DEF OpenFile, Recording, InSync, HeaderWithinFile
<1>3. SavestatesCarryMovie'
  BY DEF SavestatesCarryMovie, Carries
<1>4. TakeKept'
  <2>1. \A f \in FileName : File' # f
    BY MovieAssumption
  <2> QED BY <2>1 DEF TakeKept
<1> QED BY <1>1, <1>2, <1>3, <1>4

(* Frames.                                                                   *)
LEMMA RecordStep ==
  ASSUME Inv, NEW p \in Pad, RecordFrame(p)
  PROVE  Inv'
<1> USE DEF Inv, MovieInv
<1>1. /\ File \in FileName /\ File # None /\ ~Replay
      /\ disk[File] # None /\ disk[File] \in Movie /\ disk[File].data \in Seq(Pad)
      /\ Len(disk[File].data) \in Nat
      /\ FrameNum \in Nat /\ pos \in Nat /\ FrameNum <= pos /\ pos <= Len(disk[File].data)
      /\ disk \in [FileName -> Movie \cup {None}]
  BY Fields DEF RecordFrame, OpenFile, Recording, TypeOK
<1> DEFINE w == Written(disk[File].data, p)
           m == [disk[File] EXCEPT !.data = w]
<1>2. /\ w \in Seq(Pad) /\ Len(w) \in Nat
      /\ Len(w) >= Len(disk[File].data) /\ Len(w) >= pos + 1
      /\ \A i \in 1 .. pos : w[i] = disk[File].data[i]
      /\ w[pos + 1] = p
  <2>1. pos \in 0 .. Len(disk[File].data)
    BY <1>1
  <2>2. /\ w \in Seq(Pad)
        /\ Len(w) >= Len(disk[File].data) /\ Len(w) >= pos + 1
        /\ \A i \in 1 .. pos : w[i] = disk[File].data[i]
        /\ w[pos + 1] = p
    BY <1>1, <2>1, WrittenFrame
  <2> HIDE DEF w
  <2> QED BY <2>2, LenProperties
<1>3. /\ disk' = [disk EXCEPT ![File] = m]
      /\ FrameNum' = FrameNum + 1 /\ FrameMax' = FrameNum + 1 /\ pos' = pos + 1
      /\ File' = File /\ Replay' = Replay /\ BootTime' = BootTime
      /\ take' = [take EXCEPT ![File] = None]
      /\ UNCHANGED <<Rerecs, ReadOnly, slots, g_RecoveryState, running,
                     g_EmulationInProgress>>
  BY <1>1 DEF RecordFrame, Emulate, execution
<1> HIDE DEF w
<1>4. /\ m \in Movie /\ m.data = w /\ m.BootTime = disk[File].BootTime
      /\ m.FrameMax = disk[File].FrameMax
  BY <1>1, <1>2 DEF Movie
<1>5. m # None
  BY <1>4, MovieAssumption
<1> HIDE DEF m
<1>6. /\ disk' \in [FileName -> Movie \cup {None}] /\ disk'[File] = m /\ disk'[File'] = m
      /\ \A f \in FileName : f # File => disk'[f] = disk[f]
  BY <1>1, <1>3, <1>4
<1>7. machine # None =>
        /\ machine' \in Machine /\ machine'.boot = machine.boot
        /\ machine'.uncounted = machine.uncounted
        /\ machine'.frames = Append(machine.frames, p)
  <2>1. ASSUME machine # None
        PROVE  machine' = [machine EXCEPT !.frames = Append(machine.frames, p)]
    BY <2>1 DEF RecordFrame, Reading
  <2>2. ASSUME machine # None
        PROVE  /\ machine \in Machine /\ machine.frames \in Seq(Pad)
               /\ Append(machine.frames, p) \in Seq(Pad)
    BY <2>2, Fields, AppendProperties
  <2> QED BY <2>1, <2>2 DEF Machine
<1>8. machine = None => machine' = None
  BY DEF RecordFrame, Reading
<1>9. TypeOK'
  BY <1>1, <1>3, <1>6, <1>7, <1>8 DEF TypeOK
<1>10. OpenFile'
  BY <1>1, <1>3, <1>4, <1>5, <1>6 DEF OpenFile
<1>11. Recording'
  <2>1. FrameNum' <= pos' /\ pos' <= Len(disk'[File'].data)
    BY <1>1, <1>2, <1>3, <1>4, <1>6
  <2> QED BY <2>1 DEF Recording
<1>12. InSync'
  <2>1. CASE machine = None
    BY <2>1, <1>8 DEF InSync
  <2>2. CASE machine # None
    <3> DEFINE x == machine.frames
               y == Append(machine.frames, p)
               u == machine.uncounted
    <3>1. /\ pos = Len(x) /\ Len(x) = FrameNum + u
          /\ \A i \in 1 .. pos : x[i] = disk[File].data[i]
          /\ machine.boot = BootTime /\ BootTime = disk[File].BootTime
      BY <1>1, <2>2 DEF InSync, PastEnd
    <3>2. /\ u \in Nat /\ Len(y) = Len(x) + 1 /\ y[Len(x) + 1] = p
          /\ \A i \in 1 .. Len(x) : y[i] = x[i]
      BY <2>2, Fields, FrameRead
    <3>3. /\ machine'.frames = y /\ machine'.uncounted = u /\ machine'.boot = machine.boot
      BY <2>2, <1>7
    <3> HIDE DEF x, y, u
    <3>4. \A i \in 1 .. pos + 1 : y[i] = w[i]
      <4>1. \A i \in 1 .. pos + 1 : i \in 1 .. pos \/ i = pos + 1
        BY <1>1
      <4>2. \A i \in 1 .. pos : y[i] = w[i]
        BY <1>2, <3>1, <3>2
      <4>3. y[pos + 1] = w[pos + 1]
        BY <1>2, <3>1, <3>2
      <4> QED BY <4>1, <4>2, <4>3
    <3>5. Len(y) = FrameNum + 1 + u /\ pos + 1 = Len(y)
      BY <1>1, <3>1, <3>2
    <3> QED BY <1>1, <1>2, <1>3, <1>4, <1>5, <1>6, <3>1, <3>3, <3>4, <3>5 DEF InSync
  <2> QED BY <2>1, <2>2
<1>13. SavestatesCarryMovie'
  BY <1>3 DEF SavestatesCarryMovie, Carries
<1>14. HeaderWithinFile'
  <2>1. m.FrameMax <= Len(m.data)
    <3>1. disk[File].FrameMax <= Len(disk[File].data) /\ disk[File].FrameMax \in Nat
      BY <1>1, Fields DEF HeaderWithinFile
    <3> QED BY <3>1, <1>1, <1>2, <1>4
  <2>2. FrameMax' <= Len(disk'[File'].data)
    <3>1. FrameNum + 1 <= Len(w)
      BY <1>1, <1>2
    <3> QED BY <3>1, <1>3, <1>4, <1>6
  <2>3. \A f \in FileName : disk'[f] # None => disk'[f].FrameMax <= Len(disk'[f].data)
    <3> SUFFICES ASSUME NEW f \in FileName, disk'[f] # None
                 PROVE  disk'[f].FrameMax <= Len(disk'[f].data)
      OBVIOUS
    <3>1. CASE f = File
      BY <3>1, <2>1, <1>6
    <3>2. CASE f # File
      BY <3>2, <1>6 DEF HeaderWithinFile
    <3> QED BY <3>1, <3>2
  <2> QED BY <2>2, <2>3 DEF HeaderWithinFile
<1>15. TakeKept'
  <2>1. /\ take' \in [FileName -> Machine \cup {None}] /\ take'[File] = None
        /\ \A f \in FileName : f # File => take'[f] = take[f]
    BY <1>1, <1>3 DEF TypeOK
  <2> QED BY <2>1, <1>1, <1>3, <1>6 DEF TakeKept
<1> QED BY <1>9, <1>10, <1>11, <1>12, <1>13, <1>14, <1>15

(* Saving a state.                                                           *)
LEMMA FreezeSaveKeeps ==
  ASSUME Inv, FreezeSave, machine' = Kept, UNCHANGED <<g_Movie, take>>
  PROVE  /\ disk' \in [FileName -> Movie \cup {None}] /\ pos' \in Nat
         /\ OpenFile' /\ Recording' /\ InSync' /\ HeaderWithinFile' /\ TakeKept'
<1> USE DEF Inv, MovieInv
<1>0. /\ File' = File /\ FrameNum' = FrameNum /\ FrameMax' = FrameMax /\ Replay' = Replay
      /\ BootTime' = BootTime /\ take' = take
      /\ FrameNum \in Nat /\ FrameMax \in Nat
      /\ machine' = machine \/ machine' = None
      /\ machine' # None => machine' = machine /\ machine # None /\ machine.uncounted = 0
  BY DEF g_Movie, TypeOK, Kept
<1>1. CASE File = None
  <2>1. disk' = disk /\ pos' = pos
    BY <1>1 DEF FreezeSave
  <2>2. machine' = None
    BY <1>0, <1>1 DEF InSync
  <2> QED BY <1>0, <1>1, <2>1, <2>2
           DEF TypeOK, OpenFile, Recording, InSync, HeaderWithinFile, TakeKept
<1>2. CASE File # None
  <2>1. /\ File \in FileName /\ disk[File] # None /\ disk[File] \in Movie
        /\ disk[File].data \in Seq(Pad) /\ Len(disk[File].data) \in Nat
        /\ disk[File].BootTime = BootTime /\ BootTime \in Time
        /\ FrameMax \in Nat /\ Rerecs \in Nat
        /\ FrameMax <= Len(disk[File].data)
        /\ disk \in [FileName -> Movie \cup {None}]
    BY <1>2, Fields DEF OpenFile, HeaderWithinFile, TypeOK
  <2> DEFINE m == [disk[File] EXCEPT !.FrameMax = FrameMax, !.Rerecs = Rerecs,
                                     !.BootTime = BootTime]
  <2>2. disk' = [disk EXCEPT ![File] = m] /\ pos' = ReadEnd
    BY <1>2, <2>1 DEF FreezeSave
  <2>3. /\ m \in Movie /\ m.data = disk[File].data /\ m.BootTime = BootTime
        /\ m.FrameMax = FrameMax
    BY <2>1 DEF Movie
  <2>4. m # None
    BY <2>3, MovieAssumption
  <2> HIDE DEF m
  <2>5. /\ disk' \in [FileName -> Movie \cup {None}] /\ disk'[File] = m
        /\ \A f \in FileName : f # File => disk'[f] = disk[f]
    BY <2>1, <2>2, <2>3
  <2>6. /\ pos' \in Nat
        /\ FrameNum <= Len(disk[File].data) => pos' = FrameNum
    BY <1>0, <2>1, <2>2 DEF ReadEnd
  <2>7. OpenFile'
    BY <1>0, <2>3, <2>4, <2>5 DEF OpenFile
  <2>8. Recording'
    <3>1. ASSUME ~Replay PROVE FrameNum <= Len(disk[File].data)
      BY <1>0, <1>2, <2>1, <3>1 DEF Recording, TypeOK
    <3> QED BY <1>0, <2>3, <2>5, <2>6, <3>1 DEF Recording
  <2>9. InSync'
    <3>1. SUFFICES ASSUME machine' # None PROVE InSync'
      BY DEF InSync
    <3>2. machine' = machine /\ machine # None /\ machine.uncounted = 0
      BY <1>0, <3>1
    <3>3. /\ pos = FrameNum /\ FrameNum <= Len(disk[File].data) /\ pos = Len(machine.frames)
      BY <3>2, Counted
    <3>4. pos' = pos
      BY <2>6, <3>3
    <3>5. /\ Len(machine.frames) = FrameNum + machine.uncounted /\ machine.boot = BootTime
          /\ \A i \in 1 .. pos : machine.frames[i] = disk[File].data[i]
      BY <3>2 DEF InSync
    <3> QED BY <1>0, <1>2, <2>1, <2>3, <2>4, <2>5, <3>2, <3>3, <3>4, <3>5 DEF InSync
  <2>10. HeaderWithinFile'
    <3>1. /\ FrameMax <= Len(m.data) /\ m.FrameMax <= Len(m.data)
          /\ \A f \in FileName : disk'[f] # None => disk'[f].FrameMax <= Len(disk'[f].data)
      BY <2>1, <2>3, <2>5 DEF HeaderWithinFile
    <3> QED BY <1>0, <2>5, <3>1 DEF HeaderWithinFile
  <2>11. TakeKept'
    BY <1>0, <2>1, <2>3, <2>4, <2>5 DEF TakeKept
  <2> QED BY <2>5, <2>6, <2>7, <2>8, <2>9, <2>10, <2>11
<1> QED BY <1>1, <1>2

LEMMA SaveStateStep ==
  ASSUME Inv, NEW s \in Slot, SaveState(s)
  PROVE  Inv'
<1> DEFINE Saves == /\ \E d \in MovieData : slots' = [slots EXCEPT ![s] = Snapshot(d)]
                    /\ FreezeSave
                    /\ machine' = Kept
                    /\ UNCHANGED <<execution, g_Movie, take>>
           Rescues == /\ g_RecoveryState # None
                      /\ slots' = [slots EXCEPT ![s] = g_RecoveryState]
                      /\ UNCHANGED <<machine, execution, disk, pos, g_Movie, take>>
<1>1. Saves \/ Rescues
  BY DEF SaveState
<1>2. ASSUME Saves PROVE Inv'
  <2>1. PICK d \in MovieData : slots' = [slots EXCEPT ![s] = Snapshot(d)]
    BY <1>2
  <2>2. Snapshot(d) \in State /\ Carries(Snapshot(d))
    BY Frozen
  <2>3. SavestatesCarryMovie'
    <3>1. \A q \in Slot : slots'[q] = slots[q] \/ slots'[q] = Snapshot(d)
      BY <2>1 DEF TypeOK, Inv
    <3>2. \A q \in Slot : Carries(slots'[q])
      BY <2>2, <3>1 DEF SavestatesCarryMovie, Inv, MovieInv
    <3>3. Carries(g_RecoveryState')
      BY <1>2 DEF execution, SavestatesCarryMovie, Inv, MovieInv
    <3> QED BY <3>2, <3>3 DEF SavestatesCarryMovie, Carries
  <2>4. /\ disk' \in [FileName -> Movie \cup {None}] /\ pos' \in Nat
        /\ OpenFile' /\ Recording' /\ InSync' /\ HeaderWithinFile' /\ TakeKept'
    BY <1>2, FreezeSaveKeeps
  <2>5. TypeOK'
    BY <1>2, <2>1, <2>2, <2>4 DEF TypeOK, Inv, execution, g_Movie, Kept
  <2> QED BY <2>3, <2>4, <2>5 DEF Inv, MovieInv
<1>3. ASSUME Rescues PROVE Inv'
  <2>1. SavestatesCarryMovie'
    BY <1>3 DEF SavestatesCarryMovie, Carries, Inv, MovieInv, execution, TypeOK
  <2>2. TypeOK'
    BY <1>3 DEF TypeOK, Inv, execution, g_Movie
  <2>3. OpenFile' /\ Recording' /\ InSync' /\ HeaderWithinFile' /\ TakeKept'
    BY <1>3 DEF Inv, MovieInv, g_Movie, OpenFile, Recording, InSync, PastEnd,
                 HeaderWithinFile, TakeKept
  <2> QED BY <2>1, <2>2, <2>3 DEF Inv, MovieInv
<1> QED BY <1>1, <1>2, <1>3

LEMMA SysRestorableResetStep ==
  ASSUME Inv, SysRestorableReset
  PROVE  Inv'
<1> USE DEF SysRestorableReset
<1>1. PICK d \in MovieData : g_RecoveryState' = Snapshot(d)
  OBVIOUS
<1>2. Snapshot(d) \in State /\ Carries(Snapshot(d))
  BY Frozen
<1>3. /\ disk' \in [FileName -> Movie \cup {None}] /\ pos' \in Nat
      /\ OpenFile' /\ Recording' /\ InSync' /\ HeaderWithinFile' /\ TakeKept'
  BY FreezeSaveKeeps
<1>4. SavestatesCarryMovie'
  <2>1. Carries(g_RecoveryState') /\ \A q \in Slot : Carries(slots'[q])
    BY <1>1, <1>2 DEF SavestatesCarryMovie, Inv, MovieInv
  <2> QED BY <2>1 DEF SavestatesCarryMovie, Carries
<1>5. TypeOK'
  BY <1>1, <1>2, <1>3 DEF TypeOK, Inv, g_Movie, Kept
<1> QED BY <1>3, <1>4, <1>5 DEF Inv, MovieInv

(* Loading a state: st is what is loaded, FrameNum becomes its frame or 0,   *)
(* and the machine is the state's only if the movie accounts for it, with    *)
(* as many frames uncounted as FrameNum has lost.                            *)
LEMMA FreezeLoadKeeps ==
  ASSUME Inv, NEW st \in State, Carries(st), FreezeLoad(st),
         UNCHANGED <<File, FrameMax, ReadOnly, BootTime>>,
         File # None => FrameNum' \in {st.FrameNum, 0},
         File = None => FrameNum' \in Nat,
         machine' \in Machine \cup {None},
         machine' # None => /\ File # None /\ Fits(st)
                            /\ machine'.frames = st.machine.frames
                            /\ machine'.boot = st.machine.boot
                            /\ st.FrameNum = FrameNum' + machine'.uncounted
  PROVE  /\ disk' \in [FileName -> Movie \cup {None}] /\ pos' \in Nat /\ FrameNum' \in Nat
         /\ Rerecs' \in Nat /\ Replay' \in BOOLEAN
         /\ take' \in [FileName -> Machine \cup {None}]
         /\ OpenFile' /\ Recording' /\ InSync' /\ HeaderWithinFile' /\ TakeKept'
<1> USE DEF Inv, MovieInv
<1>0. /\ st # None /\ st.FrameNum \in Nat /\ st.data \in Seq(Pad)
      /\ st.FrameNum = Len(st.data)
      /\ st.machine # None => st.machine.frames = st.data
  BY StateFields, MovieAssumption DEF Carries
<1>1. CASE File = None
  <2>1. UNCHANGED <<disk, pos, Replay, Rerecs, take>> /\ machine' = None
    BY <1>1 DEF FreezeLoad
  <2> QED BY <1>1, <2>1
           DEF TypeOK, OpenFile, Recording, InSync, HeaderWithinFile, TakeKept
<1>2. CASE File # None /\ ReadOnly
  <2>1. /\ UNCHANGED <<disk, Rerecs, take>> /\ pos' = st.FrameNum /\ Replay' = TRUE
        /\ FrameNum' \in Nat
    BY <1>0, <1>2 DEF FreezeLoad
  <2>2. /\ disk \in [FileName -> Movie \cup {None}] /\ Rerecs \in Nat
        /\ take \in [FileName -> Machine \cup {None}]
        /\ disk[File] # None /\ disk[File].BootTime = BootTime
        /\ FrameMax <= Len(disk[File].data) /\ FrameMax \in Nat
        /\ Len(disk[File].data) \in Nat
    BY <1>2, Fields DEF TypeOK, OpenFile, HeaderWithinFile
  <2>3. OpenFile' /\ Recording' /\ HeaderWithinFile'
    BY <2>1 DEF OpenFile, Recording, HeaderWithinFile
  <2>4. machine' # None =>
          /\ st.FrameNum < FrameMax /\ st.data = SubSeq(disk[File].data, 1, st.FrameNum)
          /\ machine'.frames = st.data /\ machine'.boot = BootTime
          /\ st.FrameNum = FrameNum' + machine'.uncounted
    BY <1>0, <1>2 DEF Fits
  <2>5. InSync'
    <3>1. SUFFICES ASSUME machine' # None PROVE InSync'
      BY DEF InSync
    <3>2. st.FrameNum \in 0 .. Len(disk[File].data)
      BY <1>0, <2>2, <2>4, <3>1
    <3>3. \A i \in 1 .. st.FrameNum : st.data[i] = disk[File].data[i]
      <4>1. disk[File].data \in Seq(Pad)
        BY <1>2, Fields DEF OpenFile
      <4>2. \A i \in 1 .. st.FrameNum :
              SubSeq(disk[File].data, 1, st.FrameNum)[i] = disk[File].data[i]
        BY <3>2, <4>1, Prefix
      <4> QED BY <2>4, <3>1, <4>2
    <3> QED BY <1>0, <1>2, <2>1, <2>2, <2>4, <3>1, <3>2, <3>3 DEF InSync
  <2>6. TakeKept'
    <3>1. machine' # None => FrameNum' = 0 \/ FrameNum' < FrameMax
      BY <1>0, <1>2, <2>2, <2>4
    <3> QED BY <2>1, <3>1 DEF TakeKept
  <2> QED BY <1>0, <2>1, <2>2, <2>3, <2>5, <2>6
<1>3. CASE File # None /\ ~ReadOnly
  <2>1. /\ disk' = [disk EXCEPT ![File] = Rewritten(disk[File], st)]
        /\ pos' = st.FrameNum /\ Replay' = FALSE /\ Rerecs' = Rerecs + 1
        /\ take' = [take EXCEPT ![File] = None]
        /\ FrameNum' \in Nat /\ FrameNum' <= st.FrameNum
    BY <1>0, <1>3 DEF FreezeLoad
  <2>2. /\ disk \in [FileName -> Movie \cup {None}] /\ Rerecs \in Nat
        /\ take \in [FileName -> Machine \cup {None}]
        /\ File \in FileName /\ disk[File] # None /\ BootTime \in Time
        /\ FrameMax <= Len(disk[File].data) /\ FrameMax \in Nat
        /\ disk[File].data \in Seq(Pad) /\ Len(disk[File].data) \in Nat
    BY <1>3, Fields DEF TypeOK, OpenFile, HeaderWithinFile
  <2> DEFINE d == disk[File].data
             m == Rewritten(disk[File], st)
             w == m.data
  <2>3. /\ w \in Seq(Pad) /\ Len(w) \in Nat
        /\ Len(w) >= st.FrameNum /\ Len(w) >= Len(d)
        /\ \A i \in 1 .. st.FrameNum : w[i] = st.data[i]
    <3>1. disk[File] \in Movie
      BY <1>3, <2>2, Fields
    <3>2. /\ w \in Seq(Pad)
          /\ Len(w) >= st.FrameNum /\ Len(w) >= Len(d)
          /\ \A i \in 1 .. st.FrameNum : w[i] = st.data[i]
      BY <1>0, <3>1, RewrittenFrames
    <3> HIDE DEF w
    <3> QED BY <3>2, LenProperties
  <2>4. m = [FrameMax |-> st.FrameNum, Rerecs |-> Rerecs, BootTime |-> BootTime, data |-> w]
    BY DEF Rewritten
  <2> HIDE DEF w
  <2>5. /\ m \in Movie /\ m.data = w /\ m.BootTime = BootTime /\ m.FrameMax = st.FrameNum
    BY <1>0, <2>2, <2>3, <2>4 DEF Movie
  <2>6. m # None
    BY <2>5, MovieAssumption
  <2> HIDE DEF m
  <2>7. /\ disk' \in [FileName -> Movie \cup {None}] /\ disk'[File] = m
        /\ \A f \in FileName : f # File => disk'[f] = disk[f]
    BY <2>1, <2>2, <2>5 DEF m
  <2>8. /\ take' \in [FileName -> Machine \cup {None}] /\ take'[File] = None
        /\ \A f \in FileName : f # File => take'[f] = take[f]
    BY <2>1, <2>2
  <2>9. OpenFile'
    BY <2>5, <2>6, <2>7 DEF OpenFile
  <2>10. Recording'
    <3>1. FrameNum' <= pos' /\ pos' <= Len(disk'[File].data)
      BY <1>0, <2>1, <2>3, <2>5, <2>7
    <3> QED BY <3>1 DEF Recording
  <2>11. InSync'
    <3>1. SUFFICES ASSUME machine' # None PROVE InSync'
      BY DEF InSync
    <3>2. /\ machine'.frames = st.data /\ machine'.boot = BootTime
          /\ st.FrameNum = FrameNum' + machine'.uncounted
      BY <1>0, <3>1 DEF Fits
    <3> QED BY <1>0, <1>3, <2>1, <2>3, <2>5, <2>6, <2>7, <3>1, <3>2 DEF InSync
  <2>12. HeaderWithinFile'
    <3>1. FrameMax <= Len(m.data) /\ m.FrameMax <= Len(m.data)
      BY <1>0, <2>2, <2>3, <2>5
    <3>2. \A f \in FileName : disk'[f] # None => disk'[f].FrameMax <= Len(disk'[f].data)
      BY <2>7, <3>1 DEF HeaderWithinFile
    <3> QED BY <2>7, <3>1, <3>2 DEF HeaderWithinFile
  <2>13. TakeKept'
    BY <2>1, <2>7, <2>8 DEF TakeKept
  <2>14. pos' \in Nat /\ FrameNum' \in Nat /\ Rerecs' \in Nat /\ Replay' \in BOOLEAN
    <3>1. Rerecs' = Rerecs + 1 /\ Rerecs \in Nat
      BY <2>1, <2>2
    <3>2. Rerecs' \in Nat
      BY <3>1
    <3>3. pos' \in Nat /\ FrameNum' \in Nat /\ Replay' \in BOOLEAN
      BY <1>0, <2>1
    <3> QED BY <3>2, <3>3
  <2> QED BY <1>0, <2>7, <2>8, <2>9, <2>10, <2>11, <2>12, <2>13, <2>14
<1> QED BY <1>1, <1>2, <1>3

LEMMA LoadStateStep ==
  ASSUME Inv, NEW s \in Slot, LoadState(s)
  PROVE  Inv'
<1> DEFINE st == slots[s]
<1>1. st \in State /\ Carries(st)
  BY DEF LoadState, TypeOK, SavestatesCarryMovie, Inv, MovieInv
<1>2. /\ FreezeLoad(st)
      /\ UNCHANGED <<File, FrameMax, ReadOnly, BootTime, slots>>
      /\ g_RecoveryState' = None
      /\ running' \in BOOLEAN /\ g_EmulationInProgress' \in BOOLEAN
      /\ FrameNum' = IF File # None THEN st.FrameNum ELSE FrameNum
      /\ machine' = IF File # None /\ Fits(st) THEN st.machine ELSE None
  BY DEF LoadState, Loaded
<1> HIDE DEF st
<1>3. FrameNum \in Nat
  BY DEF TypeOK, Inv
<1>4. machine' \in Machine \cup {None}
  BY <1>1, <1>2, StateFields
<1>5. machine' # None => /\ File # None /\ Fits(st)
                         /\ machine'.frames = st.machine.frames
                         /\ machine'.boot = st.machine.boot
                         /\ st.FrameNum = FrameNum' + machine'.uncounted
  <2>1. machine' # None => machine' = st.machine /\ File # None /\ Fits(st)
                           /\ FrameNum' = st.FrameNum /\ st.machine # None
    BY <1>2
  <2>2. st # None /\ (st.machine # None => st.machine.uncounted = 0) /\ st.FrameNum \in Nat
    BY <1>1, StateFields, MovieAssumption DEF Carries
  <2> QED BY <2>1, <2>2
<1>6. /\ disk' \in [FileName -> Movie \cup {None}] /\ pos' \in Nat /\ FrameNum' \in Nat
      /\ Rerecs' \in Nat /\ Replay' \in BOOLEAN
      /\ take' \in [FileName -> Machine \cup {None}]
      /\ OpenFile' /\ Recording' /\ InSync' /\ HeaderWithinFile' /\ TakeKept'
  BY <1>1, <1>2, <1>3, <1>4, <1>5, FreezeLoadKeeps
<1>7. SavestatesCarryMovie'
  BY <1>2 DEF SavestatesCarryMovie, Carries, Inv, MovieInv
<1>8. TypeOK'
  BY <1>2, <1>4, <1>6 DEF TypeOK, Inv
<1> QED BY <1>6, <1>7, <1>8 DEF Inv, MovieInv

LEMMA RecoverStep ==
  ASSUME Inv, Recover
  PROVE  Inv'
<1> DEFINE st == g_RecoveryState
<1>1. st \in State /\ Carries(st)
  BY DEF Recover, TypeOK, SavestatesCarryMovie, Inv, MovieInv
<1>2. /\ FreezeLoad(st)
      /\ UNCHANGED <<File, FrameMax, ReadOnly, BootTime, slots>>
      /\ g_RecoveryState' = None
      /\ running' \in BOOLEAN /\ g_EmulationInProgress' \in BOOLEAN
      /\ FrameNum' = 0
      /\ machine' = IF File # None /\ Fits(st)
                    THEN [st.machine EXCEPT !.uncounted = st.FrameNum] ELSE None
  BY DEF Recover, Loaded
<1> HIDE DEF st
<1>3. machine' # None => /\ machine' \in Machine /\ File # None /\ Fits(st)
                         /\ machine'.frames = st.machine.frames
                         /\ machine'.boot = st.machine.boot
                         /\ machine'.uncounted = st.FrameNum
                         /\ st.FrameNum = FrameNum' + machine'.uncounted
  <2>1. SUFFICES ASSUME machine' # None
                 PROVE  /\ machine' \in Machine /\ File # None /\ Fits(st)
                        /\ machine'.frames = st.machine.frames
                        /\ machine'.boot = st.machine.boot
                        /\ machine'.uncounted = st.FrameNum
                        /\ st.FrameNum = FrameNum' + machine'.uncounted
    OBVIOUS
  <2>2. /\ File # None /\ Fits(st) /\ st.machine \in Machine /\ st.FrameNum \in Nat
        /\ machine' = [st.machine EXCEPT !.uncounted = st.FrameNum]
    BY <1>1, <1>2, <2>1, StateFields DEF Fits
  <2>3. /\ machine' \in Machine /\ machine'.frames = st.machine.frames
        /\ machine'.boot = st.machine.boot /\ machine'.uncounted = st.FrameNum
    BY <2>2 DEF Machine
  <2> QED BY <1>2, <2>2, <2>3
<1>4. machine' \in Machine \cup {None}
  BY <1>3
<1>5. /\ disk' \in [FileName -> Movie \cup {None}] /\ pos' \in Nat /\ FrameNum' \in Nat
      /\ Rerecs' \in Nat /\ Replay' \in BOOLEAN
      /\ take' \in [FileName -> Machine \cup {None}]
      /\ OpenFile' /\ Recording' /\ InSync' /\ HeaderWithinFile' /\ TakeKept'
  BY <1>1, <1>2, <1>3, <1>4, FreezeLoadKeeps
<1>6. SavestatesCarryMovie'
  BY <1>2 DEF SavestatesCarryMovie, Carries, Inv, MovieInv
<1>7. TypeOK'
  BY <1>2, <1>4, <1>5 DEF TypeOK, Inv
<1> QED BY <1>5, <1>6, <1>7 DEF Inv, MovieInv

(* Closing a movie: the headers stay within their files, and a take is what  *)
(* its file holds.                                                           *)
LEMMA EndedKeeps ==
  ASSUME Inv
  PROVE  /\ Taken \in [FileName -> Machine \cup {None}]
         /\ \A f \in FileName :
              /\ Ended[f] # None => Ended[f].FrameMax <= Len(Ended[f].data)
              /\ Taken[f] # None =>
                   /\ Ended[f] # None /\ Ended[f].BootTime = Taken[f].boot
                   /\ Ended[f].FrameMax + Taken[f].uncounted = Len(Taken[f].frames)
                   /\ Len(Taken[f].frames) <= Len(Ended[f].data)
                   /\ \A i \in 1 .. Len(Taken[f].frames) : Taken[f].frames[i] = Ended[f].data[i]
<1> USE DEF Inv, MovieInv
<1>1. Taken \in [FileName -> Machine \cup {None}]
  BY DEF Taken, TypeOK
<1>2. SUFFICES ASSUME NEW f \in FileName
               PROVE  /\ Ended[f] # None => Ended[f].FrameMax <= Len(Ended[f].data)
                      /\ Taken[f] # None =>
                           /\ Ended[f] # None /\ Ended[f].BootTime = Taken[f].boot
                           /\ Ended[f].FrameMax + Taken[f].uncounted = Len(Taken[f].frames)
                           /\ Len(Taken[f].frames) <= Len(Ended[f].data)
                           /\ \A i \in 1 .. Len(Taken[f].frames) :
                                Taken[f].frames[i] = Ended[f].data[i]
  BY <1>1
<1>3. CASE f # File \/ ReadOnly
  <2>1. Ended[f] = disk[f]
    BY <1>3, EndedFile
  <2>2. Taken[f] = take[f]
    BY <1>3 DEF Taken, TypeOK
  <2> QED BY <2>1, <2>2 DEF HeaderWithinFile, TakeKept
<1>4. CASE f = File /\ ~ReadOnly
  <2>1. File # None /\ disk[File] # None
    BY <1>4, MovieAssumption DEF OpenFile
  <2>2. /\ Ended[f].FrameMax = FrameMax /\ Ended[f].data = disk[f].data
        /\ Ended[f].BootTime = disk[f].BootTime /\ Ended[f] # None
    BY <1>4, <2>1, EndedFile
  <2>3. Ended[f].FrameMax <= Len(Ended[f].data)
    BY <1>4, <2>1, <2>2 DEF HeaderWithinFile
  <2>4. CASE machine # None /\ ~Replay /\ FrameMax = FrameNum
    <3>1. Taken[f] = machine
      BY <1>4, <2>4 DEF Taken, TypeOK
    <3>2. /\ Len(machine.frames) = FrameNum + machine.uncounted
          /\ pos = Len(machine.frames) /\ pos <= Len(disk[File].data)
          /\ \A i \in 1 .. pos : machine.frames[i] = disk[File].data[i]
          /\ machine.boot = disk[File].BootTime
      BY <2>4 DEF InSync, PastEnd
    <3> QED BY <1>4, <2>2, <2>3, <2>4, <3>1, <3>2
  <2>5. CASE ~ (machine # None /\ ~Replay /\ FrameMax = FrameNum)
    <3>1. Taken = take
      BY <2>5 DEF Taken
    <3> QED BY <1>4, <2>2, <2>3, <3>1 DEF TakeKept
  <2> QED BY <2>4, <2>5
<1> QED BY <1>3, <1>4

LEMMA MovieEndStep ==
  ASSUME Inv, NEW t \in Time, MovieEnd(t)
  PROVE  Inv'
<1>1. /\ disk' = Ended /\ File' = None /\ take' = Taken /\ machine' = None /\ BootTime' = t
      /\ Replay' \in BOOLEAN
      /\ UNCHANGED <<execution, pos, FrameNum, FrameMax, Rerecs, ReadOnly, slots>>
  BY DEF MovieEnd
<1>2. Ended \in [FileName -> Movie \cup {None}]
  BY EndedFile DEF Inv, MovieInv
<1>3. TypeOK'
  BY <1>1, <1>2, EndedKeeps DEF TypeOK, Inv, execution
<1>4. OpenFile' /\ Recording' /\ InSync'
  BY <1>1 DEF OpenFile, Recording, InSync
<1>5. SavestatesCarryMovie'
  BY <1>1 DEF SavestatesCarryMovie, Carries, Inv, MovieInv, execution
<1>6. HeaderWithinFile'
  BY <1>1, EndedKeeps DEF HeaderWithinFile
<1>7. TakeKept'
  <2>1. \A f \in FileName : f # None
    BY MovieAssumption
  <2> QED BY <1>1, <2>1, EndedKeeps DEF TakeKept
<1> QED BY <1>3, <1>4, <1>5, <1>6, <1>7 DEF Inv, MovieInv

LEMMA MoviePlayStep ==
  ASSUME Inv, NEW f \in FileName, NEW readOnly \in BOOLEAN, MoviePlay(f, readOnly)
  PROVE  Inv'
<1>1. /\ disk' = Ended /\ File' = f /\ pos' = 0 /\ take' = Taken /\ disk[f] # None
      /\ FrameMax' = Ended[f].FrameMax /\ Rerecs' = Ended[f].Rerecs
      /\ BootTime' = Ended[f].BootTime /\ Replay' = TRUE /\ ReadOnly' = readOnly
      /\ machine' = Booted(Ended[f].BootTime) /\ slots' = slots
      /\ FrameNum' = 0 /\ g_RecoveryState' = None
      /\ running' = TRUE /\ g_EmulationInProgress' = TRUE
  BY DEF MoviePlay, RunExecute
<1>2. /\ Ended \in [FileName -> Movie \cup {None}] /\ Ended[f] # None
      /\ Ended[f].FrameMax \in Nat /\ Ended[f].Rerecs \in Nat
      /\ Ended[f].BootTime \in Time /\ Ended[f].data \in Seq(Pad)
      /\ Len(Ended[f].data) \in Nat
  <2>1. Ended \in [FileName -> Movie \cup {None}] /\ Ended[f] # None
    BY <1>1, EndedFile DEF Inv, MovieInv
  <2>2. Ended[f] \in Movie
    BY <2>1
  <2> QED BY <2>1, <2>2, LenProperties DEF Movie
<1>3. /\ machine' \in Machine /\ machine'.boot = BootTime'
      /\ machine'.uncounted = 0 /\ Len(machine'.frames) = 0
  BY <1>1, <1>2, BootedMachine
<1>4. TypeOK'
  BY <1>1, <1>2, <1>3, EndedKeeps DEF TypeOK, Inv
<1>5. OpenFile' /\ Recording'
  BY <1>1, <1>2 DEF OpenFile, Recording
<1>6. InSync'
  <2>1. f # None
    BY MovieAssumption
  <2> QED BY <1>1, <1>2, <1>3, <2>1 DEF InSync
<1>7. SavestatesCarryMovie'
  BY <1>1 DEF SavestatesCarryMovie, Carries, Inv, MovieInv
<1>8. HeaderWithinFile'
  BY <1>1, <1>2, EndedKeeps DEF HeaderWithinFile
<1>9. TakeKept'
  BY <1>1, EndedKeeps DEF TakeKept
<1> QED BY <1>4, <1>5, <1>6, <1>7, <1>8, <1>9 DEF Inv, MovieInv

LEMMA MovieRecordStep ==
  ASSUME Inv, NEW f \in FileName, NEW t \in Time, MovieRecord(f, t)
  PROVE  Inv'
<1> DEFINE m == [FrameMax |-> 0, Rerecs |-> 0, BootTime |-> t, data |-> <<>>]
<1>1. /\ disk' = [Ended EXCEPT ![f] = m] /\ File' = f /\ pos' = 0
      /\ take' = [Taken EXCEPT ![f] = None] /\ FrameMax' = 0 /\ Rerecs' = 0
      /\ BootTime' = t /\ Replay' = FALSE /\ ReadOnly' = FALSE
      /\ machine' = Booted(t) /\ slots' = slots
      /\ FrameNum' = 0 /\ g_RecoveryState' = None
      /\ running' = TRUE /\ g_EmulationInProgress' = TRUE
  BY DEF MovieRecord, RunExecute
<1>2. Ended \in [FileName -> Movie \cup {None}]
  BY EndedFile DEF Inv, MovieInv
<1>3. /\ m \in Movie /\ m.data = <<>> /\ m.BootTime = t /\ m.FrameMax = 0
      /\ <<>> \in Seq(Pad) /\ Len(<<>>) = 0
  BY EmptySeq DEF Movie
<1>4. m # None
  BY <1>3, MovieAssumption
<1> HIDE DEF m
<1>5. /\ disk' \in [FileName -> Movie \cup {None}] /\ disk'[f] = m
      /\ \A g \in FileName : g # f => disk'[g] = Ended[g]
  BY <1>1, <1>2, <1>3
<1>6. /\ take' \in [FileName -> Machine \cup {None}] /\ take'[f] = None
      /\ \A g \in FileName : g # f => take'[g] = Taken[g]
  BY <1>1, EndedKeeps
<1>7. /\ machine' \in Machine /\ machine'.boot = t
      /\ machine'.uncounted = 0 /\ Len(machine'.frames) = 0
  BY <1>1, BootedMachine
<1>8. TypeOK'
  BY <1>1, <1>5, <1>6, <1>7 DEF TypeOK, Inv
<1>9. OpenFile' /\ Recording'
  BY <1>1, <1>3, <1>4, <1>5 DEF OpenFile, Recording
<1>10. InSync'
  <2>1. f # None
    BY MovieAssumption
  <2> QED BY <1>1, <1>3, <1>4, <1>5, <1>7, <2>1 DEF InSync
<1>11. SavestatesCarryMovie'
  BY <1>1 DEF SavestatesCarryMovie, Carries, Inv, MovieInv
<1>12. HeaderWithinFile'
  <2>1. \A g \in FileName : disk'[g] # None => disk'[g].FrameMax <= Len(disk'[g].data)
    BY <1>3, <1>5, EndedKeeps
  <2> QED BY <1>1, <1>3, <1>5, <2>1 DEF HeaderWithinFile
<1>13. TakeKept'
  BY <1>1, <1>5, <1>6, EndedKeeps DEF TakeKept
<1> QED BY <1>8, <1>9, <1>10, <1>11, <1>12, <1>13 DEF Inv, MovieInv

LEMMA ReplayStep ==
  ASSUME Inv, NEW p \in Pad, ReplayFrame(p)
  PROVE  Inv'
<1>1. /\ File \in FileName /\ File # None /\ Replay /\ FrameNum \in Nat /\ pos \in Nat
      /\ disk[File] # None /\ disk[File].data \in Seq(Pad)
      /\ Len(disk[File].data) \in Nat /\ FrameMax <= Len(disk[File].data)
      /\ FrameMax \in Nat
  BY Fields DEF ReplayFrame, OpenFile, HeaderWithinFile, TypeOK, Inv, MovieInv
<1>2. /\ MoreFrames => p = disk[File].data[pos + 1]
      /\ FrameNum' = FrameNum + 1 /\ pos' = IF MoreFrames THEN pos + 1 ELSE pos
      /\ UNCHANGED <<FrameMax, Rerecs, ReadOnly, BootTime, take, slots,
                     g_RecoveryState, running, g_EmulationInProgress>>
  BY DEF ReplayFrame, Emulate, execution
<1>3. pos' \in Nat /\ FrameNum' \in Nat
  BY <1>1, <1>2
<1>4. SavestatesCarryMovie'
  BY <1>2 DEF SavestatesCarryMovie, Carries, Inv, MovieInv
<1>5. CASE LastFrame
  <2>1. disk' = Ended /\ File' = None /\ Replay' = FALSE /\ machine' = None
    BY <1>5 DEF ReplayFrame
  <2>2. Ended \in [FileName -> Movie \cup {None}]
    BY EndedFile DEF Inv, MovieInv
  <2>3. TypeOK'
    BY <1>2, <1>3, <2>1, <2>2 DEF TypeOK, Inv
  <2>4. OpenFile' /\ Recording' /\ InSync'
    BY <2>1 DEF OpenFile, Recording, InSync
  <2>5. HeaderWithinFile'
    BY <2>1, EndedKeeps DEF HeaderWithinFile
  <2>6. TakeKept'
    <3>1. Taken = take
      BY <1>1 DEF Taken
    <3>2. \A f \in FileName : f # None
      BY MovieAssumption
    <3> QED BY <1>2, <2>1, <3>1, <3>2, EndedKeeps DEF TakeKept
  <2> QED BY <1>4, <2>3, <2>4, <2>5, <2>6 DEF Inv, MovieInv
<1>6. CASE ~LastFrame
  <2>1. UNCHANGED <<disk, File, Replay>> /\ machine' = Reading(p)
    BY <1>6 DEF ReplayFrame
  <2>2. FrameNum + 1 < FrameMax
    BY <1>1, <1>6 DEF LastFrame
  <2> DEFINE x == machine.frames
             y == Append(machine.frames, p)
             d == disk[File].data
  <2>3. ASSUME machine # None
        PROVE  /\ machine' \in Machine /\ machine'.boot = machine.boot
               /\ machine'.uncounted = machine.uncounted /\ machine'.frames = y
               /\ Len(x) \in Nat /\ machine.uncounted \in Nat
               /\ Len(y) = Len(x) + 1 /\ y[Len(x) + 1] = p
               /\ \A i \in 1 .. Len(x) : y[i] = x[i]
    <3>1. machine' = [machine EXCEPT !.frames = y]
      BY <2>1, <2>3 DEF Reading
    <3>2. machine \in Machine /\ y \in Seq(Pad) /\ x \in Seq(Pad) /\ machine.uncounted \in Nat
      BY <2>3, Fields, FrameRead DEF Inv
    <3>3. /\ machine' \in Machine /\ machine'.boot = machine.boot
          /\ machine'.uncounted = machine.uncounted /\ machine'.frames = y
      BY <3>1, <3>2 DEF Machine
    <3>4. /\ Len(x) \in Nat /\ Len(y) = Len(x) + 1 /\ y[Len(x) + 1] = p
          /\ \A i \in 1 .. Len(x) : y[i] = x[i]
      BY <3>2, FrameRead
    <3> QED BY <3>2, <3>3, <3>4
  <2>4. machine = None => machine' = None
    BY <2>1 DEF Reading
  <2>5. TypeOK'
    BY <1>2, <1>3, <2>1, <2>3, <2>4 DEF TypeOK, Inv
  <2>6. OpenFile' /\ Recording' /\ HeaderWithinFile'
    BY <1>1, <1>2, <2>1 DEF OpenFile, Recording, HeaderWithinFile, Inv, MovieInv
  <2>7. InSync'
    <3>1. SUFFICES ASSUME machine' # None PROVE InSync'
      BY DEF InSync
    <3> DEFINE u == machine.uncounted
    <3>2. machine # None
      BY <2>4, <3>1
    <3>3. /\ machine'.boot = machine.boot /\ machine'.uncounted = u /\ machine'.frames = y
          /\ Len(x) \in Nat /\ u \in Nat
          /\ Len(y) = Len(x) + 1 /\ y[Len(x) + 1] = p
          /\ \A i \in 1 .. Len(x) : y[i] = x[i]
      BY <2>3, <3>2
    <3>4. /\ Len(x) = FrameNum + u /\ pos <= Len(d)
          /\ pos = Len(x) \/ (u > 0 /\ pos = Len(d) /\ pos < Len(x))
          /\ \A i \in 1 .. pos : x[i] = d[i]
          /\ machine.boot = BootTime /\ BootTime = disk[File].BootTime
      BY <3>2 DEF InSync, PastEnd, Inv, MovieInv
    <3>5. /\ Len(y) = FrameNum' + u /\ pos' <= Len(d)
          /\ pos' = Len(y) \/ (u > 0 /\ pos' = Len(d) /\ pos' < Len(y))
      <4>1. pos < Len(d) => pos = Len(x) /\ pos' = pos + 1
        BY <1>1, <1>2, <3>3, <3>4 DEF MoreFrames
      <4>2. ~(pos < Len(d)) => pos' = pos /\ pos = Len(d)
        BY <1>1, <1>2, <3>4 DEF MoreFrames
      <4> HIDE DEF x, y, u, d
      <4>3. FrameNum + 1 < Len(d) /\ Len(d) \in Nat
        BY <1>1, <2>2 DEF d
      <4> QED BY <1>1, <1>2, <3>3, <3>4, <4>1, <4>2, <4>3
    <3>6. \A i \in 1 .. pos' : y[i] = d[i]
      <4>1. \A i \in 1 .. pos : y[i] = d[i]
        BY <1>1, <3>3, <3>4
      <4>2. CASE MoreFrames
        <5>1. pos' = pos + 1 /\ p = d[pos + 1] /\ pos < Len(d)
          BY <1>1, <1>2, <4>2 DEF MoreFrames
        <5>2. pos = Len(x)
          BY <1>1, <3>3, <3>4, <5>1
        <5>3. y[pos + 1] = d[pos + 1]
          BY <3>3, <5>1, <5>2
        <5>4. \A i \in 1 .. pos + 1 : i \in 1 .. pos \/ i = pos + 1
          BY <1>1
        <5> QED BY <4>1, <5>1, <5>3, <5>4
      <4>3. CASE ~MoreFrames
        BY <1>2, <4>1, <4>3
      <4> QED BY <4>2, <4>3
    <3> HIDE DEF x, y, u
    <3> QED BY <1>1, <1>2, <2>1, <3>3, <3>4, <3>5, <3>6 DEF InSync, PastEnd
  <2>8. TakeKept'
    BY <1>2, <2>1, <2>2 DEF TakeKept, Inv, MovieInv
  <2> QED BY <1>4, <2>5, <2>6, <2>7, <2>8 DEF Inv, MovieInv
<1> QED BY <1>5, <1>6

(* Every step.                                                               *)
LEMMA NextInv == Inv /\ [Next]_vars => Inv'
<1> SUFFICES ASSUME Inv, [Next]_vars PROVE Inv'
  OBVIOUS
<1>1. CASE RunFrame
  <2>1. CASE PlainFrame
    BY <2>1, QuietSteps
  <2>2. ASSUME NEW p \in Pad, RecordFrame(p) PROVE Inv'
    BY <2>2, RecordStep
  <2>3. ASSUME NEW p \in Pad, ReplayFrame(p) PROVE Inv'
    BY <2>3, ReplayStep
  <2> QED BY <1>1, <2>1, <2>2, <2>3 DEF RunFrame
<1>2. ASSUME NEW f \in FileName, NEW t \in Time, MovieRecord(f, t) PROVE Inv'
  BY <1>2, MovieRecordStep
<1>3. ASSUME NEW f \in FileName, NEW readOnly \in BOOLEAN, MoviePlay(f, readOnly) PROVE Inv'
  BY <1>3, MoviePlayStep
<1>4. ASSUME NEW t \in Time, MovieEnd(t) PROVE Inv'
  BY <1>4, MovieEndStep
<1>5. ASSUME NEW s \in Slot, SaveState(s) PROVE Inv'
  BY <1>5, SaveStateStep
<1>6. ASSUME NEW s \in Slot, LoadState(s) PROVE Inv'
  BY <1>6, LoadStateStep
<1>7. CASE Boot
  BY <1>7, BootStep
<1>8. CASE SysRestorableReset
  BY <1>8, SysRestorableResetStep
<1>9. CASE Recover
  BY <1>9, RecoverStep
<1>10. CASE Exit
  BY <1>10, ExitStep
<1>11. CASE \/ ToggleReadOnly \/ Escape \/ Resume \/ SysReset
            \/ \E s \in Slot : LoadFails(s)
            \/ UNCHANGED vars
  BY <1>11, QuietSteps
<1> QED
  BY <1>1, <1>2, <1>3, <1>4, <1>5, <1>6, <1>7, <1>8, <1>9, <1>10, <1>11 DEF Next

LEMMA AlwaysInv == Spec => []Inv
<1>1. Init => Inv
  BY InitInv
<1>2. Inv /\ [Next]_vars => Inv'
  BY NextInv
<1> QED BY <1>1, <1>2, PTL DEF Spec

-----------------------------------------------------------------------------
(* Every behaviour of the movie code is of its types.                        *)
THEOREM TypeCorrect == Spec => []TypeOK
<1>1. Inv => TypeOK
  BY DEF Inv
<1> QED BY <1>1, AlwaysInv, PTL

(* The files, the open movie, the machine and the savestates stay in step    *)
(* under every sequence of recording, playing, saving, loading, rebooting,   *)
(* recovering and crashing.                                                  *)
THEOREM MovieInvariant == Spec => []MovieInv
<1>1. Inv => MovieInv
  BY DEF Inv
<1> QED BY <1>1, AlwaysInv, PTL

(* The machine that a movie accounts for has read the frames of its file.    *)
THEOREM StaysInSync == Spec => []InSync
<1>1. Inv => InSync
  BY DEF Inv, MovieInv
<1> QED BY <1>1, AlwaysInv, PTL

(* A savestate, and the recovery state, carries the movie its machine has   *)
(* read: what a load for re-recording puts back.                            *)
THEOREM SavestatesKeepMovies == Spec => []SavestatesCarryMovie
<1>1. Inv => SavestatesCarryMovie
  BY DEF Inv, MovieInv
<1> QED BY <1>1, AlwaysInv, PTL

(* No header on disk and no open movie promises frames its file lacks.       *)
THEOREM HeadersWithinFiles == Spec => []HeaderWithinFile
<1>1. Inv => HeaderWithinFile
  BY DEF Inv, MovieInv
<1> QED BY <1>1, AlwaysInv, PTL

(* Playing back a recording that was closed shows what was recorded.         *)
THEOREM PlaysBack == Spec => []PlaybackReproduces
<1>1. Inv => PlaybackReproduces
  <2> DEFINE x == machine.frames
             d == disk[File].data
             r == take[File].frames
  <2> SUFFICES ASSUME Inv, machine # None, Replay, take[File] # None
               PROVE  /\ machine.boot = take[File].boot
                      /\ Len(x) <= Len(r) + machine.uncounted
                      /\ \A i \in DOMAIN x \cap DOMAIN r : x[i] = r[i]
    BY DEF PlaybackReproduces
  <2>1. /\ File # None /\ disk[File] # None
        /\ Len(x) = FrameNum + machine.uncounted
        /\ pos <= Len(d)
        /\ pos = Len(x) \/ pos = Len(d)
        /\ \A i \in 1 .. pos : x[i] = d[i]
        /\ machine.boot = disk[File].BootTime
    BY DEF InSync, PastEnd, Inv, MovieInv
  <2>2. /\ File \in FileName /\ Len(d) \in Nat
        /\ x \in Seq(Pad) /\ Len(x) \in Nat /\ machine.uncounted \in Nat
        /\ r \in Seq(Pad) /\ Len(r) \in Nat /\ take[File].uncounted \in Nat
        /\ FrameNum \in Nat /\ FrameMax \in Nat
    BY <2>1, Fields DEF TypeOK, Inv
  <2>3. /\ disk[File].BootTime = take[File].boot
        /\ Len(r) <= Len(d) /\ \A i \in 1 .. Len(r) : r[i] = d[i]
        /\ FrameMax + take[File].uncounted = Len(r)
        /\ FrameNum = 0 \/ FrameNum < FrameMax
    BY <2>2 DEF TakeKept, Inv, MovieInv
  <2>4. DOMAIN x = 1 .. Len(x) /\ DOMAIN r = 1 .. Len(r)
    BY <2>2, LenProperties
  <2> HIDE DEF d, r, x
  <2>5. Len(x) <= Len(r) + machine.uncounted
    BY <2>1, <2>2, <2>3
  <2>6. ASSUME NEW i \in DOMAIN x \cap DOMAIN r
        PROVE  x[i] = r[i]
    <3>1. i \in 1 .. Len(x) /\ i \in 1 .. Len(r)
      BY <2>4, <2>6
    <3>2. i \in 1 .. pos
      BY <2>1, <2>2, <2>3, <3>1
    <3> QED BY <2>1, <2>3, <3>1, <3>2
  <2> QED BY <2>1, <2>3, <2>5, <2>6
<1> QED BY <1>1, AlwaysInv, PTL

(* Playback that comes to its end by itself has shown the whole recording,   *)
(* but for the frames that a recovery while recording uncounted; a recovery  *)
(* while watching adds as many frames as it uncounted.                       *)
THEOREM PlaysWhole == Spec => PlaybackComplete
<1>1. ASSUME Inv, RunFrame, machine # None, Replay, File' = None, take[File] # None
      PROVE  \/ Len(machine.frames) + 1 - machine.uncounted
                   = Len(take[File].frames) - take[File].uncounted
             \/ Len(take[File].frames) = take[File].uncounted
  <2> DEFINE n == Len(machine.frames)
             u == machine.uncounted
             t == Len(take[File].frames)
             v == take[File].uncounted
  <2>1. File # None /\ n = FrameNum + u
    BY <1>1 DEF InSync, Inv, MovieInv
  <2>2. /\ File \in FileName /\ FrameNum \in Nat /\ FrameMax \in Nat
        /\ u \in Nat /\ t \in Nat /\ v \in Nat
    BY <1>1, <2>1, Fields DEF TypeOK, Inv
  <2>3. /\ FrameMax + v = t
        /\ FrameNum = 0 \/ FrameNum < FrameMax
    BY <1>1, <2>2 DEF TakeKept, Inv, MovieInv
  <2>4. \E p \in Pad : ReplayFrame(p)
    BY <1>1, <2>1 DEF RunFrame, PlainFrame, RecordFrame
  <2>5. FrameNum + 1 >= FrameMax
    BY <1>1, <2>1, <2>4 DEF ReplayFrame, LastFrame
  <2> HIDE DEF n, u, t, v
  <2>6. n + 1 - u = t - v \/ t = v
    BY <2>1, <2>2, <2>3, <2>5
  <2> QED BY <2>6 DEF n, u, t, v
<1>2. Inv /\ [Next]_vars
      => [RunFrame /\ machine # None /\ Replay /\ File' = None /\ take[File] # None
           => \/ Len(machine.frames) + 1 - machine.uncounted
                    = Len(take[File].frames) - take[File].uncounted
              \/ Len(take[File].frames) = take[File].uncounted]_vars
  BY <1>1
<1> QED BY <1>2, AlwaysInv, PTL DEF Spec, PlaybackComplete

(* Nothing that is done while a movie is watched read-only changes a frame   *)
(* of its file.                                                              *)
THEOREM KeepsFrames == Spec => ReadOnlyKeepsFrames
<1>1. ASSUME Inv, Next, File # None, File' = File, Replay, ReadOnly, ReadOnly'
      PROVE  disk'[File].data = disk[File].data
  <2>0. /\ File \in FileName /\ disk[File] # None
        /\ Ended[File].data = disk[File].data
    BY <1>1, EndedFile, Fields DEF OpenFile, Inv, MovieInv
  <2> DEFINE Same == disk'[File].data = disk[File].data
  <2>1. ASSUME disk' = disk PROVE Same
    BY <2>1
  <2>2. ASSUME FreezeSave PROVE Same
    <3>1. disk' = [disk EXCEPT ![File].FrameMax = FrameMax, ![File].Rerecs = Rerecs,
                               ![File].BootTime = BootTime]
      BY <1>1, <2>2 DEF FreezeSave
    <3>2. disk \in [FileName -> Movie \cup {None}] /\ disk[File] \in Movie
      BY <1>1, <2>0, Fields DEF TypeOK, Inv
    <3> QED BY <2>0, <3>1, <3>2 DEF Movie
  <2>3. ASSUME NEW st, FreezeLoad(st) PROVE Same
    BY <1>1, <2>3 DEF FreezeLoad
  <2>4. CASE RunFrame
    <3>1. PICK p \in Pad : ReplayFrame(p)
      BY <1>1, <2>4 DEF RunFrame, PlainFrame, RecordFrame
    <3>2. disk' = disk \/ disk' = Ended
      BY <3>1 DEF ReplayFrame
    <3> QED BY <2>0, <3>2
  <2>5. ASSUME NEW f \in FileName, NEW t \in Time, MovieRecord(f, t) PROVE Same
    BY <1>1, <2>5 DEF MovieRecord
  <2>6. ASSUME NEW f \in FileName, NEW readOnly \in BOOLEAN, MoviePlay(f, readOnly) PROVE Same
    BY <2>0, <2>6 DEF MoviePlay
  <2>7. ASSUME NEW t \in Time, MovieEnd(t) PROVE Same
    BY <2>0, <2>7 DEF MovieEnd
  <2>8. ASSUME NEW s \in Slot, SaveState(s) PROVE Same
    BY <2>1, <2>2, <2>8 DEF SaveState
  <2>9. ASSUME NEW s \in Slot, LoadState(s) PROVE Same
    BY <2>3, <2>9 DEF LoadState
  <2>10. CASE Recover
    BY <2>3, <2>10 DEF Recover
  <2>11. CASE SysRestorableReset
    BY <2>2, <2>11 DEF SysRestorableReset
  <2>12. CASE \/ ToggleReadOnly \/ Escape \/ Resume \/ Boot \/ SysReset \/ Exit
              \/ \E s \in Slot : LoadFails(s)
    BY <2>1, <2>12 DEF ToggleReadOnly, Escape, Resume, Boot, SysReset, Exit, LoadFails
  <2>13. Next
    BY <1>1
  <2> QED
    BY <2>13, <2>4, <2>5, <2>6, <2>7, <2>8, <2>9, <2>10, <2>11, <2>12 DEF Next
<1>2. Inv /\ [Next]_vars
      => [File # None /\ File' = File /\ Replay /\ ReadOnly /\ ReadOnly'
           => disk'[File].data = disk[File].data]_vars
  BY <1>1
<1> QED BY <1>2, AlwaysInv, PTL DEF Spec, ReadOnlyKeepsFrames

-----------------------------------------------------------------------------
(* Why playback comes to its end.                                            *)

(* The frames that a movie being watched has left.                           *)
FramesLeft == FrameMax - FrameNum

(* While a movie is watched in sync, each frame leaves one less to come, and *)
(* nothing but a savestate loaded brings a frame back: saving, looking,      *)
(* toggling and failing do not.                                              *)
PlaybackRunsDown ==
  [][Watching /\ Watching' /\ ~(\E s \in Slot : LoadState(s)) =>
       /\ FramesLeft \in Nat /\ FramesLeft' \in Nat
       /\ FramesLeft' <= FramesLeft
       /\ RunFrame => FramesLeft' < FramesLeft]_vars

(* A movie watched in sync is open, its position is in its frames, and the   *)
(* frames it has left are a natural number.                                  *)
LEMMA WatchedMovie ==
  ASSUME Inv, Watching
  PROVE  /\ running /\ Replay /\ File # None
         /\ FrameNum \in Nat /\ FrameMax \in Nat
         /\ FrameNum = 0 \/ FrameNum < FrameMax
         /\ FramesLeft \in Nat
<1>1. machine # None /\ running /\ Replay
  BY DEF Watching
<1>2. FrameNum \in Nat /\ FrameMax \in Nat
  BY DEF Inv, TypeOK
<1>3. FrameNum = 0 \/ FrameNum < FrameMax
  BY <1>1 DEF Inv, MovieInv, TakeKept
<1>4. File # None
  BY <1>1 DEF Inv, MovieInv, InSync
<1>5. FramesLeft \in Nat
  BY <1>2, <1>3 DEF FramesLeft
<1> QED BY <1>1, <1>2, <1>3, <1>4, <1>5

(* A watched movie that no savestate is loaded into has its frames left as a *)
(* rank that every frame lowers and no other step raises: the argument that  *)
(* PlaybackEnds rests on, for any movie and any number of frames.            *)
THEOREM PlaybackGoesDown == Spec => PlaybackRunsDown
<1>1. ASSUME Inv, [Next]_vars, Watching, Watching', ~(\E s \in Slot : LoadState(s))
      PROVE  /\ FramesLeft \in Nat /\ FramesLeft' \in Nat
             /\ FramesLeft' <= FramesLeft
             /\ RunFrame => FramesLeft' < FramesLeft
  <2>1. /\ running /\ Replay /\ File # None /\ FramesLeft \in Nat
        /\ FrameNum \in Nat /\ FrameMax \in Nat
    BY <1>1, WatchedMovie
  <2>2. running' /\ Replay' /\ machine' # None
    BY <1>1 DEF Watching
  <2> DEFINE Stays == FrameNum' = FrameNum /\ FrameMax' = FrameMax
             Shows == FrameNum' = FrameNum + 1 /\ FrameMax' = FrameMax
                      /\ FrameNum + 1 < FrameMax
  <2>3. RunFrame => Shows
    <3> SUFFICES ASSUME RunFrame PROVE Shows
      OBVIOUS
    <3>1. PICK p \in Pad : ReplayFrame(p)
      BY <2>1 DEF RunFrame, PlainFrame, RecordFrame
    <3>2. ~LastFrame
      BY <2>2, <3>1 DEF ReplayFrame
    <3>3. FrameNum' = FrameNum + 1 /\ FrameMax' = FrameMax
      BY <3>1 DEF ReplayFrame, Emulate
    <3> QED BY <2>1, <3>2, <3>3 DEF LastFrame
  <2>4. ~RunFrame => Stays
    <3>1. ASSUME NEW f \in FileName, NEW t \in Time, MovieRecord(f, t) PROVE FALSE
      BY <2>1, <3>1 DEF MovieRecord
    <3>2. ASSUME NEW f \in FileName, NEW readOnly \in BOOLEAN, MoviePlay(f, readOnly)
          PROVE FALSE
      BY <2>1, <3>2 DEF MoviePlay
    <3>3. ASSUME NEW t \in Time, MovieEnd(t) PROVE FALSE
      BY <2>1, <3>3 DEF MovieEnd
    <3>4. ASSUME NEW s \in Slot, SaveState(s) PROVE Stays
      BY <3>4 DEF SaveState, g_Movie
    <3>5. ASSUME NEW s \in Slot, LoadFails(s) PROVE FALSE
      BY <2>2, <3>5 DEF LoadFails
    <3>6. CASE ToggleReadOnly
      BY <3>6 DEF ToggleReadOnly
    <3>7. CASE Escape \/ Exit
      BY <2>2, <3>7 DEF Escape, Exit
    <3>8. CASE Resume \/ Boot \/ SysReset \/ SysRestorableReset \/ Recover
      BY <2>1, <3>8 DEF Resume, Boot, SysReset, SysRestorableReset, Recover
    <3>9. CASE UNCHANGED vars
      BY <3>9 DEF vars, g_Movie
    <3>10. Next \/ UNCHANGED vars
      BY <1>1
    <3> QED
      BY <1>1, <3>1, <3>2, <3>3, <3>4, <3>5, <3>6, <3>7, <3>8, <3>9, <3>10 DEF Next
  <2>5. CASE RunFrame
    <3>1. Shows
      BY <2>3, <2>5
    <3> QED BY <2>1, <3>1 DEF FramesLeft
  <2>6. CASE ~RunFrame
    <3>1. Stays
      BY <2>4, <2>6
    <3>2. FramesLeft' = FramesLeft
      BY <3>1 DEF FramesLeft
    <3> QED BY <2>1, <2>6, <3>2
  <2> QED BY <2>5, <2>6
<1>2. Inv /\ [Next]_vars
      => [Watching /\ Watching' /\ ~(\E s \in Slot : LoadState(s)) =>
            /\ FramesLeft \in Nat /\ FramesLeft' \in Nat
            /\ FramesLeft' <= FramesLeft
            /\ RunFrame => FramesLeft' < FramesLeft]_vars
  BY <1>1
<1> QED BY <1>2, AlwaysInv, PTL DEF Spec, PlaybackRunsDown
=============================================================================
