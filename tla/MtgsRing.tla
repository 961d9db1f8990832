------------------------------- MODULE MtgsRing -------------------------------
(***************************************************************************)
(* The ring buffer through which the EE thread feeds the GS thread         *)
(* (class mtgsThreadObject, pcsx2/MTGS.cpp and pcsx2/GS.h).                *)
(*                                                                         *)
(* Two threads and no lock around the buffer: the EE thread alone moves    *)
(* m_WritePos, the GS thread alone moves m_RingPos (except Reset), and the *)
(* buffer is empty exactly when the two are equal.  A packet is a command  *)
(* qword, the tag, followed for a GIF path by m_packet_size qwords of      *)
(* data; a packet never wraps around the end of the buffer, a RESTART      *)
(* command sends the reader back to slot 0 instead.                        *)
(*                                                                         *)
(* One action per step of a thread between two accesses of shared memory.  *)
(* GIF paths 1 to 3 differ only in the plugin call that consumes the data, *)
(* so DATA stands for the three; the commands of one qword that have no    *)
(* effect on this protocol are MISC.                                       *)
(***************************************************************************)
EXTENDS Integers, Sequences, FiniteSets

CONSTANTS
  RingBufferSize,    \* m_RingBufferSize, in qwords
  MaxPacketSize,     \* the most qwords of data a GIF path uploads at once
  PacketSizes,       \* what _gifTransferDummy may leave of an upload: also nothing, of a
                     \* packet of path 1 that is longer than the rest of VU1's memory
  CommandThreshold,  \* 16: packets before the EE wakes a resting GS thread
  DataThreshold,     \* 0x8000: qwords before the EE wakes it
  MaxFramesAhead,    \* 8: vsyncs the EE may be ahead of the GS
  Payload,           \* what distinguishes the contents of two packets
  NoData,            \* the payload of a command without data
  MaxPosts           \* BOUND on the count of m_post_event

(* jASSUME( size < m_RingBufferSize ) admits one qword more, but such a    *)
(* packet sent from slot 0 leaves m_WritePos = m_RingPos, the empty        *)
(* buffer.  GIF, VIF and VU1 transfers are shorter than 2^16 qwords, half  *)
(* the buffer.                                                             *)
ASSUME RingAssumption ==
  /\ RingBufferSize \in Nat
  /\ MaxPacketSize \in Nat \ {0}
  /\ MaxPacketSize + 2 <= RingBufferSize
  /\ CommandThreshold \in Nat /\ DataThreshold \in Nat
  /\ MaxFramesAhead \in Nat
  /\ MaxPosts \in Nat \ {0}
  /\ NoData \notin Payload
ASSUME PacketAssumption == PacketSizes \subseteq 0 .. MaxPacketSize

Slot == 0 .. RingBufferSize - 1
SimpleCommand == {"RESTART", "VSYNC", "FREEZE", "MISC", "QUIT"}
Command == SimpleCommand \cup {"DATA"}

(* A qword of the buffer: a tag, or data of some payload. *)
Tag(cmd, len, data) == [cmd |-> cmd, len |-> len, data |-> data]
Qword(data) == Tag("none", 0, data)
QwordSet == [cmd : Command \cup {"none"}, len : 0 .. MaxPacketSize,
             data : Payload \cup {NoData}]

(* A packet the EE thread has published, with the place of its tag. *)
QueuedPacket == [pos : Slot, cmd : Command \cup {"none"}, len : 0 .. MaxPacketSize,
                 data : Payload \cup {NoData}]

VARIABLES
  m_RingPos, m_WritePos, m_RingBuffer,
  m_post_event,           \* count of the semaphore
  m_lock_RingRestart,     \* TRUE while the EE thread holds it
  m_RingBufferIsBusy,
  m_QueuedFrames,
  m_CopyCommandTally, m_CopyDataTally,
  m_packet_size,
  eePc, eeRet,            \* where the EE thread is, and where it returns to
  simple, upload,         \* the simple packet and the data it is sending
  gsPc, ringposinc,       \* where the GS thread is, and its local
  queue,                  \* history: packets published and not yet passed
  handled                 \* history: the packet the GS thread has acted on

ringVars == <<m_RingPos, m_WritePos, m_RingBuffer, queue>>
tallies == <<m_CopyCommandTally, m_CopyDataTally>>
eeVars == <<eePc, eeRet, simple, upload, m_packet_size>>
gsVars == <<gsPc, ringposinc, handled, m_RingBufferIsBusy>>
vars == <<m_RingPos, m_WritePos, m_RingBuffer, m_post_event, m_lock_RingRestart,
          m_RingBufferIsBusy, m_QueuedFrames, m_CopyCommandTally,
          m_CopyDataTally, m_packet_size, eePc, eeRet, simple, upload,
          gsPc, ringposinc, queue, handled>>

Nothing == Tag("none", 0, NoData)

EEPc == {"run", "simple_prep", "simple_spin", "simple_write", "simple_publish",
         "data_stall", "wrap_stall", "wrap_lock", "wrap_rewind",
         "wrap_unlock", "wrap_post", "wrap_begin", "fit_stall", "data_tag", "data_copy",
         "data_publish", "data_kick", "vsync_throttle", "vsync_check",
         "vsync_count", "post", "wait_post", "wait_spin", "reset_pos",
         "reset_skip", "reset_mode", "quit_post", "join", "closed"}
GSPc == {"wait", "busy", "loop", "handle", "advance", "restart", "restart_lock",
         "rest", "quit"}

Init ==
  /\ m_RingPos = 0 /\ m_WritePos = 0
  /\ m_RingBuffer = [i \in Slot |-> Nothing]
  /\ m_post_event = 0
  /\ m_lock_RingRestart = FALSE
  /\ m_RingBufferIsBusy = FALSE
  /\ m_QueuedFrames = 0
  /\ m_CopyCommandTally = 0 /\ m_CopyDataTally = 0
  /\ m_packet_size = 0
  /\ eePc = "run" /\ eeRet = "run" /\ simple = Nothing /\ upload = NoData
  /\ gsPc = "wait" /\ ringposinc = 1
  /\ queue = <<>> /\ handled = Nothing

-----------------------------------------------------------------------------
(* The EE thread. *)

(* pos & m_RingBufferMask, for a pos below twice the size. *)
Wrap(pos) == IF pos >= RingBufferSize THEN pos - RingBufferSize ELSE pos

(* SetEvent: also the PrepEventWait of every stall.  At the bound the EE   *)
(* waits for the GS thread to take a post, unless that thread is gone and  *)
(* nobody is left to count them.                                           *)
SetEvent ==
  /\ \/ m_post_event < MaxPosts /\ m_post_event' = m_post_event + 1
     \/ m_post_event = MaxPosts /\ gsPc = "quit" /\ UNCHANGED m_post_event
  /\ m_CopyCommandTally' = 0
  /\ m_CopyDataTally' = 0

(* The EE moves on to pc; nothing but its place changes. *)
EEGoto(pc) ==
  /\ eePc' = pc
  /\ UNCHANGED <<eeRet, simple, upload, m_packet_size>>

(* Enter SendSimplePacket, to come back to ret. *)
CallSimple(cmd, data, ret) ==
  /\ eePc' = "simple_prep"
  /\ eeRet' = ret
  /\ simple' = Tag(cmd, 0, data)
  /\ UNCHANGED <<upload, m_packet_size>>

(* Publish: the store to m_WritePos that hands a packet to the GS thread. *)
Publish(pos, tag) ==
  /\ m_WritePos' = pos
  /\ queue' = Append(queue, [pos |-> m_WritePos, cmd |-> tag.cmd,
                             len |-> tag.len, data |-> tag.data])
  /\ UNCHANGED m_RingPos

Future == Wrap(m_WritePos + 1)

(* Definitions named ..._Mutant plant a bug in the one that follows, to show  *)
(* that the property it is meant to break is not vacuous.                    *)

(* Does not wait for a slot between m_WritePos and the reader. *)
SimplePrep_Mutant ==
  /\ eePc = "simple_prep"
  /\ EEGoto("simple_write")
  /\ UNCHANGED <<ringVars, m_post_event, tallies, m_lock_RingRestart,
                 m_QueuedFrames, gsVars>>

SimplePrep ==
  /\ eePc = "simple_prep"
  /\ \/ /\ Future = m_RingPos
        /\ SetEvent
        /\ EEGoto("simple_spin")
     \/ /\ Future # m_RingPos
        /\ EEGoto("simple_write")
        /\ UNCHANGED <<m_post_event, tallies>>
  /\ UNCHANGED <<ringVars, m_lock_RingRestart, m_QueuedFrames, gsVars>>

SimpleSpin ==
  /\ eePc = "simple_spin"
  /\ Future # m_RingPos
  /\ EEGoto("simple_write")
  /\ UNCHANGED <<ringVars, m_post_event, m_lock_RingRestart, m_QueuedFrames,
                 tallies, gsVars>>

SimpleWrite ==
  /\ eePc = "simple_write"
  /\ m_RingBuffer' = [m_RingBuffer EXCEPT ![m_WritePos] = simple]
  /\ EEGoto("simple_publish")
  /\ UNCHANGED <<m_RingPos, m_WritePos, queue, m_post_event, m_lock_RingRestart,
                 m_QueuedFrames, tallies, gsVars>>

SimplePublish ==
  /\ eePc = "simple_publish"
  /\ Publish(Future, simple)
  /\ eePc' = eeRet /\ eeRet' = "run" /\ simple' = Nothing
  /\ UNCHANGED <<m_RingBuffer, upload, m_packet_size, m_post_event,
                 m_lock_RingRestart, m_QueuedFrames, tallies, gsVars>>

(* PrepDataPacket, one action per layout of the packet against the end of  *)
(* the buffer.  size counts the tag.                                       *)
StartUpload(pc, n, d) ==
  /\ eePc = "run"
  /\ eePc' = pc
  /\ m_packet_size' = n /\ upload' = d
  /\ UNCHANGED <<eeRet, simple, ringVars, m_lock_RingRestart, m_QueuedFrames, gsVars>>

(* Does not look at m_RingPos. *)
PrepFits_Mutant ==
  \E n \in PacketSizes, d \in Payload :
    /\ m_WritePos + n + 1 < RingBufferSize
    /\ StartUpload("data_tag", n, d)
    /\ UNCHANGED <<m_post_event, tallies>>

PrepFits ==
  \E n \in PacketSizes, d \in Payload :
    /\ m_WritePos + n + 1 < RingBufferSize
    /\ \/ /\ m_WritePos < m_RingPos
          /\ StartUpload("data_stall", n, d)
          /\ SetEvent
       \/ /\ m_WritePos >= m_RingPos
          /\ StartUpload("data_tag", n, d)
          /\ UNCHANGED <<m_post_event, tallies>>

PrepWraps ==
  \E n \in PacketSizes, d \in Payload :
    /\ m_WritePos + n + 1 > RingBufferSize
    /\ StartUpload("wrap_stall", n, d)
    /\ SetEvent

PrepExact ==
  \E n \in PacketSizes, d \in Payload :
    /\ m_WritePos + n + 1 = RingBufferSize
    /\ StartUpload("fit_stall", n, d)
    /\ SetEvent

EEOnly == UNCHANGED <<ringVars, m_post_event, tallies, m_lock_RingRestart,
                      m_QueuedFrames, gsVars>>

DataStall ==
  /\ eePc = "data_stall"
  /\ \/ m_WritePos >= m_RingPos
     \/ m_WritePos + m_packet_size + 1 < m_RingPos
  /\ EEGoto("data_tag")
  /\ EEOnly

(* The two stalls before m_WritePos goes back to slot 0: the reader must   *)
(* have caught up, or be behind and already past slot 0.                   *)
ReaderPastBase == \/ m_RingPos = m_WritePos
                  \/ m_RingPos < m_WritePos /\ m_RingPos # 0

FitStall ==
  /\ eePc = "fit_stall"
  /\ ReaderPastBase
  /\ EEGoto("data_tag")
  /\ EEOnly

WrapStall ==
  /\ eePc = "wrap_stall"
  /\ ReaderPastBase
  /\ EEGoto("wrap_lock")
  /\ EEOnly

WrapLock ==
  /\ eePc = "wrap_lock"
  /\ m_lock_RingRestart' = TRUE
  /\ CallSimple("RESTART", NoData, "wrap_rewind")
  /\ UNCHANGED <<ringVars, m_post_event, tallies, m_QueuedFrames, gsVars>>

WrapRewind ==
  /\ eePc = "wrap_rewind"
  /\ m_WritePos' = 0
  /\ EEGoto("wrap_unlock")
  /\ UNCHANGED <<m_RingPos, m_RingBuffer, queue, m_post_event, tallies,
                 m_lock_RingRestart, m_QueuedFrames, gsVars>>

WrapUnlock ==
  /\ eePc = "wrap_unlock"
  /\ m_lock_RingRestart' = FALSE
  /\ EEGoto("wrap_post")
  /\ UNCHANGED <<ringVars, m_post_event, tallies, m_QueuedFrames, gsVars>>

WrapPost ==
  /\ eePc = "wrap_post"
  /\ SetEvent
  /\ EEGoto("wrap_begin")
  /\ UNCHANGED <<ringVars, m_lock_RingRestart, m_QueuedFrames, gsVars>>

WrapBegin ==
  /\ eePc = "wrap_begin"
  /\ \/ m_RingPos = m_WritePos
     \/ m_packet_size + 1 < m_RingPos
  /\ EEGoto("data_tag")
  /\ EEOnly

DataTag ==
  /\ eePc = "data_tag"
  /\ m_RingBuffer' = [m_RingBuffer EXCEPT ![m_WritePos] =
                        Tag("DATA", m_packet_size, upload)]
  /\ EEGoto("data_copy")
  /\ UNCHANGED <<m_RingPos, m_WritePos, queue, m_post_event, tallies,
                 m_lock_RingRestart, m_QueuedFrames, gsVars>>

(* The caller copies to GetDataPacketPtr(), m_packet_ringpos. *)
DataSlots == m_WritePos + 1 .. m_WritePos + m_packet_size

DataCopy ==
  /\ eePc = "data_copy"
  /\ m_RingBuffer' = [i \in Slot |-> IF i \in DataSlots THEN Qword(upload)
                                                       ELSE m_RingBuffer[i]]
  /\ EEGoto("data_publish")
  /\ UNCHANGED <<m_RingPos, m_WritePos, queue, m_post_event, tallies,
                 m_lock_RingRestart, m_QueuedFrames, gsVars>>

(* SendDataPacket. *)
DataPublish ==
  /\ eePc = "data_publish"
  /\ Publish(Wrap(m_WritePos + 1 + m_packet_size), Tag("DATA", m_packet_size, upload))
  /\ m_packet_size' = 0
  /\ eePc' = "data_kick" /\ upload' = NoData
  /\ UNCHANGED <<m_RingBuffer, eeRet, simple, m_post_event, tallies,
                 m_lock_RingRestart, m_QueuedFrames, gsVars>>

(* m_packet_size is 0 by now, so the data tally stays where it was. *)
DataKick ==
  /\ eePc = "data_kick"
  /\ LET data == m_CopyDataTally + m_packet_size
         commands == m_CopyCommandTally + 1
     IN \/ /\ m_RingBufferIsBusy
           /\ UNCHANGED <<m_post_event, tallies>>
        \/ /\ ~m_RingBufferIsBusy
           /\ data > DataThreshold \/ commands > CommandThreshold
           /\ SetEvent
        \/ /\ ~m_RingBufferIsBusy
           /\ data <= DataThreshold /\ commands <= CommandThreshold
           /\ m_CopyDataTally' = data
           /\ m_CopyCommandTally' = commands
           /\ UNCHANGED m_post_event
  /\ EEGoto("run")
  /\ UNCHANGED <<ringVars, m_lock_RingRestart, m_QueuedFrames, gsVars>>

(* SendSimplePacket on behalf of a GS register write, a soft reset, ...    *)
SendSimple ==
  /\ eePc = "run"
  /\ CallSimple("MISC", NoData, "run")
  /\ EEOnly

(* PostVsyncEnd. *)
PostVsyncEnd ==
  /\ eePc = "run"
  /\ EEGoto("vsync_throttle")
  /\ EEOnly

VsyncThrottle ==
  /\ eePc = "vsync_throttle"
  /\ \/ m_QueuedFrames > MaxFramesAhead /\ EEGoto("vsync_check")
     \/ m_QueuedFrames <= MaxFramesAhead /\ EEGoto("vsync_count")
  /\ EEOnly

(* Forgets the queued frames without looking whether the buffer is empty. *)
VsyncCheck_Mutant ==
  /\ eePc = "vsync_check"
  /\ m_QueuedFrames' = 0
  /\ EEGoto("vsync_count")
  /\ UNCHANGED <<ringVars, m_post_event, tallies, m_lock_RingRestart, gsVars>>

VsyncCheck ==
  /\ eePc = "vsync_check"
  /\ \/ /\ m_WritePos = m_RingPos
        /\ m_QueuedFrames' = 0
        /\ EEGoto("vsync_count")
     \/ /\ m_WritePos # m_RingPos
        /\ EEGoto("vsync_throttle")
        /\ UNCHANGED m_QueuedFrames
  /\ UNCHANGED <<ringVars, m_post_event, tallies, m_lock_RingRestart, gsVars>>

VsyncCount ==
  /\ eePc = "vsync_count"
  /\ m_QueuedFrames' = m_QueuedFrames + 1
  /\ CallSimple("VSYNC", NoData, "post")
  /\ UNCHANGED <<ringVars, m_post_event, tallies, m_lock_RingRestart, gsVars>>

(* PostVsyncEnd without its SetEvent. *)
PostEvent_Mutant ==
  /\ eePc = "post"
  /\ EEGoto("run")
  /\ EEOnly

PostEvent ==
  /\ eePc = "post"
  /\ SetEvent
  /\ EEGoto("run")
  /\ UNCHANGED <<ringVars, m_lock_RingRestart, m_QueuedFrames, gsVars>>

(* WaitGS, on its own (mtgsWaitGS), at the head of cpuReset, or after the  *)
(* FREEZE packet of gsSafeFreeze.                                          *)
StartWaitGS ==
  /\ eePc = "run"
  /\ \E ret \in {"run", "reset_pos"} :
       eePc' = "wait_post" /\ eeRet' = ret
  /\ UNCHANGED <<simple, upload, m_packet_size>>
  /\ EEOnly

StartFreeze ==
  /\ eePc = "run"
  /\ CallSimple("FREEZE", NoData, "wait_post")
  /\ EEOnly

WaitPost ==
  /\ eePc = "wait_post"
  /\ SetEvent
  /\ EEGoto("wait_spin")
  /\ UNCHANGED <<ringVars, m_lock_RingRestart, m_QueuedFrames, gsVars>>

WaitSpin ==
  /\ eePc = "wait_spin"
  /\ m_RingPos = m_WritePos
  /\ eePc' = eeRet /\ eeRet' = "run"
  /\ UNCHANGED <<simple, upload, m_packet_size>>
  /\ EEOnly

(* Reset and the mode change gsReset sends after it. *)
ResetPos ==
  /\ eePc = "reset_pos"
  /\ m_RingPos' = m_WritePos
  /\ queue' = <<>>
  /\ CallSimple("MISC", NoData, "reset_skip")
  /\ UNCHANGED <<m_WritePos, m_RingBuffer, m_post_event, tallies,
                 m_lock_RingRestart, m_QueuedFrames, gsVars>>

ResetSkip ==
  /\ eePc = "reset_skip"
  /\ CallSimple("MISC", NoData, "reset_mode")
  /\ EEOnly

ResetMode ==
  /\ eePc = "reset_mode"
  /\ CallSimple("MISC", NoData, "run")
  /\ EEOnly

(* Close. *)
StartClose ==
  /\ eePc = "run"
  /\ CallSimple("QUIT", NoData, "quit_post")
  /\ EEOnly

QuitPost ==
  /\ eePc = "quit_post"
  /\ SetEvent
  /\ EEGoto("join")
  /\ UNCHANGED <<ringVars, m_lock_RingRestart, m_QueuedFrames, gsVars>>

Join ==
  /\ eePc = "join"
  /\ gsPc = "quit"
  /\ EEGoto("closed")
  /\ EEOnly

-----------------------------------------------------------------------------
(* The GS thread: Callback after the plugin is open. *)

eeSide == <<eeVars, tallies, m_WritePos, m_lock_RingRestart>>

GSGoto(pc) == gsPc' = pc /\ UNCHANGED eeSide

GSWait ==
  /\ gsPc = "wait"
  /\ m_post_event > 0
  /\ m_post_event' = m_post_event - 1
  /\ GSGoto("busy")
  /\ UNCHANGED <<m_RingPos, m_RingBuffer, queue, m_RingBufferIsBusy,
                 m_QueuedFrames, ringposinc, handled>>

GSBusy ==
  /\ gsPc = "busy"
  /\ m_RingBufferIsBusy' = TRUE
  /\ GSGoto("loop")
  /\ UNCHANGED <<m_RingPos, m_RingBuffer, queue, m_post_event, m_QueuedFrames,
                 ringposinc, handled>>

GSLoop ==
  /\ gsPc = "loop"
  /\ IF m_RingPos = m_WritePos
       THEN GSGoto("rest")
       ELSE GSGoto(IF m_RingBuffer[m_RingPos].cmd = "RESTART"
                     THEN "restart" ELSE "handle")
  /\ ringposinc' = 1
  /\ UNCHANGED <<m_RingPos, m_RingBuffer, queue, m_post_event,
                 m_RingBufferIsBusy, m_QueuedFrames, handled>>

GSRest ==
  /\ gsPc = "rest"
  /\ m_RingBufferIsBusy' = FALSE
  /\ GSGoto("wait")
  /\ UNCHANGED <<m_RingPos, m_RingBuffer, queue, m_post_event, m_QueuedFrames,
                 ringposinc, handled>>

(* The packet as the GS thread finds it in the buffer: its tag when every  *)
(* qword of its data is still the one that was sent with it.               *)
PacketRead ==
  LET tag == m_RingBuffer[m_RingPos]
  IN IF \A k \in 1 .. tag.len :
          /\ m_RingPos + k < RingBufferSize
          /\ m_RingBuffer[m_RingPos + k] = Qword(tag.data)
     THEN tag ELSE Qword(tag.data)

(* Displays a vsync without counting it. *)
GSHandle_Mutant ==
  /\ gsPc = "handle"
  /\ handled' = PacketRead
  /\ ringposinc' = 1 + m_RingBuffer[m_RingPos].len
  /\ GSGoto(IF PacketRead.cmd = "QUIT" THEN "quit" ELSE "advance")
  /\ UNCHANGED <<m_RingPos, m_RingBuffer, queue, m_post_event, m_RingBufferIsBusy,
                 m_QueuedFrames>>

GSHandle ==
  /\ gsPc = "handle"
  /\ handled' = PacketRead
  /\ ringposinc' = 1 + m_RingBuffer[m_RingPos].len
  /\ m_QueuedFrames' = IF PacketRead.cmd = "VSYNC" THEN m_QueuedFrames - 1
                                                  ELSE m_QueuedFrames
  /\ GSGoto(IF PacketRead.cmd = "QUIT" THEN "quit" ELSE "advance")
  /\ UNCHANGED <<m_RingPos, m_RingBuffer, queue, m_post_event, m_RingBufferIsBusy>>

(* Steps over the tag only. *)
GSAdvance_Mutant ==
  /\ gsPc = "advance"
  /\ m_RingPos' = Wrap(m_RingPos + 1)
  /\ queue' = Tail(queue)
  /\ handled' = Nothing
  /\ GSGoto("loop")
  /\ UNCHANGED <<m_RingBuffer, m_post_event, m_RingBufferIsBusy, m_QueuedFrames,
                 ringposinc>>

GSAdvance ==
  /\ gsPc = "advance"
  /\ m_RingPos' = Wrap(m_RingPos + ringposinc)
  /\ queue' = Tail(queue)
  /\ handled' = Nothing
  /\ GSGoto("loop")
  /\ UNCHANGED <<m_RingBuffer, m_post_event, m_RingBufferIsBusy, m_QueuedFrames,
                 ringposinc>>

GSRestart ==
  /\ gsPc = "restart"
  /\ m_RingPos' = 0
  /\ queue' = Tail(queue)
  /\ GSGoto("restart_lock")
  /\ UNCHANGED <<m_RingBuffer, m_post_event, m_RingBufferIsBusy, m_QueuedFrames,
                 ringposinc, handled>>

(* Does not wait for the EE thread to rewind m_WritePos. *)
GSRestartLock_Mutant ==
  /\ gsPc = "restart_lock"
  /\ GSGoto("loop")
  /\ UNCHANGED <<m_RingPos, m_RingBuffer, queue, m_post_event,
                 m_RingBufferIsBusy, m_QueuedFrames, ringposinc, handled>>

(* Lock, then Unlock at once: wait until the EE has let go of it. *)
GSRestartLock ==
  /\ gsPc = "restart_lock"
  /\ ~m_lock_RingRestart
  /\ GSGoto("loop")
  /\ UNCHANGED <<m_RingPos, m_RingBuffer, queue, m_post_event,
                 m_RingBufferIsBusy, m_QueuedFrames, ringposinc, handled>>

-----------------------------------------------------------------------------
(* What the EE thread does once it has begun an operation... *)
EEStep == \/ SimplePrep \/ SimpleSpin \/ SimpleWrite \/ SimplePublish
          \/ DataStall \/ FitStall \/ WrapStall \/ WrapLock \/ WrapRewind
          \/ WrapUnlock \/ WrapPost \/ WrapBegin \/ DataTag \/ DataCopy \/ DataPublish
          \/ DataKick \/ VsyncThrottle \/ VsyncCheck \/ VsyncCount
          \/ PostEvent \/ WaitPost \/ WaitSpin
          \/ ResetPos \/ ResetSkip \/ ResetMode \/ QuitPost \/ Join

(* ... and the operations the emulated machine may ask for. *)
EEBegin == \/ PrepFits \/ PrepWraps \/ PrepExact \/ SendSimple
           \/ PostVsyncEnd \/ StartWaitGS \/ StartFreeze \/ StartClose

GSStep == \/ GSWait \/ GSBusy \/ GSLoop \/ GSRest \/ GSHandle \/ GSAdvance
          \/ GSRestart \/ GSRestartLock

Done == eePc = "closed" /\ UNCHANGED vars

Next == EEStep \/ EEBegin \/ GSStep \/ Done

Spec == Init /\ [][Next]_vars

(* Both threads run when they can.  Nothing obliges the emulated machine   *)
(* to begin another operation.                                             *)
FairSpec == Spec /\ WF_vars(EEStep) /\ WF_vars(GSStep)

-----------------------------------------------------------------------------
(* Correctness. *)

(* Every variable stays in its domain. *)
TypeOK ==
  /\ m_RingPos \in Slot /\ m_WritePos \in Slot
  /\ m_RingBuffer \in [Slot -> QwordSet]
  /\ m_post_event \in 0 .. MaxPosts
  /\ m_lock_RingRestart \in BOOLEAN /\ m_RingBufferIsBusy \in BOOLEAN
  /\ m_QueuedFrames \in Int
  /\ m_CopyCommandTally \in Nat /\ m_CopyDataTally \in Nat
  /\ m_packet_size \in 0 .. MaxPacketSize
  /\ eePc \in EEPc /\ eeRet \in EEPc
  /\ simple \in QwordSet /\ upload \in Payload \cup {NoData}
  /\ gsPc \in GSPc /\ ringposinc \in 1 .. MaxPacketSize + 1
  /\ queue \in Seq(QueuedPacket)
  /\ handled \in QwordSet

Sent(p) == Tag(p.cmd, p.len, p.data)     \* a queued packet without its place
SlotsOf(p) == p.pos .. p.pos + p.len

(* The qwords the EE thread stores to in its next step. *)
WriteTarget ==
  CASE eePc \in {"simple_write", "data_tag"} -> {m_WritePos}
    [] eePc = "data_copy" -> DataSlots
    [] OTHER -> {}

(* The EE thread never overwrites a qword of a packet the GS thread has    *)
(* not passed yet, and never writes beyond the end of the buffer: what the *)
(* stalls of PrepDataPacket and _PrepForSimplePacket are for.              *)
NoOverwrite ==
  /\ WriteTarget \subseteq Slot
  /\ \A i \in 1 .. Len(queue) : WriteTarget \cap SlotsOf(queue[i]) = {}

(* When the GS thread acts on a packet it finds the tag and all the data   *)
(* of the oldest packet it has not passed.                                 *)
NoTornRead ==
  gsPc = "handle" => queue # <<>> /\ PacketRead = Sent(Head(queue))

(* The GS thread never takes the slots it stands on for a packet when the  *)
(* EE published none, nor sleeps through one: the positions are equal      *)
(* exactly when nothing is queued, outside the rewind of a RESTART.        *)
EqualMeansEmpty ==
  eePc # "wrap_rewind" => (m_RingPos = m_WritePos <=> queue = <<>>)

(* m_QueuedFrames is the number of vsyncs sent, or about to be, that the   *)
(* GS thread has not displayed; so jASSUME( m_QueuedFrames >= 0 ) holds.   *)
VsyncsQueued == Cardinality({i \in 1 .. Len(queue) : queue[i].cmd = "VSYNC"})
FramesCounted ==
  m_QueuedFrames = VsyncsQueued
                   + (IF simple.cmd = "VSYNC" THEN 1 ELSE 0)
                   - (IF gsPc = "advance" /\ handled.cmd = "VSYNC" THEN 1 ELSE 0)

(* Reset moves m_RingPos from the EE thread: by then every packet has been *)
(* acted on and the GS thread is not in the middle of one.                 *)
ResetLosesNothing ==
  eePc = "reset_pos" =>
    /\ queue = <<>> /\ m_RingPos = m_WritePos
    /\ gsPc \notin {"handle", "advance", "restart", "quit"}

(* WaitGS returns only when the GS thread has finished every packet.       *)
WaitReturnsDrained ==
  [][eePc = "wait_spin" /\ eePc' # "wait_spin" => queue = <<>>]_vars

(* Every operation the EE thread begins comes to an end: no stall, WaitGS  *)
(* or join is for ever.                                                    *)
OperationsEnd == (eePc \notin {"run", "closed"}) ~> (eePc \in {"run", "closed"})

(* A vsync that is queued is displayed, whatever the EE thread does next.  *)
VsyncDisplayed ==
  \A n \in 1 .. MaxFramesAhead + 1 :
    (m_QueuedFrames = n) ~> (m_QueuedFrames # n)

(* The packets of a queue that are more than a RESTART, as they were sent. *)
(* The buffer never holds two of those.                                    *)
RestartBy(q, i) == \E r \in 1 .. i : q[r].cmd = "RESTART"
RealPackets(q) ==
  [i \in 1 .. (IF RestartBy(q, Len(q)) THEN Len(q) - 1 ELSE Len(q)) |->
     Sent(q[IF RestartBy(q, i) THEN i + 1 ELSE i])]

(* The ring implements the stream.  RESTART is not a packet of it: the     *)
(* reader passes it without acting on anything.                            *)
Stream == INSTANCE GsStream WITH
  Packet <- [cmd : Command \ {"RESTART"}, len : 0 .. MaxPacketSize,
             data : Payload \cup {NoData}],
  None <- Nothing,
  inFlight <- RealPackets(queue),
  current <- handled,
  acted <- gsPc \in {"advance", "quit"}
ImplementsStream == Stream!Spec

-----------------------------------------------------------------------------
(* The inductive invariant behind the properties above. *)

(* Where the reader will find the buffer empty: m_WritePos, but slot 0     *)
(* between the RESTART and the store that rewinds m_WritePos.              *)
EndPos == IF eePc = "wrap_rewind" THEN 0 ELSE m_WritePos
After(p) == p.pos + p.len + 1
NextPos(p) == IF p.cmd = "RESTART" THEN 0 ELSE Wrap(After(p))

(* The queued packets follow one another from the reader to EndPos. *)
Chained ==
  /\ Len(queue) = 0 => m_RingPos = EndPos
  /\ Len(queue) > 0 => /\ queue[1].pos = m_RingPos
                       /\ NextPos(queue[Len(queue)]) = EndPos
  /\ \A i \in 1 .. Len(queue) - 1 : queue[i + 1].pos = NextPos(queue[i])

(* They lie between the reader and EndPos: all in one stretch while the    *)
(* reader is not ahead of EndPos, else at the two ends of the buffer.      *)
Inside(p) ==
  \/ EndPos < m_RingPos /\ m_RingPos <= p.pos /\ After(p) <= RingBufferSize
  \/ /\ After(p) <= EndPos /\ p.cmd # "RESTART"
     /\ m_RingPos <= EndPos => m_RingPos <= p.pos
AllInside == \A i \in 1 .. Len(queue) : Inside(queue[i])

(* Of two of them the older one is in front, or at the far end.            *)
InOrder(p, q) ==
  \/ After(p) <= q.pos /\ p.cmd # "RESTART"
  \/ q.pos < m_RingPos /\ m_RingPos <= p.pos
AllInOrder == \A i, j \in 1 .. Len(queue) : i < j => InOrder(queue[i], queue[j])

(* The buffer still holds what was sent. *)
Stored(p) ==
  /\ m_RingBuffer[p.pos] = Sent(p)
  /\ \A k \in 1 .. p.len : m_RingBuffer[p.pos + k] = Qword(p.data)
AllStored == \A i \in 1 .. Len(queue) : Stored(queue[i])

(* There is room for the next n qwords at m_WritePos, and room to stay. *)
RoomFor(n) ==
  \/ m_WritePos + n = RingBufferSize /\ 0 < m_RingPos /\ m_RingPos <= m_WritePos
  \/ /\ m_WritePos + n < RingBufferSize
     /\ m_RingPos <= m_WritePos \/ m_WritePos + n < m_RingPos

SendingSimple == eePc \in {"simple_prep", "simple_spin", "simple_write", "simple_publish"}
Restarting == SendingSimple /\ simple.cmd = "RESTART"

(* What the EE thread has made sure of, by the place it is at. *)
EEReady ==
  /\ SendingSimple => simple.len = 0 /\ simple.data = NoData
  /\ Restarting => 0 < m_RingPos /\ m_RingPos <= m_WritePos /\ eeRet = "wrap_rewind"
  /\ SendingSimple /\ ~Restarting => eeRet \in {"run", "post", "wait_post", "quit_post",
                                                 "reset_skip", "reset_mode"}
  /\ eePc \in {"wait_post", "wait_spin"} => eeRet \in {"run", "reset_pos"}
  /\ eePc \in {"simple_write", "simple_publish"} => RoomFor(1)
  /\ eePc = "simple_publish" => m_RingBuffer[m_WritePos] = simple
  /\ eePc = "data_stall" => m_WritePos + m_packet_size + 1 < RingBufferSize
  /\ eePc = "fit_stall" => /\ m_WritePos + m_packet_size + 1 = RingBufferSize
                           /\ m_WritePos > 0
  /\ eePc = "wrap_stall" => m_WritePos > 0
  /\ eePc = "wrap_lock" => 0 < m_RingPos /\ m_RingPos <= m_WritePos
  /\ eePc = "wrap_rewind" =>
       \/ Len(queue) = 0 /\ gsPc = "restart_lock"
       \/ Len(queue) > 0 /\ queue[Len(queue)].cmd = "RESTART"
  /\ eePc \in {"wrap_unlock", "wrap_post", "wrap_begin"} => m_WritePos = 0
  /\ eePc \in {"data_tag", "data_copy", "data_publish"} => RoomFor(m_packet_size + 1)
  /\ eePc \in {"data_copy", "data_publish"} =>
       m_RingBuffer[m_WritePos] = Tag("DATA", m_packet_size, upload)
  /\ eePc = "data_publish" =>
       \A k \in 1 .. m_packet_size : m_RingBuffer[m_WritePos + k] = Qword(upload)
  /\ m_lock_RingRestart <=> Restarting \/ eePc \in {"wrap_rewind", "wrap_unlock"}

(* What the GS thread knows of the packet it stands on. *)
GSReady ==
  /\ gsPc \in {"handle", "advance", "quit"} => Len(queue) > 0 /\ queue[1].cmd # "RESTART"
  /\ gsPc = "advance" => ringposinc = 1 + queue[1].len
  /\ gsPc = "restart" => Len(queue) > 0 /\ queue[1].cmd = "RESTART"

LayoutInv == Chained /\ AllInside /\ AllInOrder /\ AllStored

(* The simple packet is one while it is being sent and no longer; the GS   *)
(* thread remembers the packet it has acted on until it has passed it.     *)
Bookkeeping ==
  /\ SendingSimple => simple.cmd \in SimpleCommand
  /\ ~SendingSimple => simple = Nothing
  /\ gsPc = "advance" => handled = Sent(queue[1])

(* The conjunction is inductive. *)
RingInv ==
  /\ TypeOK
  /\ LayoutInv
  /\ EEReady
  /\ GSReady
  /\ ResetLosesNothing
=============================================================================
