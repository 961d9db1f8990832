-------------------------------- MODULE Movie --------------------------------
(* Movies of controller input: TAS.cpp, the frame loop and the menu and hot  *)
(* key handlers of windows/WinSysExec.cpp, WinMain.cpp, MovieDlg.cpp and     *)
(* Misc.cpp, and the pad bytes of Sio.cpp.                                   *)
(*                                                                           *)
(* A movie file is a header (FrameMax, Rerecs, BootTime) and one record of   *)
(* pad bytes per frame.  The emulated machine is deterministic, so it is     *)
(* modelled by everything it depends on: the clock it booted with, and for   *)
(* each frame it has run the bytes its last poll left in g_PadData (a frame  *)
(* without a poll leaves the bytes of the frame before).  It also remembers  *)
(* how many of its frames FrameNum has lost (uncounted): RunExecute resumes  *)
(* a recovery state in the middle of its movie but counts from 0.  It is     *)
(* followed only while a movie accounts for it: machine is None with no      *)
(* movie open, and once the user has done what no code keeps in step with    *)
(* the file (a reboot in the middle of a movie, a savestate of other frames  *)
(* watched read-only, a savestate made with frames uncounted, which leaves   *)
(* the file that many frames behind the machine, ...).                       *)
(*                                                                           *)
(* Everything runs on one thread; the hard part is the order in which a user *)
(* may call things, and the process ending between two of them.              *)
EXTENDS Integers, Sequences

CONSTANTS Pad,         \* the pad bytes of one frame
          Time,        \* real-time clocks to boot with
          ZeroTime,    \* the clock of a zeroed g_Movie
          FileName,    \* movie files
          Slot,        \* savestate slots
          None,        \* no file, no machine, no savestate
          MaxFrame,    \* bound: frames counted, frames in a file
          MaxRerecs    \* bound: re-recordings of a movie

VARIABLES
  machine,      \* the emulated machine, or None
  disk,         \* the movie files
  pos,          \* frame the position of the open file is at
  File, FrameNum, FrameMax, Rerecs, Replay, ReadOnly, BootTime,   \* g_Movie
  slots,        \* the savestates on disk
  g_RecoveryState,
  running,      \* inside the loop of ExecuteCpu: ~g_ReturnToGui
  g_EmulationInProgress,
  take          \* history: the machine whose recording a closed movie holds

g_Movie == <<File, FrameNum, FrameMax, Rerecs, Replay, ReadOnly, BootTime>>
execution == <<g_RecoveryState, running, g_EmulationInProgress>>
vars == <<machine, execution, disk, pos, g_Movie, slots, take>>

Machine == [boot : Time, frames : Seq(Pad), uncounted : Nat]
Movie == [FrameMax : Nat, Rerecs : Nat, BootTime : Time, data : Seq(Pad)]
State == [machine : Machine \cup {None}, hasMovie : BOOLEAN, FrameNum : Nat,
          data : Seq(Pad)]

ASSUME MovieAssumption ==
  /\ ZeroTime \in Time
  /\ None \notin FileName /\ None \notin Machine /\ None \notin Movie /\ None \notin State
  /\ MaxFrame \in Nat /\ MaxRerecs \in Nat

Booted(t) == [boot |-> t, frames |-> <<>>, uncounted |-> 0]

Init ==
  /\ machine = None
  /\ disk = [f \in FileName |-> None]
  /\ pos = 0
  /\ File = None /\ FrameNum = 0 /\ FrameMax = 0 /\ Rerecs = 0
  /\ Replay = FALSE /\ ReadOnly = FALSE /\ BootTime = ZeroTime
  /\ slots = [s \in Slot |-> None]
  /\ g_RecoveryState = None
  /\ running = FALSE /\ g_EmulationInProgress = FALSE
  /\ take = [f \in FileName |-> None]

-----------------------------------------------------------------------------
(* Mutant: the header is left as it was.                                     *)
Ended_Mutant == disk

(* MovieEnd: the disk and the takes after it.                                *)
Ended ==
  IF File # None /\ ~ReadOnly
  THEN [disk EXCEPT ![File].FrameMax = FrameMax, ![File].Rerecs = Rerecs]
  ELSE disk

Taken ==
  IF machine # None /\ ~Replay /\ ~ReadOnly /\ FrameMax = FrameNum
  THEN [take EXCEPT ![File] = machine]
  ELSE take

(* RunExecute with nothing to recover.                                       *)
RunExecute ==
  /\ FrameNum' = 0
  /\ g_RecoveryState' = None
  /\ running' = TRUE
  /\ g_EmulationInProgress' = TRUE

(* The record dialog, MovieRecord and RunExecute.                            *)
MovieRecord(f, t) ==
  /\ ~running
  /\ disk' = [Ended EXCEPT ![f] =
                [FrameMax |-> 0, Rerecs |-> 0, BootTime |-> t, data |-> <<>>]]
  /\ File' = f /\ pos' = 0
  /\ FrameMax' = 0 /\ Rerecs' = 0 /\ BootTime' = t
  /\ Replay' = FALSE /\ ReadOnly' = FALSE
  /\ machine' = Booted(t)
  /\ RunExecute
  /\ take' = [Taken EXCEPT ![f] = None]
  /\ UNCHANGED slots

(* The play dialog, MoviePlay and RunExecute.  The movie that was open is    *)
(* closed first, so that f may be the file whose header was just rewritten.  *)
MoviePlay(f, readOnly) ==
  /\ ~running
  /\ disk[f] # None
  /\ disk' = Ended
  /\ File' = f /\ pos' = 0
  /\ FrameMax' = Ended[f].FrameMax /\ Rerecs' = Ended[f].Rerecs
  /\ BootTime' = Ended[f].BootTime
  /\ Replay' = TRUE /\ ReadOnly' = readOnly
  /\ machine' = Booted(Ended[f].BootTime)
  /\ RunExecute
  /\ take' = Taken
  /\ UNCHANGED slots

(* MovieEnd from the menu, or with a file that cannot be opened for          *)
(* recording (t: the record dialog has already stored its boot time) or      *)
(* playing.                                                                  *)
MovieEnd(t) ==
  /\ ~running
  /\ disk' = Ended
  /\ File' = None
  /\ Replay' = (Replay /\ File = None)
  /\ BootTime' = t
  /\ machine' = None
  /\ take' = Taken
  /\ UNCHANGED <<execution, pos, FrameNum, FrameMax, Rerecs, ReadOnly, slots>>

-----------------------------------------------------------------------------
(* RunFrame; p is g_PadData at the end of the frame.                         *)
Emulate ==
  /\ running
  /\ FrameNum < MaxFrame
  /\ FrameNum' = FrameNum + 1
  /\ UNCHANGED <<execution, slots>>

Reading(p) == IF machine = None THEN None
              ELSE [machine EXCEPT !.frames = Append(@, p)]

PlainFrame ==
  /\ File = None
  /\ Emulate
  /\ UNCHANGED <<machine, disk, pos, File, FrameMax, Rerecs, Replay, ReadOnly, BootTime,
                 take>>

(* Mutant: the frame goes to the end of the file.                            *)
Written_Mutant(d, p) == d \o <<p>>

(* fwrite at the position of the file: over a frame, or at the end.          *)
Written(d, p) == [i \in 1 .. (IF pos < Len(d) THEN Len(d) ELSE pos + 1) |->
                    IF i = pos + 1 THEN p ELSE d[i]]

RecordFrame(p) ==
  /\ File # None /\ ~Replay
  /\ pos < MaxFrame
  /\ Emulate
  /\ machine' = Reading(p)
  /\ disk' = [disk EXCEPT ![File].data = Written(@, p)]
  /\ pos' = pos + 1
  /\ FrameMax' = FrameNum + 1
  /\ take' = [take EXCEPT ![File] = None]
  /\ UNCHANGED <<File, Rerecs, Replay, ReadOnly, BootTime>>

(* Mutant: nothing closes the movie.                                         *)
LastFrame_Mutant == FALSE

(* fread of the next frame, which overrides the pads; past the end of the    *)
(* file the bytes stay what they were.  The last frame ends the movie.       *)
MoreFrames == pos < Len(disk[File].data)
LastFrame == FrameNum + 1 >= FrameMax

ReplayFrame(p) ==
  /\ File # None /\ Replay
  /\ MoreFrames => p = disk[File].data[pos + 1]
  /\ Emulate
  /\ pos' = IF MoreFrames THEN pos + 1 ELSE pos
  /\ IF LastFrame
     THEN disk' = Ended /\ File' = None /\ Replay' = FALSE /\ machine' = None
     ELSE UNCHANGED <<disk, File, Replay>> /\ machine' = Reading(p)
  /\ UNCHANGED <<FrameMax, Rerecs, ReadOnly, BootTime, take>>

RunFrame == PlainFrame \/ \E p \in Pad : RecordFrame(p) \/ ReplayFrame(p)

-----------------------------------------------------------------------------
(* Mutant: the frames are read from where the file is, not from the start.   *)
MovieData_Mutant == IF File = None THEN {<<>>} ELSE [1 .. FrameNum -> Pad]

(* Mutant: the file is rewound but its frames are not read.                  *)
FreezeSave_Mutant ==
  IF File = None
  THEN UNCHANGED <<disk, pos>>
  ELSE /\ disk' = [disk EXCEPT ![File].FrameMax = FrameMax, ![File].Rerecs = Rerecs,
                               ![File].BootTime = BootTime]
       /\ pos' = 0

(* movieFreeze when saving: the header is written again, then FrameNum       *)
(* frames are read.  Past the end of the file the buffer keeps whatever      *)
(* malloc left in it.                                                        *)
MovieData ==
  IF File = None THEN {<<>>}
  ELSE {d \in [1 .. FrameNum -> Pad] : \A i \in 1 .. FrameNum :
          i <= Len(disk[File].data) => d[i] = disk[File].data[i]}

ReadEnd == IF FrameNum <= Len(disk[File].data) THEN FrameNum ELSE Len(disk[File].data)

FreezeSave ==
  IF File = None
  THEN UNCHANGED <<disk, pos>>
  ELSE /\ disk' = [disk EXCEPT ![File].FrameMax = FrameMax, ![File].Rerecs = Rerecs,
                               ![File].BootTime = BootTime]
       /\ pos' = ReadEnd

(* ReadEnd is where the machine's next frame is only if FrameNum has counted *)
(* all of its frames.                                                        *)
Kept == IF machine # None /\ machine.uncounted = 0 THEN machine ELSE None

Snapshot(d) == [machine |-> Kept, hasMovie |-> File # None,
                FrameNum |-> Len(d), data |-> d]

(* F1 in the loop, or States_Save from the menu, which writes the recovery   *)
(* state instead when there is one.                                          *)
SaveState(s) ==
  \/ /\ running \/ g_EmulationInProgress
     /\ \E d \in MovieData : slots' = [slots EXCEPT ![s] = Snapshot(d)]
     /\ FreezeSave
     /\ machine' = Kept
     /\ UNCHANGED <<execution, g_Movie, take>>
  \/ /\ g_RecoveryState # None
     /\ slots' = [slots EXCEPT ![s] = g_RecoveryState]
     /\ UNCHANGED <<machine, execution, disk, pos, g_Movie, take>>

(* A savestate the open movie accounts for.  Re-recording from it replaces   *)
(* the frames of the file; watching from it needs them to be there, and one  *)
(* more to come.                                                             *)
Fits(st) ==
  /\ st.machine # None /\ st.machine.boot = BootTime
  /\ ReadOnly => /\ st.FrameNum < FrameMax
                 /\ st.data = SubSeq(disk[File].data, 1, st.FrameNum)

(* Mutant: the header is rewritten but not the frames.                       *)
Rewritten_Mutant(m, st) ==
  [FrameMax |-> st.FrameNum, Rerecs |-> Rerecs, BootTime |-> BootTime, data |-> m.data]

(* Mutant: a read-only movie is rewritten too.                               *)
FreezeLoad_Mutant(st) ==
  IF File = None
  THEN UNCHANGED <<disk, pos, Replay, Rerecs, take>>
  ELSE /\ pos' = st.FrameNum
       /\ Replay' = ReadOnly
       /\ Rerecs < MaxRerecs
       /\ disk' = [disk EXCEPT ![File].data =
                     st.data \o SubSeq(@, st.FrameNum + 1, Len(@))]
       /\ Rerecs' = Rerecs + 1
       /\ take' = [take EXCEPT ![File] = None]

(* movieFreeze when loading: the file m after it is rewritten from st.       *)
Rewritten(m, st) ==
  [FrameMax |-> st.FrameNum, Rerecs |-> Rerecs, BootTime |-> BootTime,
   data |-> st.data \o SubSeq(m.data, st.FrameNum + 1, Len(m.data))]

FreezeLoad(st) ==
  IF File = None
  THEN UNCHANGED <<disk, pos, Replay, Rerecs, take>>
  ELSE /\ pos' = st.FrameNum
       /\ Replay' = ReadOnly
       /\ IF ReadOnly
          THEN UNCHANGED <<disk, Rerecs, take>>
          ELSE /\ Rerecs < MaxRerecs
               /\ disk' = [disk EXCEPT ![File] = Rewritten(@, st)]
               /\ Rerecs' = Rerecs + 1
               /\ take' = [take EXCEPT ![File] = None]

Loaded ==
  /\ g_RecoveryState' = None
  /\ running' = TRUE /\ g_EmulationInProgress' = TRUE
  /\ UNCHANGED <<File, FrameMax, ReadOnly, BootTime, slots>>

(* F3 in the loop, or States_Load from the menu, which ends in ExecuteCpu.   *)
LoadState(s) ==
  /\ slots[s] # None
  /\ File # None => slots[s].hasMovie
  /\ FreezeLoad(slots[s])
  /\ FrameNum' = IF File # None THEN slots[s].FrameNum ELSE FrameNum
  /\ machine' = IF File # None /\ Fits(slots[s]) THEN slots[s].machine ELSE None
  /\ Loaded

(* A savestate made with no movie open ends before the data that movieFreeze *)
(* wants: BadSavedState, with every other component already loaded.  F3      *)
(* leaves the loop and clears the flag, the menu's States_Load only closes   *)
(* the plugins.                                                              *)
LoadFails(s) ==
  /\ slots[s] # None /\ File # None /\ ~slots[s].hasMovie
  /\ machine' = None
  /\ running' = FALSE
  /\ g_EmulationInProgress' = (g_EmulationInProgress /\ ~running)
  /\ UNCHANGED <<g_RecoveryState, disk, pos, g_Movie, slots, take>>

-----------------------------------------------------------------------------
(* The R key.                                                                *)
ToggleReadOnly ==
  /\ running
  /\ ReadOnly' = ~ReadOnly
  /\ UNCHANGED <<machine, execution, disk, pos, File, FrameNum, FrameMax,
                 Rerecs, Replay, BootTime, slots, take>>

(* The Escape key, and Execute from the menu while a game is in progress.    *)
Escape ==
  /\ running
  /\ running' = FALSE
  /\ UNCHANGED <<machine, g_RecoveryState, g_EmulationInProgress,
                 disk, pos, g_Movie, slots, take>>

Resume ==
  /\ ~running /\ g_EmulationInProgress
  /\ running' = TRUE
  /\ g_RecoveryState' = None
  /\ UNCHANGED <<machine, g_EmulationInProgress, disk, pos,
                 g_Movie, slots, take>>

(* Run CD, or Execute with nothing in progress and nothing to recover.  The  *)
(* open movie keeps its position; cdvdReset takes its boot time.             *)
Boot ==
  /\ ~running
  /\ machine' = IF File # None /\ pos = 0 THEN Booted(BootTime) ELSE None
  /\ RunExecute
  /\ UNCHANGED <<disk, pos, File, FrameMax, Rerecs, Replay, ReadOnly,
                 BootTime, slots, take>>

(* Reset from the menu.                                                      *)
SysReset ==
  /\ ~running
  /\ g_EmulationInProgress' = FALSE
  /\ g_RecoveryState' = None
  /\ UNCHANGED <<machine, running, disk, pos, g_Movie, slots, take>>

(* A change of configuration: the state is saved to memory ...               *)
SysRestorableReset ==
  /\ ~running /\ g_EmulationInProgress /\ g_RecoveryState = None
  /\ \E d \in MovieData : g_RecoveryState' = Snapshot(d)
  /\ FreezeSave
  /\ g_EmulationInProgress' = FALSE
  /\ machine' = Kept
  /\ UNCHANGED <<running, g_Movie, slots, take>>

(* ... and RunExecute loads it again: the machine and the position of the    *)
(* file go on from where they were, the count of frames starts again from 0. *)
Recover ==
  /\ ~running /\ ~g_EmulationInProgress /\ g_RecoveryState # None
  /\ FreezeLoad(g_RecoveryState)
  /\ FrameNum' = 0
  /\ machine' = IF File # None /\ Fits(g_RecoveryState)
                THEN [g_RecoveryState.machine EXCEPT !.uncounted = g_RecoveryState.FrameNum]
                ELSE None
  /\ Loaded

(* The process ends, by a crash or by Exit, which does not call MovieEnd.    *)
Exit ==
  /\ machine' = None
  /\ pos' = 0
  /\ File' = None /\ FrameNum' = 0 /\ FrameMax' = 0 /\ Rerecs' = 0
  /\ Replay' = FALSE /\ ReadOnly' = FALSE /\ BootTime' = ZeroTime
  /\ g_RecoveryState' = None
  /\ running' = FALSE /\ g_EmulationInProgress' = FALSE
  /\ UNCHANGED <<disk, slots, take>>

Next ==
  \/ RunFrame
  \/ \E f \in FileName : \/ \E t \in Time : MovieRecord(f, t)
                         \/ \E readOnly \in BOOLEAN : MoviePlay(f, readOnly)
  \/ \E t \in Time : MovieEnd(t)
  \/ \E s \in Slot : SaveState(s) \/ LoadState(s) \/ LoadFails(s)
  \/ ToggleReadOnly \/ Escape \/ Resume
  \/ Boot \/ SysReset \/ SysRestorableReset \/ Recover
  \/ Exit

Spec == Init /\ [][Next]_vars
FairSpec == Spec /\ WF_vars(RunFrame)

-----------------------------------------------------------------------------
(* Types.  None stands for "no such file", "empty slot" and "no take".       *)
TypeOK ==
  /\ machine \in Machine \cup {None}
  /\ disk \in [FileName -> Movie \cup {None}]
  /\ pos \in Nat
  /\ File \in FileName \cup {None}
  /\ FrameNum \in Nat /\ FrameMax \in Nat /\ Rerecs \in Nat
  /\ Replay \in BOOLEAN /\ ReadOnly \in BOOLEAN /\ BootTime \in Time
  /\ slots \in [Slot -> State \cup {None}]
  /\ g_RecoveryState \in State \cup {None}
  /\ running \in BOOLEAN /\ g_EmulationInProgress \in BOOLEAN
  /\ take \in [FileName -> Machine \cup {None}]

(* The machine, the frame counter, the position of the file and its frames   *)
(* agree: the machine has run, since the movie's boot time, the frames that  *)
(* FrameNum counts and those it lost in a recovery, has read in each the     *)
(* frame of the file, and the next frame that RunFrame reads or writes is    *)
(* its own.  (Only playback resumed by a recovery may run past the end of    *)
(* the file.)  Every step that touches one of the four must move the others: *)
(* frames, saving and loading a state, recovering, closing.                  *)
PastEnd == Replay /\ machine.uncounted > 0 /\ pos = Len(disk[File].data)

InSync ==
  machine # None =>
    /\ File # None /\ disk[File] # None
    /\ Len(machine.frames) = FrameNum + machine.uncounted
    /\ pos <= Len(disk[File].data)
    /\ pos = Len(machine.frames) \/ (PastEnd /\ pos < Len(machine.frames))
    /\ \A i \in 1 .. pos : machine.frames[i] = disk[File].data[i]
    /\ machine.boot = BootTime /\ BootTime = disk[File].BootTime

(* The open file exists and has the boot time of g_Movie.                    *)
OpenFile ==
  File # None => disk[File] # None /\ disk[File].BootTime = BootTime

(* While recording, the position is inside the file and not behind the       *)
(* counter, in sync or not: FrameMax never passes the end of the file.       *)
Recording ==
  File # None /\ ~Replay => FrameNum <= pos /\ pos <= Len(disk[File].data)

(* A savestate carries its own movie: loading it for re-recording puts into  *)
(* the file exactly what its machine has read, whatever happened to the file *)
(* in between.                                                               *)
Carries(st) ==
  st # None =>
    /\ Len(st.data) = st.FrameNum
    /\ st.machine # None => /\ st.hasMovie
                            /\ st.machine.frames = st.data /\ st.machine.uncounted = 0

SavestatesCarryMovie ==
  Carries(g_RecoveryState) /\ \A s \in Slot : Carries(slots[s])

(* No header promises more frames than its file holds, also after the        *)
(* process ended in the middle of a recording, after a load of any savestate *)
(* and with a movie still open: a playback whose frames are counted from the *)
(* first one never runs off the end.                                         *)
HeaderWithinFile ==
  /\ \A f \in FileName : disk[f] # None => disk[f].FrameMax <= Len(disk[f].data)
  /\ File # None => FrameMax <= Len(disk[File].data)

(* Playing a movie that was recorded and closed shows the machine what it    *)
(* was shown while recording, frame by frame and from the same clock, also   *)
(* across savestates watched read-only and recoveries.  It can get past the  *)
(* recording only by the frames that a recovery while watching uncounted.    *)
PlaybackReproduces ==
  machine # None /\ Replay /\ take[File] # None =>
    LET shown == machine.frames
        recorded == take[File].frames
    IN  /\ machine.boot = take[File].boot
        /\ Len(shown) <= Len(recorded) + machine.uncounted
        /\ \A i \in DOMAIN shown \cap DOMAIN recorded : shown[i] = recorded[i]

(* A take stays in its file until the file is recorded over, the header      *)
(* lacks the frames that a recovery while recording uncounted, and a movie   *)
(* that is played back in sync has frames left.                              *)
TakeKept ==
  /\ \A f \in FileName : take[f] # None =>
       /\ disk[f] # None /\ disk[f].BootTime = take[f].boot
       /\ disk[f].FrameMax + take[f].uncounted = Len(take[f].frames)
       /\ Len(take[f].frames) <= Len(disk[f].data)
       /\ \A i \in 1 .. Len(take[f].frames) : take[f].frames[i] = disk[f].data[i]
       /\ File = f => Replay /\ FrameMax + take[f].uncounted = Len(take[f].frames)
  /\ machine # None /\ Replay => FrameNum = 0 \/ FrameNum < FrameMax

(* The inductive invariant: what every operation relies on.                  *)
MovieInv ==
  /\ OpenFile /\ Recording /\ InSync /\ SavestatesCarryMovie /\ HeaderWithinFile
  /\ TakeKept

(* ... and when playback ends by itself, nothing of a recording that was not *)
(* interrupted by a recovery is missing.  One that RunExecute resumed loses  *)
(* at its end exactly the frames that were uncounted; and playback resumed   *)
(* in that way goes on, past the recording, for as many frames as it had     *)
(* shown before.  (A movie whose header says no frames still plays one.)     *)
PlaybackComplete ==
  [][RunFrame /\ machine # None /\ Replay /\ File' = None /\ take[File] # None
       => \/ Len(machine.frames) + 1 - machine.uncounted
                = Len(take[File].frames) - take[File].uncounted
          \/ Len(take[File].frames) = take[File].uncounted]_vars

(* A movie watched read-only keeps its frames, whatever is saved, loaded,    *)
(* rebooted or recovered in between.                                         *)
ReadOnlyKeepsFrames ==
  [][File # None /\ File' = File /\ Replay /\ ReadOnly /\ ReadOnly'
       => disk'[File].data = disk[File].data]_vars

(* Playback comes to its end, unless the user leaves the loop, desyncs it or *)
(* keeps loading savestates for ever.                                        *)
Watching == running /\ machine # None /\ Replay

PlaybackEnds ==
  <>[][~ \E s \in Slot : LoadState(s)]_vars => (Watching ~> ~Watching)

-----------------------------------------------------------------------------
=============================================================================
