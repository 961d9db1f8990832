---------------------------- MODULE LuaEngineProofs ----------------------------
(* Proofs about Lua scripts.  The mutex alone does not make a script safe: a  *)
(* callback may fail in the middle of a frame, the exit function runs before  *)
(* the engine is closed, and the window's thread goes on with the mutex from  *)
(* the exit function of one script into the first frame of the next.  What    *)
(* holds all through is which thread may be in which function at which place. *)
EXTENDS LuaEngine, TLAPS

EmuPc == {"top", "before", "joypadset", "cpu", "boundary", "after"}
DlgPc == {"idle", "run", "stop", "close", "update"}
Function == {"none", "coroutine"} \union Calls

TypeOK ==
  /\ scriptExecMtx \in {"free"} \union Thread
  /\ emuPc \in EmuPc /\ dlgPc \in DlgPc
  /\ script \in [Thread -> Function]
  /\ {LUA, luaRunning, frameAdvanceWaiting, suspended, memwriteaddr} \subseteq BOOLEAN
  /\ {lua_joypads_used, replay, g_ReturnToGui, hLuaDlg} \subseteq BOOLEAN
  /\ {consoleputstring, posted, disturbed} \subseteq BOOLEAN
  /\ callbacks \subseteq Calls
  /\ padData \in Pad /\ g_PadData \in Pad

(* The place of a thread says which functions of the script it may be in. *)
PlacesFit ==
  /\ script["emu"] # "none" => emuPc \in {"before", "boundary", "after", "cpu"}
  /\ script["emu"] = "coroutine" => emuPc = "boundary"
  /\ script["dlg"] # "none" => dlgPc \in {"run", "stop", "close"}

(* While no thread is in it, the coroutine of a running script can be resumed. *)
RunningFits ==
  luaRunning /\ script["emu"] # "coroutine" /\ script["dlg"] # "coroutine" =>
    LUA /\ suspended /\ frameAdvanceWaiting

(* Whatever could change the source of the input within a frame is counted as *)
(* a disturbance before it does.                                              *)
SourceFits ==
  /\ emuPc = "cpu" /\ script["dlg"] # "none" => disturbed
  /\ emuPc = "cpu" /\ script["emu"] = "exit" => disturbed
  /\ emuPc = "cpu" /\ ~disturbed =>
       source = IF replay \/ lua_joypads_used THEN g_PadData ELSE FromPad
  /\ emuPc # "cpu" => sio = NoPoll

EngineInv == ScriptsExclusive /\ PlacesFit /\ RunningFits
FrameInv == SourceFits /\ GameReadsOneSource
LuaInv == TypeOK /\ EngineInv /\ FrameInv /\ PrintedIsPosted

(* A pad value is not the mark of an input that comes from the pad. *)
LEMMA PadIsNotFromPad ==
  ASSUME NEW p \in Pad
  PROVE  p # FromPad
  BY LuaEngineAssumption DEF FromPad

(* No function has the name of the place between functions. *)
LEMMA CallNames == "none" \notin Calls /\ "coroutine" \notin Calls
  BY LuaEngineAssumption

LEMMA InitLua == Init => LuaInv
  BY LuaEngineAssumption, CallNames, ZenonT(40)
  DEF Init, LuaInv, TypeOK, EngineInv, FrameInv, ScriptsExclusive, PlacesFit, RunningFits,
      SourceFits, GameReadsOneSource, PrintedIsPosted, NoPoll, EmuPc, DlgPc, Function, Thread

-----------------------------------------------------------------------------
USE DEF Thread

(* The steps of a script, by thread. *)
LEMMA ScriptType ==
  ASSUME LuaInv, NEW t \in Thread, Script(t)
  PROVE  TypeOK'
<1> USE DEF TypeOK, EmuPc, DlgPc, Function
<1>0. TypeOK
  BY DEF LuaInv
<1>1. CASE L_setJoyPad(t)
  BY <1>0, <1>1 DEF L_setJoyPad, threads, engine, window
<1>2. CASE registerfunction(t)
  BY <1>0, <1>2 DEF registerfunction, threads, pads, window, history
<1>3. CASE print(t) \/ ClearWindowConsole(t)
  BY <1>0, <1>3 DEF print, ClearWindowConsole, PrintToWindowConsole, threads, engine, pads, history
<1>4. CASE CallbackReturns(t) \/ CallbackFails(t)
  <2>1. CASE CallbackReturns(t)
    BY <1>0, <2>1 DEF CallbackReturns, Closed, Prints, PrintToWindowConsole, Load, LuaClose, PCSX2LuaOnStop,
                      Unlock, Enter, engine, window, history
  <2>2. CASE CallbackFails(t)
    BY <1>0, <2>2 DEF CallbackFails, PCSX2LuaStop, Closed, Prints, PrintToWindowConsole, Load, LuaClose,
                      PCSX2LuaOnStop, Unlock, Enter, engine
  <2> QED BY <1>4, <2>1, <2>2
<1>5. CASE frameadvance(t) \/ CoroutineStops(t)
  BY <1>0, <1>5 DEF frameadvance, CoroutineStops, PCSX2LuaOnStop, Unlock, PrintToWindowConsole,
                    pads, window, history
<1> QED BY <1>1, <1>2, <1>3, <1>4, <1>5 DEF Script

LEMMA ScriptEngine ==
  ASSUME LuaInv, NEW t \in Thread, Script(t)
  PROVE  EngineInv'
<1> USE DEF EngineInv, ScriptsExclusive, PlacesFit, RunningFits
<1>0. TypeOK /\ EngineInv /\ script \in [Thread -> Function]
  BY DEF LuaInv, TypeOK
<1>1. CASE L_setJoyPad(t)
  BY <1>0, <1>1 DEF L_setJoyPad, threads, engine
<1>2. CASE registerfunction(t)
  BY <1>0, <1>2 DEF registerfunction, threads
<1>3. CASE print(t) \/ ClearWindowConsole(t)
  BY <1>0, <1>3 DEF print, ClearWindowConsole, threads, engine
<1>4. CASE CallbackReturns(t)
  BY <1>0, <1>4, CallNames DEF CallbackReturns, Closed, Load, LuaClose, PCSX2LuaOnStop, Unlock, Enter,
                    engine
<1>5. CASE CallbackFails(t)
  BY <1>0, <1>5, CallNames DEF CallbackFails, PCSX2LuaStop, Closed, Load, LuaClose, PCSX2LuaOnStop,
                    Unlock, Enter, engine
<1>6. CASE frameadvance(t)
  BY <1>0, <1>6 DEF frameadvance, Unlock
<1>7. CASE CoroutineStops(t)
  BY <1>0, <1>7 DEF CoroutineStops, PCSX2LuaOnStop, Unlock
<1> QED BY <1>1, <1>2, <1>3, <1>4, <1>5, <1>6, <1>7 DEF Script

LEMMA ScriptFrame ==
  ASSUME LuaInv, NEW t \in Thread, Script(t)
  PROVE  FrameInv'
<1> USE DEF FrameInv, SourceFits, GameReadsOneSource
<1>0. TypeOK /\ EngineInv /\ FrameInv /\ script \in [Thread -> Function]
  BY DEF LuaInv, TypeOK
<1>1. CASE L_setJoyPad(t)
  BY <1>0, <1>1 DEF L_setJoyPad, threads, engine
<1>2. CASE registerfunction(t)
  BY <1>0, <1>2 DEF registerfunction, threads, pads, history
<1>3. CASE print(t) \/ ClearWindowConsole(t)
  BY <1>0, <1>3 DEF print, ClearWindowConsole, threads, pads, history
<1>4. CASE CallbackReturns(t)
  BY <1>0, <1>4, CallNames DEF CallbackReturns, Closed, Load, LuaClose, PCSX2LuaOnStop, Unlock, Enter,
                    history, EngineInv, PlacesFit, ScriptsExclusive
<1>5. CASE CallbackFails(t)
  BY <1>0, <1>5, CallNames DEF CallbackFails, PCSX2LuaStop, Closed, Load, LuaClose, PCSX2LuaOnStop,
                    Unlock, Enter, EngineInv, PlacesFit, ScriptsExclusive, engine
<1>6. CASE frameadvance(t)
  BY <1>0, <1>6 DEF frameadvance, Unlock, pads, history, EngineInv, PlacesFit, ScriptsExclusive
<1>7. CASE CoroutineStops(t)
  BY <1>0, <1>7 DEF CoroutineStops, PCSX2LuaOnStop, Unlock, history, EngineInv, PlacesFit,
                    ScriptsExclusive
<1> QED BY <1>1, <1>2, <1>3, <1>4, <1>5, <1>6, <1>7 DEF Script

LEMMA ScriptText ==
  ASSUME LuaInv, NEW t \in Thread, Script(t)
  PROVE  PrintedIsPosted'
<1> USE DEF PrintedIsPosted
<1>0. TypeOK /\ PlacesFit /\ PrintedIsPosted /\ script \in [Thread -> Function]
  BY DEF LuaInv, TypeOK, EngineInv
<1>1. CASE L_setJoyPad(t) \/ registerfunction(t)
  BY <1>0, <1>1 DEF L_setJoyPad, registerfunction, threads, window
<1>3. CASE print(t) \/ ClearWindowConsole(t)
  BY <1>0, <1>3 DEF print, ClearWindowConsole, PrintToWindowConsole, threads
<1>4. CASE CallbackReturns(t)
  BY <1>0, <1>4, CallNames DEF CallbackReturns, Closed, Prints, PrintToWindowConsole, Load, LuaClose,
                    Unlock, Enter, PlacesFit, window
<1>5. CASE CallbackFails(t)
  BY <1>0, <1>5, CallNames DEF CallbackFails, PCSX2LuaStop, Closed, Prints, PrintToWindowConsole, Load, LuaClose,
                    Unlock, Enter, PlacesFit
<1>6. CASE frameadvance(t)
  BY <1>0, <1>6 DEF frameadvance, Unlock, PlacesFit, window
<1>7. CASE CoroutineStops(t)
  <2>1. UNCHANGED <<consoleputstring, posted>> \/ PrintToWindowConsole
    BY <1>7 DEF CoroutineStops
  <2>2. hLuaDlg' = hLuaDlg /\ (dlgPc = "update" => dlgPc' = dlgPc)
    BY <1>0, <1>7 DEF CoroutineStops, Unlock, PlacesFit
  <2> QED BY <1>0, <2>1, <2>2 DEF PrintToWindowConsole
<1> QED BY <1>1, <1>3, <1>4, <1>5, <1>6, <1>7 DEF Script

-----------------------------------------------------------------------------
(* The steps of the emulator's thread. *)
EmuStep ==
  \/ RunFrame \/ CallBefore \/ Luajoypadset \/ SIO_CommandWrite \/ MemoryWrite \/ CpuReturns
  \/ PCSX2LuaFrameBoundary \/ CallAfter \/ BetweenFrames

LEMMA EmuKeeps ==
  ASSUME LuaInv, EmuStep
  PROVE  TypeOK' /\ EngineInv' /\ PrintedIsPosted'
<1> USE DEF EngineInv, ScriptsExclusive, PlacesFit, RunningFits, PrintedIsPosted
<1>0. TypeOK /\ EngineInv /\ PrintedIsPosted
  BY DEF LuaInv
<1> USE CallNames DEF TypeOK, EmuPc, DlgPc, Function
<1>1. CASE RunFrame \/ BetweenFrames
  BY <1>0, <1>1 DEF RunFrame, BetweenFrames, threads, engine, pads, window, history
<1>2. CASE CallBefore \/ MemoryWrite \/ CallAfter
  BY <1>0, <1>2 DEF CallBefore, MemoryWrite, CallAfter, CallRegisteredLuaFunctions, Enter, Unlock,
                    engine, pads, window, history
<1>3. CASE Luajoypadset
  BY <1>0, <1>3 DEF Luajoypadset, engine, window
<1>4. CASE SIO_CommandWrite
  BY <1>0, <1>4 DEF SIO_CommandWrite, usingjoypad, threads, engine, window
<1>5. CASE CpuReturns
  BY <1>0, <1>5 DEF CpuReturns, engine, pads, window
<1>6. CASE PCSX2LuaFrameBoundary
  BY <1>0, <1>6 DEF PCSX2LuaFrameBoundary, Enter, Unlock, window, history
<1> QED BY <1>1, <1>2, <1>3, <1>4, <1>5, <1>6 DEF EmuStep

LEMMA EmuFrame ==
  ASSUME LuaInv, EmuStep
  PROVE  FrameInv'
<1> USE DEF FrameInv, SourceFits, GameReadsOneSource
<1>0. TypeOK /\ PlacesFit /\ FrameInv /\ script \in [Thread -> Function]
  BY DEF LuaInv, TypeOK, EngineInv
<1>1. CASE RunFrame \/ BetweenFrames
  BY <1>0, <1>1 DEF RunFrame, BetweenFrames, threads, pads, history
<1>2. CASE CallBefore \/ MemoryWrite \/ CallAfter
  BY <1>0, <1>2, CallNames DEF CallBefore, MemoryWrite, CallAfter, CallRegisteredLuaFunctions, Enter, Unlock,
                    engine, pads, history
<1>3. CASE Luajoypadset
  BY <1>0, <1>3 DEF Luajoypadset, PlacesFit
<1>4. CASE SIO_CommandWrite
  <2>1. g_PadData # FromPad
    BY <1>0, PadIsNotFromPad DEF TypeOK
  <2> QED BY <1>0, <1>4, <2>1 DEF SIO_CommandWrite, usingjoypad, threads
<1>5. CASE CpuReturns
  BY <1>0, <1>5 DEF CpuReturns
<1>6. CASE PCSX2LuaFrameBoundary
  BY <1>0, <1>6 DEF PCSX2LuaFrameBoundary, Enter, Unlock, history
<1> QED BY <1>1, <1>2, <1>3, <1>4, <1>5, <1>6 DEF EmuStep

(* The steps of the window's thread. *)
DlgStep ==
  PressRun \/ PressStop \/ StopOrLoad \/ ReceiveUpdate \/ ShowText \/ CreateLuaWindow

LEMMA DlgKeeps ==
  ASSUME LuaInv, DlgStep
  PROVE  TypeOK' /\ EngineInv' /\ PrintedIsPosted'
<1> USE DEF EngineInv, ScriptsExclusive, PlacesFit, RunningFits, PrintedIsPosted
<1>0. TypeOK /\ EngineInv /\ PrintedIsPosted
  BY DEF LuaInv
<1> USE CallNames DEF TypeOK, EmuPc, DlgPc, Function
<1>1. CASE PressRun
  BY <1>0, <1>1 DEF PressRun, engine, pads, history
<1>2. CASE PressStop
  BY <1>0, <1>2 DEF PressStop, engine, pads, window, history
<1>3. CASE StopOrLoad
  BY <1>0, <1>3 DEF StopOrLoad, PCSX2LuaStop, Closed, Prints, PrintToWindowConsole, Load, LuaClose,
                    PCSX2LuaOnStop, Unlock, Enter, engine
<1>5. CASE ReceiveUpdate
  BY <1>0, <1>5 DEF ReceiveUpdate, engine, pads, history
<1>6. CASE ShowText
  BY <1>0, <1>6 DEF ShowText, engine, pads, history
<1>4. CASE CreateLuaWindow
  BY <1>0, <1>4 DEF CreateLuaWindow, threads, engine, pads, history
<1> QED BY <1>1, <1>2, <1>3, <1>4, <1>5, <1>6 DEF DlgStep

LEMMA DlgFrame ==
  ASSUME LuaInv, DlgStep
  PROVE  FrameInv'
<1> USE DEF FrameInv, SourceFits, GameReadsOneSource
<1>0. TypeOK /\ EngineInv /\ FrameInv /\ script \in [Thread -> Function]
  BY DEF LuaInv, TypeOK
<1>1. CASE PressRun \/ PressStop
  BY <1>0, <1>1 DEF PressRun, PressStop, pads, history
<1>2. CASE StopOrLoad
  BY <1>0, <1>2 DEF StopOrLoad, PCSX2LuaStop, Closed, Load, LuaClose, PCSX2LuaOnStop, Unlock, Enter,
                    engine
<1>3. CASE ReceiveUpdate \/ ShowText
  BY <1>0, <1>3 DEF ReceiveUpdate, ShowText, pads, history
<1>4. CASE CreateLuaWindow
  BY <1>0, <1>4 DEF CreateLuaWindow, threads, pads, history
<1> QED BY <1>1, <1>2, <1>3, <1>4 DEF DlgStep

LEMMA LuaStutter ==
  ASSUME LuaInv, UNCHANGED vars
  PROVE  LuaInv'
  BY DEF vars, threads, engine, pads, window, history, LuaInv, TypeOK, EngineInv, FrameInv,
         ScriptsExclusive, PlacesFit, RunningFits, SourceFits, GameReadsOneSource, PrintedIsPosted

(* The mutex, the places of the two threads, the coroutine, the input of the *)
(* frame and the text of the console stay consistent, for any pads and any   *)
(* script.                                                                   *)
THEOREM LuaInvariant == Spec => []LuaInv
<1>1. LuaInv /\ [Next]_vars => LuaInv'
  <2> SUFFICES ASSUME LuaInv, [Next]_vars PROVE LuaInv'
    OBVIOUS
  <2>1. CASE \E t \in Thread : Script(t)
    BY <2>1, ScriptType, ScriptEngine, ScriptFrame, ScriptText DEF LuaInv
  <2>2. CASE EmuStep
    BY <2>2, EmuKeeps, EmuFrame DEF LuaInv
  <2>3. CASE DlgStep
    BY <2>3, DlgKeeps, DlgFrame DEF LuaInv
  <2>4. CASE UNCHANGED vars
    BY <2>4, LuaStutter
  <2> QED BY <2>1, <2>2, <2>3, <2>4 DEF Next, EmuStep, DlgStep
<1> QED BY InitLua, <1>1, PTL DEF Spec

(* Only one thread is ever in the engine, and it is not closed under it. *)
THEOREM NeverEnteredTwice == Spec => []ScriptsExclusive
<1>1. LuaInv => ScriptsExclusive
  BY DEF LuaInv, EngineInv
<1> QED BY LuaInvariant, <1>1, PTL

(* A script that is called running can be resumed: whoever holds the mutex *)
(* when the coroutine is away gives it back with a coroutine that waits.   *)
THEOREM RunningCanResume == Spec => []RunningMeansWaiting
<1>1. LuaInv => RunningMeansWaiting
  BY DEF LuaInv, EngineInv, ScriptsExclusive, RunningFits, RunningMeansWaiting
<1> QED BY LuaInvariant, <1>1, PTL

(* In a frame that nobody disturbs the game reads one source of input. *)
THEOREM OneSourcePerFrame == Spec => []GameReadsOneSource
<1>1. LuaInv => GameReadsOneSource
  BY DEF LuaInv, FrameInv
<1> QED BY LuaInvariant, <1>1, PTL

(* No text stays behind in the console. *)
THEOREM TextIsShown == Spec => []PrintedIsPosted
<1>1. LuaInv => PrintedIsPosted
  BY DEF LuaInv
<1> QED BY LuaInvariant, <1>1, PTL
===============================================================================
