------------------------------- MODULE LuaEngine -------------------------------
(* Lua scripts (windows/Lua.cpp, windows/LuaDlg.cpp) and the frames they      *)
(* drive (RunFrame of WinSysExec.cpp, SIO_CommandWrite of Sio.cpp).  Two      *)
(* threads run them: the emulator's, which resumes the script's coroutine     *)
(* once a frame and calls the functions it registered, and that of the Lua    *)
(* window, which loads and stops it and shows what it prints.  The engine has *)
(* a mutex; what the emulator reads in the middle of a frame is not under it. *)
(*                                                                            *)
(* One controller port, whose six bytes are one value.  A script makes any    *)
(* calls in any order; its reads and writes of memory, "exp", and the value   *)
(* of the analog sticks, change nothing here.                                 *)
EXTENDS Naturals

CONSTANTS
  Pad,         \* values of the pad
  Calls        \* what a script registers functions for (LuaCallID)

ASSUME LuaEngineAssumption == Pad \subseteq 0 .. 255 /\ 0 \in Pad /\ Calls \subseteq {"before", "after", "exit", "write"}

VARIABLES
  scriptExecMtx,         \* the thread that holds the mutex, or "free"
  emuPc, dlgPc,          \* where the two threads are
  script,                \* per thread: the Lua function it is in, or "none"
  LUA, luaRunning, frameAdvanceWaiting,
  suspended,             \* is there a coroutine of the script that can be resumed
  callbacks,             \* the functions registered, by the call they are for
  memwriteaddr,          \* is an address watched
  lua_joypads_used, padData, g_PadData,
  replay,                \* is a movie replayed (g_Movie.File && g_Movie.Replay)
  g_ReturnToGui, hLuaDlg,
  consoleputstring,      \* is there text to show
  posted,                \* has IDC_LUACONSOLE_UPDATE been posted
  source,                \* history: what the game is to read in this frame, or FromPad
  disturbed,             \* history: was the joypad set or a script handled during it
  sio                    \* the last poll of the frame: what the pad had and what the game got

threads == <<scriptExecMtx, emuPc, dlgPc, script>>
engine == <<LUA, luaRunning, frameAdvanceWaiting, suspended, callbacks, memwriteaddr>>
pads == <<lua_joypads_used, padData, g_PadData>>
window == <<hLuaDlg, consoleputstring, posted>>
history == <<source, disturbed, sio>>
vars == <<threads, engine, pads, replay, g_ReturnToGui, window, history>>

Thread == {"emu", "dlg"}
FromPad == 256    \* no value of the pad
NoPoll == [had |-> FromPad, got |-> FromPad]

Init ==
  /\ scriptExecMtx = "free" /\ emuPc = "top" /\ dlgPc = "idle"
  /\ script = [t \in Thread |-> "none"]
  /\ LUA = FALSE /\ luaRunning = FALSE /\ frameAdvanceWaiting = FALSE
  /\ suspended = FALSE /\ callbacks = {} /\ memwriteaddr = FALSE
  /\ lua_joypads_used = FALSE
  /\ padData = 0 /\ g_PadData = padData
  /\ replay = FALSE /\ g_ReturnToGui = TRUE
  /\ hLuaDlg = TRUE /\ consoleputstring = FALSE /\ posted = FALSE
  /\ source = FromPad /\ disturbed = FALSE /\ sio = NoPoll

-----------------------------------------------------------------------------
(* The engine. *)

(* Mutant: the text is added before it is looked whether there was none. *)
PrintToWindowConsole_Mutant ==
  IF hLuaDlg
  THEN consoleputstring' = TRUE /\ UNCHANGED posted
  ELSE UNCHANGED <<consoleputstring, posted>>

(* print: the window's thread is told once, and not waited for. *)
PrintToWindowConsole ==
  IF hLuaDlg
  THEN consoleputstring' = TRUE /\ posted' = (posted \/ ~consoleputstring)
  ELSE UNCHANGED <<consoleputstring, posted>>

Prints(error) == IF error THEN PrintToWindowConsole ELSE UNCHANGED <<consoleputstring, posted>>

(* The thread goes on behind the function that locked the mutex. *)
Unlock(t) ==
  /\ scriptExecMtx' = "free"
  /\ script' = [script EXCEPT ![t] = "none"]
  /\ IF t = "emu"
     THEN /\ emuPc' = IF emuPc = "before" THEN "joypadset"
                    ELSE IF emuPc = "boundary" THEN "after"
                    ELSE IF emuPc = "after" THEN "top" ELSE "cpu"
          /\ UNCHANGED dlgPc
     ELSE dlgPc' = "idle" /\ UNCHANGED emuPc

Enter(t, function) ==
  /\ scriptExecMtx' = t
  /\ script' = [script EXCEPT ![t] = function]
  /\ UNCHANGED <<emuPc, dlgPc>>

(* PCSX2LuaOnStop. *)
PCSX2LuaOnStop == luaRunning' = FALSE /\ lua_joypads_used' = FALSE

(* The part of PCSX2LuaStop behind the function registered for the exit. *)
LuaClose ==
  /\ LUA' = FALSE /\ suspended' = FALSE /\ callbacks' = {} /\ memwriteaddr' = FALSE
  /\ PCSX2LuaOnStop
  /\ UNCHANGED frameAdvanceWaiting

(* PCSX2LoadLuaCode behind its call of PCSX2LuaStop: a script that does not *)
(* load leaves an engine without one, and an error for the window; one that *)
(* does runs at once, up to its first frameadvance, in the window's thread. *)
Load ==
  /\ LUA' = TRUE /\ callbacks' = {} /\ memwriteaddr' = FALSE
  /\ lua_joypads_used' = FALSE
  /\ suspended' = FALSE
  /\ \/ /\ luaRunning' = FALSE /\ Unlock("dlg") /\ Prints(TRUE)
        /\ UNCHANGED frameAdvanceWaiting
     \/ /\ luaRunning' = TRUE /\ frameAdvanceWaiting' = FALSE
        /\ Enter("dlg", "coroutine") /\ Prints(FALSE)

(* What follows the exit function: the window's thread may be loading, or an *)
(* error of the emulator's may have been the reason to stop.                 *)
Closed(t, error) ==
  IF t = "dlg" /\ dlgPc = "run"
  THEN Load /\ UNCHANGED hLuaDlg
  ELSE /\ LuaClose /\ Unlock(t) /\ Prints(error)
       /\ hLuaDlg' = (hLuaDlg /\ ~(t = "dlg" /\ dlgPc = "close"))

(* PCSX2LuaStop, with the mutex held. *)
PCSX2LuaStop(t, error) ==
  IF LUA /\ "exit" \in callbacks
  THEN Enter(t, "exit") /\ Prints(error) /\ UNCHANGED <<engine, lua_joypads_used, hLuaDlg>>
  ELSE Closed(t, error)

(* CallRegisteredLuaFunctions: the emulator's thread calls what is registered. *)
CallRegisteredLuaFunctions(call) ==
  /\ scriptExecMtx = "free"
  /\ IF LUA /\ call \in callbacks THEN Enter("emu", call) ELSE Unlock("emu")

-----------------------------------------------------------------------------
(* What a script does. *)

(* joypad.set *)
L_setJoyPad(t) ==
  /\ script[t] # "none"
  /\ padData' \in Pad /\ lua_joypads_used' = TRUE
  /\ disturbed' = (disturbed \/ emuPc = "cpu")
  /\ UNCHANGED <<threads, engine, g_PadData, replay, g_ReturnToGui, window, source, sio>>

(* The register functions: a function, or nil; an address stays watched. *)
registerfunction(t) ==
  /\ script[t] # "none"
  /\ \E call \in Calls :
       /\ callbacks' \in {callbacks \union {call}, callbacks \ {call}}
       /\ memwriteaddr' = (memwriteaddr \/ call = "write")
  /\ UNCHANGED <<threads, LUA, luaRunning, frameAdvanceWaiting, suspended, pads, replay, g_ReturnToGui, window, history>>

print(t) ==
  /\ script[t] # "none" /\ PrintToWindowConsole
  /\ UNCHANGED <<threads, engine, pads, replay, g_ReturnToGui, hLuaDlg, history>>

(* emu.clear *)
ClearWindowConsole(t) ==
  /\ script[t] # "none" /\ hLuaDlg
  /\ consoleputstring' = FALSE
  /\ UNCHANGED <<threads, engine, pads, replay, g_ReturnToGui, hLuaDlg, posted, history>>

(* A function that was registered returns. *)
CallbackReturns(t) ==
  /\ script[t] \in Calls
  /\ IF script[t] = "exit" THEN Closed(t, FALSE)
     ELSE Unlock(t) /\ UNCHANGED <<engine, lua_joypads_used, window>>
  /\ UNCHANGED <<padData, g_PadData, replay, g_ReturnToGui, history>>

(* It fails, or yields, which nobody is there to take: the script is stopped, *)
(* and an exit function that fails brings down the program (left out).        *)
CallbackFails(t) ==
  /\ script[t] \in Calls \ {"exit"}
  /\ PCSX2LuaStop(t, TRUE)
  /\ disturbed' = (disturbed \/ emuPc = "cpu")
  /\ UNCHANGED <<padData, g_PadData, replay, g_ReturnToGui, source, sio>>

(* frameadvance.  In a function that was registered it fails with the flag *)
(* set, or because it is set.                                              *)
frameadvance(t) ==
  /\ script[t] # "none" /\ ~frameAdvanceWaiting
  /\ frameAdvanceWaiting' = TRUE
  /\ UNCHANGED <<LUA, luaRunning, callbacks, memwriteaddr, pads, replay, g_ReturnToGui, window, history>>
  /\ \/ script[t] = "coroutine" /\ suspended' = TRUE /\ Unlock(t)
     \/ UNCHANGED <<scriptExecMtx, emuPc, dlgPc, script, suspended>>    \* in a coroutine of the script's own

(* Mutant: a yield that is no frameadvance leaves the script running. *)
CoroutineStops_Mutant(t) ==
  /\ script[t] = "coroutine"
  /\ \/ suspended' = TRUE /\ UNCHANGED <<luaRunning, lua_joypads_used, consoleputstring, posted>>
     \/ suspended' = FALSE /\ PCSX2LuaOnStop /\ UNCHANGED <<consoleputstring, posted>>
     \/ suspended' = FALSE /\ PCSX2LuaOnStop /\ PrintToWindowConsole
  /\ Unlock(t)
  /\ UNCHANGED <<LUA, frameAdvanceWaiting, callbacks, memwriteaddr, padData, g_PadData,
                 replay, g_ReturnToGui, hLuaDlg, history>>

(* The script yields otherwise, ends or fails: PCSX2LuaFrameBoundary behind  *)
(* lua_resume.                                                               *)
CoroutineStops(t) ==
  /\ script[t] = "coroutine"
  /\ \/ /\ suspended' = TRUE
        /\ IF frameAdvanceWaiting THEN UNCHANGED <<luaRunning, lua_joypads_used>> ELSE PCSX2LuaOnStop
        /\ UNCHANGED <<consoleputstring, posted>>
     \/ suspended' = FALSE /\ PCSX2LuaOnStop /\ UNCHANGED <<consoleputstring, posted>>
     \/ suspended' = FALSE /\ PCSX2LuaOnStop /\ PrintToWindowConsole
  /\ Unlock(t)
  /\ UNCHANGED <<LUA, frameAdvanceWaiting, callbacks, memwriteaddr, padData, g_PadData,
                 replay, g_ReturnToGui, hLuaDlg, history>>

Script(t) ==
  \/ L_setJoyPad(t) \/ registerfunction(t) \/ print(t) \/ ClearWindowConsole(t)
  \/ CallbackReturns(t) \/ CallbackFails(t) \/ frameadvance(t) \/ CoroutineStops(t)

-----------------------------------------------------------------------------
(* The emulator's thread: RunFrame. *)

(* A frame starts unless the user is in the GUI or has paused. *)
RunFrame ==
  /\ emuPc = "top" /\ ~g_ReturnToGui
  /\ emuPc' = "before"
  /\ UNCHANGED <<scriptExecMtx, dlgPc, script, engine, pads, replay, g_ReturnToGui, window, history>>

CallBefore ==
  /\ emuPc = "before" /\ script["emu"] = "none"
  /\ CallRegisteredLuaFunctions("before")
  /\ UNCHANGED <<engine, pads, replay, g_ReturnToGui, window, history>>

(* Mutant: what the script set is copied over the frame of the movie. *)
Luajoypadset_Mutant ==
  /\ emuPc = "joypadset" /\ emuPc' = "cpu"
  /\ \E movie \in Pad :
       /\ source' = IF replay THEN movie ELSE IF lua_joypads_used THEN padData ELSE FromPad
       /\ g_PadData' = IF lua_joypads_used THEN padData ELSE IF replay THEN movie ELSE g_PadData
  /\ disturbed' = (dlgPc # "idle")
  /\ UNCHANGED <<scriptExecMtx, dlgPc, script, engine, lua_joypads_used, padData, replay,
                 g_ReturnToGui, window, sio>>

(* Luajoypadset, and the frame of the movie that is replayed. *)
Luajoypadset ==
  /\ emuPc = "joypadset" /\ emuPc' = "cpu"
  /\ \/ /\ replay
        /\ g_PadData' \in Pad /\ source' = g_PadData'
     \/ /\ ~replay /\ lua_joypads_used
        /\ g_PadData' = padData /\ source' = padData
     \/ /\ ~replay /\ ~lua_joypads_used
        /\ source' = FromPad /\ UNCHANGED g_PadData
  /\ disturbed' = (dlgPc # "idle")
  /\ UNCHANGED <<scriptExecMtx, dlgPc, script, engine, lua_joypads_used, padData, replay,
                 g_ReturnToGui, window, sio>>

(* usingjoypad *)
usingjoypad == ~replay /\ lua_joypads_used

(* SIO_CommandWrite: the game polls the pad. *)
SIO_CommandWrite ==
  /\ emuPc = "cpu" /\ script["emu"] = "none"
  /\ \E had \in Pad :
       LET lua == IF usingjoypad THEN g_PadData ELSE had
           got == IF replay THEN g_PadData ELSE lua IN
         /\ sio' = [had |-> had, got |-> got]
         /\ g_PadData' = got
  /\ UNCHANGED <<threads, engine, lua_joypads_used, padData, replay, g_ReturnToGui, window, source, disturbed>>

(* The game writes to the address that is watched. *)
MemoryWrite ==
  /\ emuPc = "cpu" /\ script["emu"] = "none" /\ memwriteaddr
  /\ CallRegisteredLuaFunctions("write")
  /\ UNCHANGED <<engine, pads, replay, g_ReturnToGui, window, history>>

CpuReturns ==
  /\ emuPc = "cpu" /\ script["emu"] = "none"
  /\ emuPc' = "boundary"
  /\ source' = FromPad /\ disturbed' = FALSE /\ sio' = NoPoll
  /\ UNCHANGED <<scriptExecMtx, dlgPc, script, engine, pads, replay, g_ReturnToGui, window>>

(* PCSX2LuaFrameBoundary, as far as lua_resume. *)
PCSX2LuaFrameBoundary ==
  /\ emuPc = "boundary" /\ script["emu"] = "none"
  /\ scriptExecMtx = "free"
  /\ lua_joypads_used' = FALSE
  /\ IF LUA /\ luaRunning
     THEN Enter("emu", "coroutine") /\ frameAdvanceWaiting' = FALSE /\ suspended' = FALSE
     ELSE Unlock("emu") /\ UNCHANGED <<frameAdvanceWaiting, suspended>>
  /\ UNCHANGED <<LUA, luaRunning, callbacks, memwriteaddr, padData, g_PadData, replay,
                 g_ReturnToGui, window, history>>

CallAfter ==
  /\ emuPc = "after" /\ script["emu"] = "none"
  /\ CallRegisteredLuaFunctions("after")
  /\ UNCHANGED <<engine, pads, replay, g_ReturnToGui, window, history>>

(* Between frames: a replay starts or ends, the user goes to the GUI and back. *)
BetweenFrames ==
  /\ emuPc = "top"
  /\ replay' \in BOOLEAN /\ g_ReturnToGui' \in BOOLEAN
  /\ UNCHANGED <<threads, engine, pads, window, history>>

-----------------------------------------------------------------------------
(* The thread of the window. *)

(* IDC_BUTTON_LUARUN: refused in the GUI. *)
PressRun ==
  /\ dlgPc = "idle" /\ hLuaDlg /\ ~g_ReturnToGui
  /\ dlgPc' = "run" /\ consoleputstring' = FALSE
  /\ UNCHANGED <<scriptExecMtx, emuPc, script, engine, pads, replay, g_ReturnToGui, hLuaDlg, posted, history>>

(* IDC_BUTTON_LUASTOP, and WM_CLOSE, which destroys the window. *)
PressStop ==
  /\ dlgPc = "idle" /\ hLuaDlg
  /\ dlgPc' \in {"stop", "close"}
  /\ UNCHANGED <<scriptExecMtx, emuPc, script, engine, pads, replay, g_ReturnToGui, window, history>>

(* Mutant: the mutex is not waited for. *)
StopOrLoad_Mutant ==
  /\ dlgPc \in {"run", "stop", "close"} /\ script["dlg"] = "none"
  /\ PCSX2LuaStop("dlg", FALSE)
  /\ disturbed' = (disturbed \/ emuPc = "cpu")
  /\ UNCHANGED <<padData, g_PadData, replay, g_ReturnToGui, source, sio>>

(* PCSX2LoadLuaCode and PCSX2LuaStop, from the lock. *)
StopOrLoad ==
  /\ dlgPc \in {"run", "stop", "close"} /\ script["dlg"] = "none"
  /\ scriptExecMtx = "free"
  /\ PCSX2LuaStop("dlg", FALSE)
  /\ disturbed' = (disturbed \/ emuPc = "cpu")
  /\ UNCHANGED <<padData, g_PadData, replay, g_ReturnToGui, source, sio>>

(* IDC_LUACONSOLE_UPDATE *)
ReceiveUpdate ==
  /\ dlgPc = "idle" /\ hLuaDlg /\ posted
  /\ dlgPc' = "update" /\ posted' = FALSE
  /\ UNCHANGED <<scriptExecMtx, emuPc, script, engine, pads, replay, g_ReturnToGui, hLuaDlg,
                 consoleputstring, history>>

ShowText ==
  /\ dlgPc = "update" /\ scriptExecMtx = "free"
  /\ dlgPc' = "idle" /\ consoleputstring' = FALSE
  /\ UNCHANGED <<scriptExecMtx, emuPc, script, engine, pads, replay, g_ReturnToGui, hLuaDlg, posted, history>>

(* CreateLuaWindow. *)
CreateLuaWindow ==
  /\ dlgPc = "idle" /\ ~hLuaDlg
  /\ hLuaDlg' = TRUE /\ consoleputstring' = FALSE /\ posted' = FALSE
  /\ UNCHANGED <<threads, engine, pads, replay, g_ReturnToGui, history>>

-----------------------------------------------------------------------------
Next ==
  \/ \E t \in Thread : Script(t)
  \/ RunFrame \/ CallBefore \/ Luajoypadset \/ SIO_CommandWrite \/ MemoryWrite \/ CpuReturns
  \/ PCSX2LuaFrameBoundary \/ CallAfter \/ BetweenFrames
  \/ PressRun \/ PressStop \/ StopOrLoad \/ ReceiveUpdate \/ ShowText \/ CreateLuaWindow

Spec == Init /\ [][Next]_vars

-----------------------------------------------------------------------------
(* Only one thread is ever in the Lua engine, and the engine is not closed   *)
(* under it, although either thread may stop or replace the script; and the   *)
(* mutex is held by nobody else, so that a script that comes to an end is all *)
(* that anybody ever waits for.                                               *)
ScriptsExclusive ==
  \A t \in Thread :
    /\ script[t] # "none" => LUA
    /\ script[t] # "none" <=> scriptExecMtx = t

(* Between the calls of the engine, a script that is called running has an  *)
(* engine and a coroutine waiting in a frameadvance: the next frame never    *)
(* resumes one that ended, failed or belongs to a script that was replaced.  *)
RunningMeansWaiting ==
  luaRunning /\ scriptExecMtx = "free" => LUA /\ suspended /\ frameAdvanceWaiting

(* In a frame that nobody disturbs, whatever the game polls is of one source, *)
(* decided before the frame: the movie that is replayed, what the script set *)
(* since the frame before, or the pad.                                       *)
GameReadsOneSource ==
  emuPc = "cpu" /\ sio # NoPoll /\ ~disturbed =>
    sio.got = IF source = FromPad THEN sio.had ELSE source

(* What a script prints does not stay behind: while there is text, the window *)
(* has been told or is about to show it, although the text is taken, cleared   *)
(* and added to by two threads, and the window told only when there was none.  *)
PrintedIsPosted == hLuaDlg /\ consoleputstring => posted \/ dlgPc = "update"
===============================================================================
