---------------------------- MODULE PluginLifecycle ----------------------------
(* How the Windows front end starts, puts aside, resumes, saves and replaces *)
(* a game (WinSysExec.cpp, WinMain.cpp and its dialogs), and what that does  *)
(* to the plugins (Plugins.cpp, gsOpen and mtgsOpen).  Escape closes the     *)
(* plugins and returns to the GUI; what they hold of the game has to be kept *)
(* in g_gsRecoveryState or g_RecoveryState until the game is resumed, while  *)
(* plugins fail to open and options change; a GSopen that fails in the GS    *)
(* thread ends the program.                                                  *)
(*                                                                           *)
(* The state of the machine is in four places, each stamped with the last    *)
(* frame it knows: the memory and processors of the emulator, the GS         *)
(* registers, the GS plugin, and the SPU2 plugin.  "SPU2" stands for SPU2,   *)
(* DEV9, USB and FW, "PAD" for both pads.  LoadPlugins and the inits are     *)
(* taken to succeed.  A plugin that cannot load its state, and a GS that     *)
(* cannot save it, throw what nobody catches and end the program: left out,  *)
(* as are the escape hack, test runs and the debugger.                       *)
EXTENDS Integers

CONSTANTS
  Faults,      \* what may fail: "open" (a plugin), "thread" (the creation of one),
               \* "freeze" (the state of one), "load" (a savestate)
  MaxFrame     \* bound of the model on the frames run (OneSave bounds the savestates)

ASSUME PluginLifecycleAssumption ==
  /\ Faults \subseteq {"open", "thread", "freeze", "load"}
  /\ MaxFrame \in Nat \ {0}

VARIABLES
  loadp, initp, open,    \* Plugins.cpp: libraries loaded, plugins initialised, OpenStatus
  mtgsThread,            \* "none", "runs", or "dead": left behind by a GSopen that failed
  machine,               \* the four places
  g_RecoveryState,       \* the whole machine in memory, or NoMachine
  g_gsRecoveryState,     \* the GS alone: plugin and registers, or NoGs
  g_EmulationInProgress, sinit,
  multigs, closeGSonEsc, \* Config
  slot,                  \* a savestate on disk, or NoMachine
  frame,                 \* frames run so far
  pc,                    \* "gui", "run", "ended", or the function called next
  kept                   \* history: the frame of a game put aside, or None

plugins == <<loadp, initp, open, mtgsThread>>
recovery == <<g_RecoveryState, g_gsRecoveryState>>
config == <<multigs, closeGSonEsc>>
vars == <<plugins, machine, recovery, g_EmulationInProgress, sinit, config, slot, frame, pc, kept>>

None == -1      \* no state
Lost == -2      \* what a plugin that was closed or shut down holds
Length == -3    \* a length, where one is stored before what it counts
Ruined == -4    \* memory half loaded

Plugins == {"CDVD", "GS", "PAD", "SPU2"}
Whole(n) == [ee |-> n, regs |-> n, gs |-> n, spu |-> n]
NoMachine == Whole(None)
NoGs == [gs |-> None, len |-> None, regs |-> None]

Init ==
  /\ loadp = TRUE /\ initp = FALSE /\ open = {} /\ mtgsThread = "none"
  /\ machine = [Whole(0) EXCEPT !.gs = Lost]
  /\ g_RecoveryState = NoMachine /\ g_gsRecoveryState = NoGs
  /\ g_EmulationInProgress = FALSE /\ sinit = TRUE
  /\ multigs \in BOOLEAN /\ closeGSonEsc \in BOOLEAN
  /\ slot = NoMachine /\ frame = 0
  /\ pc = "gui" /\ kept = None

-----------------------------------------------------------------------------
(* The plugins. *)

(* gsClose and the other closes. *)
Close(which) ==
  /\ open' = open \ which
  /\ mtgsThread' = IF "GS" \in which \intersect open THEN "none" ELSE mtgsThread
ClosePlugins(closegs) == Close(IF closegs THEN Plugins ELSE Plugins \ {"GS"})
AfterClose(m) == [m EXCEPT !.gs = Lost]

(* OpenPlugins, which initialises first: all open; one fails, and all are   *)
(* closed; or GSopen fails in its thread, and what mtgsOpen throws escapes, *)
(* with the plugins before it left open.                                    *)
AfterInit(m) == IF initp THEN m ELSE [m EXCEPT !.spu = Lost]
AfterOpen(m) == IF "GS" \in open THEN AfterInit(m) ELSE [AfterInit(m) EXCEPT !.gs = 0]

OpenSucceeds ==
  /\ loadp' = TRUE /\ initp' = TRUE
  /\ open' = Plugins
  /\ \/ "GS" \in open /\ UNCHANGED mtgsThread
     \/ "GS" \notin open /\ multigs /\ mtgsThread' = "runs"
     \/ "GS" \notin open /\ multigs /\ "thread" \in Faults /\ mtgsThread' = "none"
     \/ "GS" \notin open /\ ~multigs /\ UNCHANGED mtgsThread

OpenFails ==
  /\ "open" \in Faults /\ open # Plugins
  /\ loadp' = TRUE /\ initp' = TRUE
  /\ open' = {}
  /\ mtgsThread' \in IF "GS" \in open THEN {"none"} ELSE {mtgsThread, "none"}

OpenThrows ==
  /\ "open" \in Faults /\ multigs /\ "GS" \notin open
  /\ loadp' = TRUE /\ initp' = TRUE
  /\ open' = open \union {"CDVD"}
  /\ mtgsThread' = "dead"

(* ShutdownPlugins. *)
ShutdownPlugins_Mutant ==
  IF initp
  THEN /\ initp' = FALSE
       /\ machine' = [AfterClose(machine) EXCEPT !.spu = Lost]
       /\ UNCHANGED <<open, mtgsThread>>
  ELSE UNCHANGED <<open, mtgsThread, machine, initp>>

ShutdownPlugins ==
  IF initp
  THEN /\ Close(Plugins)
       /\ machine' = [AfterClose(machine) EXCEPT !.spu = Lost]
       /\ initp' = FALSE
  ELSE UNCHANGED <<open, mtgsThread, machine, initp>>

(* ReleasePlugins, and LoadPlugins which follows it. *)
ReleasePlugins == ShutdownPlugins /\ loadp' = FALSE
ReloadPlugins == ShutdownPlugins /\ loadp' = TRUE

(* ResetPlugins: ShutdownPlugins and InitPlugins. *)
ResetPlugins ==
  /\ IF initp THEN Close(Plugins) ELSE UNCHANGED <<open, mtgsThread>>
  /\ machine' = [machine EXCEPT !.gs = IF initp THEN Lost ELSE @, !.spu = Lost]
  /\ initp' = TRUE /\ loadp' = TRUE

(* PluginsResetGS: the pads are tied to the window of the GS. *)
PluginsResetGS ==
  /\ Close({"PAD", "GS"})
  /\ machine' = AfterClose(machine)
  /\ UNCHANGED <<loadp, initp>>

-----------------------------------------------------------------------------
(* The machine. *)

(* cpuReset, with gsReset when the GS is open. *)
AfterReset(m) ==
  IF "GS" \in open
  THEN [m EXCEPT !.ee = 0, !.regs = 0, !.gs = 0]
  ELSE [m EXCEPT !.ee = 0]

(* What JustGsSavingState keeps of the GS, and what the two savestates that  *)
(* use it make of it.  The one for the disk starts four bytes too early and  *)
(* takes the length of the registers for the first of them.                  *)
GsPart == [gs |-> machine.gs, len |-> Length, regs |-> machine.regs]

RecoveryMemSavingState ==
  IF g_gsRecoveryState = NoGs THEN machine
  ELSE [machine EXCEPT !.gs = g_gsRecoveryState.gs, !.regs = g_gsRecoveryState.regs]

RecoveryZipSavingState ==
  IF g_gsRecoveryState = NoGs THEN machine
  ELSE [machine EXCEPT !.gs = g_gsRecoveryState.gs, !.regs = g_gsRecoveryState.len]

-----------------------------------------------------------------------------
(* Emulation. *)

(* RunFrame, in the loop of ExecuteCpu.  A place that knew the frame before   *)
(* knows this one, and a new game sets up what it finds.  With a dead thread  *)
(* for the GS, nobody reads the ring and the emulator hangs.                  *)
RunFrame ==
  /\ pc = "run" /\ frame < MaxFrame
  /\ frame' = frame + 1
  /\ LET Follow(place) == IF machine.ee \in {0, place} THEN frame' ELSE Lost IN
     machine' = [ee |-> frame', regs |-> Follow(machine.regs), gs |-> Follow(machine.gs),
                 spu |-> Follow(machine.spu)]
  /\ pc' = IF mtgsThread = "dead" THEN "ended" ELSE "run"
  /\ UNCHANGED <<plugins, recovery, g_EmulationInProgress, sinit, config, slot, kept>>

(* The escape key.  With closeGSonEsc, the default, the game is put aside. *)
Escape ==
  /\ pc = "run"
  /\ IF closeGSonEsc
     THEN /\ g_gsRecoveryState' = GsPart /\ g_RecoveryState' = NoMachine
          /\ machine' = AfterClose(machine)
          /\ kept' = IF machine.ee # 0 /\ machine = Whole(machine.ee) THEN machine.ee ELSE None
     ELSE UNCHANGED <<recovery, machine, kept>>
  /\ ClosePlugins(closeGSonEsc)
  /\ pc' = "gui"
  /\ UNCHANGED <<loadp, initp, g_EmulationInProgress, sinit, config, slot, frame>>

(* F1 and F3.  The model saves at most once. *)
OneSave == slot = NoMachine

SaveSlot ==
  /\ pc = "run" /\ OneSave
  /\ slot' = machine
  /\ UNCHANGED <<plugins, machine, recovery, g_EmulationInProgress, sinit, config, frame, pc, kept>>

LoadSlot ==
  /\ pc = "run" /\ slot # NoMachine
  /\ \/ /\ machine' = slot
        /\ UNCHANGED <<open, mtgsThread, g_EmulationInProgress, pc>>
     \/ /\ "load" \in Faults
        /\ machine' = AfterClose([machine EXCEPT !.ee = Ruined])
        /\ ClosePlugins(TRUE)
        /\ g_EmulationInProgress' = FALSE
        /\ pc' = "gui"
  /\ UNCHANGED <<loadp, initp, recovery, sinit, config, slot, frame, kept>>

-----------------------------------------------------------------------------
(* Starting and resuming. *)

(* RunExecute, with an ELF file or without: the machine is reset, and then *)
(* the recovery state is loaded, or the game, or nothing when ExecuteCpu   *)
(* has a GS to recover.  What mtgsOpen throws reaches WinMain.             *)
RunExecute(elf) ==
  /\ pc = IF elf THEN "RunExecute elf" ELSE "RunExecute"
  /\ LET m == AfterInit(AfterReset(machine)) IN
     \/ /\ OpenSucceeds
        /\ machine' = IF g_RecoveryState # NoMachine /\ ~elf THEN g_RecoveryState ELSE AfterOpen(m)
        /\ pc' = "ExecuteCpu"
     \/ OpenFails /\ machine' = AfterClose(m) /\ pc' = "gui"
     \/ OpenThrows /\ machine' = m /\ pc' = "ended"
  /\ UNCHANGED <<recovery, g_EmulationInProgress, sinit, config, slot, frame, kept>>

(* TryRecoverFromGsState: the registers, and what the plugin had saved. *)
TryRecoverFromGsState_Mutant(m) == [m EXCEPT !.gs = g_gsRecoveryState.gs, !.regs = g_gsRecoveryState.len]

TryRecoverFromGsState(m) == [m EXCEPT !.gs = g_gsRecoveryState.gs, !.regs = g_gsRecoveryState.regs]

(* ExecuteCpu, as far as the loop. *)
ExecuteCpu ==
  /\ pc = "ExecuteCpu"
  /\ g_RecoveryState' = NoMachine
  /\ LET m == AfterInit(machine) IN
     \/ /\ OpenSucceeds
        /\ machine' = IF g_gsRecoveryState = NoGs THEN AfterOpen(m) ELSE TryRecoverFromGsState(m)
        /\ g_gsRecoveryState' = NoGs
        /\ g_EmulationInProgress' = TRUE
        /\ pc' = "run" /\ kept' = None
     \/ /\ OpenFails /\ machine' = AfterClose(m) /\ pc' = "gui"
        /\ UNCHANGED <<g_gsRecoveryState, g_EmulationInProgress, kept>>
     \/ /\ OpenThrows /\ machine' = m /\ pc' = "ended"
        /\ UNCHANGED <<g_gsRecoveryState, g_EmulationInProgress, kept>>
  /\ UNCHANGED <<sinit, config, slot, frame>>

(* States_Load, from the menu: the failure of OpenPlugins goes unnoticed, and *)
(* a GS that is not open gets nothing.  What FreezeAll or mtgsOpen throws is  *)
(* caught, and SysClose called.  A file of an old version changes nothing.    *)
States_Load ==
  /\ pc = "gui" /\ slot # NoMachine
  /\ \/ OpenSucceeds /\ machine' = slot /\ pc' = "ExecuteCpu"
     \/ OpenFails /\ machine' = AfterClose(slot) /\ pc' = "ExecuteCpu"
     \/ /\ "load" \in Faults /\ (OpenSucceeds \/ OpenFails)
        /\ machine' = [machine EXCEPT !.ee = Ruined] /\ pc' = "SysClose"
     \/ OpenThrows /\ machine' = AfterReset(machine) /\ pc' = "SysClose"
  /\ kept' = None
  /\ UNCHANGED <<recovery, g_EmulationInProgress, sinit, config, slot, frame>>

(* SysClose: ClosePlugins and ReleasePlugins, once. *)
SysClose ==
  /\ pc = "SysClose" /\ pc' = "gui"
  /\ IF sinit
     THEN ReleasePlugins /\ sinit' = FALSE
     ELSE UNCHANGED <<plugins, machine, sinit>>
  /\ UNCHANGED <<recovery, g_EmulationInProgress, config, slot, frame, kept>>

-----------------------------------------------------------------------------
(* The GUI. *)

Run ==
  /\ pc = "gui"
  /\ pc' = IF g_EmulationInProgress THEN "ExecuteCpu" ELSE "RunExecute"
  /\ UNCHANGED <<plugins, machine, recovery, g_EmulationInProgress, sinit, config, slot, frame, kept>>

OpenFile ==
  /\ pc = "gui" /\ pc' = "RunExecute elf"
  /\ kept' = None
  /\ UNCHANGED <<plugins, machine, recovery, g_EmulationInProgress, sinit, config, slot, frame>>

(* SysReset, which a SysClose has made ineffective, alone or before RunCD. *)
Forget ==
  /\ g_EmulationInProgress' = FALSE
  /\ g_RecoveryState' = NoMachine /\ g_gsRecoveryState' = NoGs
  /\ ResetPlugins

SysReset ==
  /\ pc = "gui" /\ pc' \in {"gui", "RunExecute"}
  /\ IF sinit THEN Forget ELSE UNCHANGED <<plugins, machine, recovery, g_EmulationInProgress>>
  /\ kept' = None
  /\ UNCHANGED <<sinit, config, slot, frame>>

(* MovieRecord and MoviePlay: SysClose, SysInit and SysReset. *)
StartMovie ==
  /\ pc = "gui" /\ pc' = "RunExecute"
  /\ Forget
  /\ sinit' = TRUE
  /\ kept' = None
  /\ UNCHANGED <<config, slot, frame>>

SysRestorableReset_Mutant ==
  IF g_EmulationInProgress /\ g_RecoveryState = NoMachine
  THEN /\ g_RecoveryState' = machine
       /\ g_gsRecoveryState' = NoGs
       /\ g_EmulationInProgress' = FALSE
       /\ UNCHANGED kept
  ELSE UNCHANGED <<recovery, g_EmulationInProgress, kept>>

(* SysRestorableReset, before a change of the configuration.  When a plugin *)
(* cannot save its state, the user is told so and the change goes on.       *)
SysRestorableReset ==
  IF g_EmulationInProgress /\ g_RecoveryState = NoMachine
  THEN /\ loadp
       /\ \/ /\ g_RecoveryState' = RecoveryMemSavingState
             /\ g_gsRecoveryState' = NoGs
             /\ g_EmulationInProgress' = FALSE
             /\ UNCHANGED kept
          \/ /\ "freeze" \in Faults
             /\ kept' = None
             /\ UNCHANGED <<recovery, g_EmulationInProgress>>
  ELSE UNCHANGED <<recovery, g_EmulationInProgress, kept>>

(* The dialogs of hacks, game fixes and advanced options. *)
ChangeOptions ==
  /\ pc = "gui" /\ SysRestorableReset
  /\ UNCHANGED <<plugins, machine, sinit, config, slot, frame, pc>>

(* Pcsx2Configure: ReleasePlugins, and LoadPlugins after it. *)
Configure ==
  /\ pc = "gui" /\ SysRestorableReset
  /\ ReloadPlugins
  /\ UNCHANGED <<sinit, config, slot, frame, pc>>

(* The dialog of the CPU, when it changes the multithreaded GS. *)
ChangeMultigs ==
  /\ pc = "gui" /\ SysRestorableReset
  /\ PluginsResetGS
  /\ multigs' = ~multigs
  /\ UNCHANGED <<closeGSonEsc, sinit, slot, frame, pc>>

ChangeCloseGS ==
  /\ pc = "gui"
  /\ closeGSonEsc' = ~closeGSonEsc
  /\ UNCHANGED <<plugins, machine, recovery, g_EmulationInProgress, sinit, multigs, slot, frame, pc, kept>>

(* States_Save, to a slot or to a file of the user's choice, which is saved *)
(* without a look at what there is to save.                                 *)
States_Save(toSlot) ==
  /\ pc = "gui" /\ OneSave
  /\ toSlot => g_RecoveryState # NoMachine \/ g_EmulationInProgress
  /\ \/ toSlot /\ g_RecoveryState # NoMachine /\ slot' = g_RecoveryState
     \/ ~(toSlot /\ g_RecoveryState # NoMachine) /\ loadp /\ slot' = RecoveryZipSavingState
  /\ UNCHANGED <<plugins, machine, recovery, g_EmulationInProgress, sinit, config, frame, pc, kept>>

(* FreezeAll calls the plugins, whose libraries the SysClose after a load *)
(* that failed has unloaded.                                              *)
FreezeUnloaded ==
  /\ pc = "gui" /\ ~loadp
  /\ pc' = "ended"
  /\ UNCHANGED <<plugins, machine, recovery, g_EmulationInProgress, sinit, config, slot, frame, kept>>

-----------------------------------------------------------------------------
Next ==
  \/ RunFrame \/ Escape \/ SaveSlot \/ LoadSlot
  \/ \E elf \in BOOLEAN : RunExecute(elf)
  \/ ExecuteCpu \/ States_Load \/ SysClose
  \/ Run \/ OpenFile \/ SysReset \/ StartMovie
  \/ ChangeOptions \/ Configure \/ ChangeMultigs \/ ChangeCloseGS
  \/ \E toSlot \in BOOLEAN : States_Save(toSlot)
  \/ FreezeUnloaded

Spec == Init /\ [][Next]_vars

-----------------------------------------------------------------------------
(* A library is never unloaded or shut down under an open plugin; the pads,   *)
(* which attach to the window of the GS, are open only while it is; a frame   *)
(* is run only with everything open; and the thread of the GS lives only as   *)
(* long as the GS is open and the option says so, whatever failed to open and *)
(* whatever was reconfigured in between.  The other way round, which gsClose  *)
(* asserts as well (GS.cpp:232), does not hold: without a thread created the  *)
(* GS opens on the calling thread while the option stays on.                  *)
PluginsInOrder ==
  /\ open # {} => loadp /\ initp
  /\ "PAD" \in open => "GS" \in open
  /\ pc = "run" => open = Plugins
  /\ mtgsThread = "runs" => "GS" \in open /\ multigs

(* All of a game that was put aside with closeGSonEsc is in memory until it  *)
(* is resumed, replaced, or the user is told that saving it failed, whatever *)
(* options are changed and whichever plugin fails to open, but for one       *)
(* failure: a GSopen that fails in the GS thread, whose exception (thrown at *)
(* MTGS.cpp:225, not among those caught at 1061) closes the program and      *)
(* takes the game with it.  Nothing else ends the program over it.           *)
KeptGameSurvives ==
  kept # None =>
    IF pc = "ended" THEN mtgsThread = "dead"
    ELSE \/ g_RecoveryState = Whole(kept)
         \/ /\ g_EmulationInProgress /\ g_RecoveryState = NoMachine
            /\ machine.ee = kept /\ machine.spu = kept
            /\ g_gsRecoveryState = [gs |-> kept, len |-> Length, regs |-> kept]

(* When it is resumed, it goes on as it was: memory, registers and plugins *)
(* of the frame it was left at, and none of it from another game.          *)
ResumesWhole ==
  [][pc = "ExecuteCpu" /\ pc' = "run" /\ kept # None => machine' = Whole(kept)]_vars

(* The registers of the GS in a savestate are registers ("the normal         *)
(* savestate doesn't expect a length prefix", the comment of                 *)
(* RecoveryZipSavingState::gsFreeze).                                        *)
RegistersSaved == slot # NoMachine => slot.regs # Length
===============================================================================
