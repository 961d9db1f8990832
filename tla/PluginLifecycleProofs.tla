------------------------- MODULE PluginLifecycleProofs -------------------------
(* Proofs about the plugins and a game that is put aside.  A game is kept     *)
(* either in the machine and g_gsRecoveryState, or in g_RecoveryState, and    *)
(* never half in each: the strengthening says which, that no emulation counts *)
(* as in progress while g_RecoveryState is set, and that the run that loads   *)
(* it finds every plugin open, so that ExecuteCpu has nothing left to open;   *)
(* and that its libraries stay loaded, so that nothing ends the program over  *)
(* it but the exception of a GSopen that fails in the GS thread.              *)
EXTENDS PluginLifecycle, TLAPS

Machine == [ee : Int, regs : Int, gs : Int, spu : Int]
Pc == {"gui", "run", "ended", "RunExecute", "RunExecute elf", "ExecuteCpu", "SysClose"}

TypeOK ==
  /\ {loadp, initp, g_EmulationInProgress, sinit, multigs, closeGSonEsc} \subseteq BOOLEAN
  /\ open \subseteq Plugins
  /\ mtgsThread \in {"none", "runs", "dead"}
  /\ machine \in Machine /\ g_RecoveryState \in Machine /\ slot \in Machine
  /\ g_gsRecoveryState \in [gs : Int, len : Int, regs : Int]
  /\ frame \in Nat /\ kept \in Int /\ pc \in Pc

(* Where the game that was put aside is. *)
InMemory ==
  /\ g_RecoveryState = Whole(kept) /\ g_gsRecoveryState = NoGs
  /\ pc = "ExecuteCpu" => machine = Whole(kept) /\ open = Plugins /\ initp

InMachine ==
  /\ g_EmulationInProgress /\ g_RecoveryState = NoMachine /\ initp
  /\ machine.ee = kept /\ machine.spu = kept
  /\ g_gsRecoveryState = [gs |-> kept, len |-> Length, regs |-> kept]

ProgressFits ==
  /\ pc = "run" => g_EmulationInProgress /\ kept = None
  /\ pc \in {"RunExecute elf", "SysClose"} => kept = None
  /\ pc = "RunExecute" /\ kept # None => ~g_EmulationInProgress
  /\ g_RecoveryState # NoMachine => ~g_EmulationInProgress

KeptSomewhere == kept # None /\ pc # "ended" => InMemory \/ InMachine

(* The libraries stay loaded under the game, and only a dead thread of the GS *)
(* ends the program over it.                                                  *)
EndFits ==
  /\ kept # None => loadp
  /\ kept # None /\ pc = "ended" => mtgsThread = "dead"

KeptInv == ProgressFits /\ KeptSomewhere /\ EndFits
PluginInv == TypeOK /\ PluginsInOrder /\ KeptInv

(* The states of a machine that are built from others. *)
LEMMA MachineOps ==
  ASSUME NEW m \in Machine, NEW n \in Int
  PROVE  /\ Whole(n) \in Machine
         /\ AfterClose(m) \in Machine /\ AfterInit(m) \in Machine
         /\ AfterOpen(m) \in Machine /\ AfterReset(m) \in Machine
         /\ [m EXCEPT !.ee = n] \in Machine /\ [m EXCEPT !.spu = n] \in Machine
         /\ [m EXCEPT !.gs = n] \in Machine
<1> USE DEF Machine
<1>1. Whole(n) \in Machine
  BY DEF Whole
<1>2. ASSUME NEW x \in Machine, NEW k \in Int
      PROVE  /\ [x EXCEPT !.ee = k] \in Machine /\ [x EXCEPT !.regs = k] \in Machine
             /\ [x EXCEPT !.gs = k] \in Machine /\ [x EXCEPT !.spu = k] \in Machine
  OBVIOUS
<1>3. Lost \in Int /\ 0 \in Int
  BY DEF Lost
<1> USE DEF AfterClose, AfterInit, AfterOpen, AfterReset
<1>4. AfterClose(m) \in Machine /\ AfterInit(m) \in Machine
  BY <1>2, <1>3
<1>5. AfterOpen(m) \in Machine
  BY <1>2, <1>3, <1>4
<1>6. AfterReset(m) \in Machine
  <2>1. [m EXCEPT !.ee = 0, !.regs = 0, !.gs = 0] \in Machine
    <3>1. [m EXCEPT !.ee = 0, !.regs = 0, !.gs = 0] = [[[m EXCEPT !.ee = 0] EXCEPT !.regs = 0] EXCEPT !.gs = 0]
      OBVIOUS
    <3>2. [[[m EXCEPT !.ee = 0] EXCEPT !.regs = 0] EXCEPT !.gs = 0] \in Machine
      BY <1>2, <1>3
    <3> QED BY <3>1, <3>2
  <2>2. [m EXCEPT !.ee = 0] \in Machine
    BY <1>2, <1>3
  <2>3. CASE "GS" \in open
    BY <2>1, <2>3
  <2>4. CASE "GS" \notin open
    BY <2>2, <2>4
  <2> QED BY <2>3, <2>4
<1> QED BY <1>1, <1>2, <1>4, <1>5, <1>6

(* What is kept is told from what is not. *)
LEMMA WholeIsNone ==
  ASSUME NEW n \in Int, Whole(n) = NoMachine
  PROVE  n = None
<1>1. Whole(n).ee = NoMachine.ee
  OBVIOUS
<1> QED BY <1>1 DEF Whole, NoMachine

LEMMA GsKeptIsNotNone ==
  ASSUME NEW n \in Int
  PROVE  [gs |-> n, len |-> Length, regs |-> n] # NoGs
<1>1. [gs |-> n, len |-> Length, regs |-> n].len # NoGs.len
  BY DEF NoGs, None, Length
<1> QED BY <1>1

LEMMA InitPlugin == Init => PluginInv
<1> SUFFICES ASSUME Init PROVE PluginInv
  OBVIOUS
<1>1. NoMachine \in Machine /\ machine \in Machine
  <2>1. ASSUME NEW n \in Int PROVE Whole(n) \in Machine
    BY <2>1 DEF Machine, Whole
  <2>2. Whole(0) \in Machine /\ NoMachine \in Machine
    BY <2>1 DEF NoMachine, None
  <2>3. machine = [Whole(0) EXCEPT !.gs = Lost] /\ Lost \in Int
    BY DEF Init, Lost
  <2> QED BY <2>2, <2>3, MachineOps
<1>2. NoGs \in [gs : Int, len : Int, regs : Int]
  BY DEF NoGs, None
<1>3. TypeOK
  <2>1. g_RecoveryState \in Machine /\ slot \in Machine
    BY <1>1 DEF Init
  <2>2. g_gsRecoveryState \in [gs : Int, len : Int, regs : Int]
    BY <1>2 DEF Init
  <2>3. {loadp, initp, g_EmulationInProgress, sinit, multigs, closeGSonEsc} \subseteq BOOLEAN
    BY DEF Init
  <2>4. open \subseteq Plugins /\ mtgsThread \in {"none", "runs", "dead"} /\ frame \in Nat
    BY DEF Init
  <2>5. kept \in Int /\ pc \in Pc
    BY DEF Init, None, Pc
  <2> QED BY <1>1, <2>1, <2>2, <2>3, <2>4, <2>5 DEF TypeOK
<1>5. PluginsInOrder
  BY DEF Init, PluginsInOrder
<1>4. KeptInv
  BY DEF Init, KeptInv, ProgressFits, KeptSomewhere, EndFits
<1> QED BY <1>3, <1>4, <1>5 DEF PluginInv

-----------------------------------------------------------------------------
(* OpenPlugins, whatever comes of it, leaves the plugins in order. *)
LEMMA OpenKeepsOrder ==
  ASSUME TypeOK, PluginsInOrder, OpenSucceeds \/ OpenFails \/ OpenThrows, UNCHANGED multigs
  PROVE  /\ open' # {} => loadp' /\ initp'
         /\ "PAD" \in open' => "GS" \in open'
         /\ mtgsThread' = "runs" => "GS" \in open' /\ multigs'
<1> USE DEF PluginsInOrder, Plugins
<1>1. CASE OpenSucceeds
  BY <1>1 DEF OpenSucceeds
<1>2. CASE OpenFails
  BY <1>2 DEF OpenFails
<1>3. CASE OpenThrows
  BY <1>3 DEF OpenThrows
<1> QED BY <1>1, <1>2, <1>3

(* The plugins: PluginsInOrder is inductive by itself. *)
LEMMA OrderStep ==
  ASSUME TypeOK, PluginsInOrder, [Next]_vars
  PROVE  PluginsInOrder'
<1> USE DEF PluginsInOrder, Plugins, TypeOK
<1>1. CASE RunFrame \/ SaveSlot \/ Run \/ OpenFile \/ ChangeOptions \/ ChangeCloseGS \/ FreezeUnloaded
            \/ \E toSlot \in BOOLEAN : States_Save(toSlot)
  BY <1>1 DEF RunFrame, SaveSlot, Run, OpenFile, ChangeOptions, ChangeCloseGS, FreezeUnloaded, States_Save,
              plugins, config
<1>2. CASE Escape
  BY <1>2 DEF Escape, ClosePlugins, Close, config
<1>10. CASE LoadSlot
  BY <1>10 DEF LoadSlot, ClosePlugins, Close, config
<1>3. CASE \E elf \in BOOLEAN : RunExecute(elf)
  <2>1. (OpenSucceeds \/ OpenFails \/ OpenThrows) /\ UNCHANGED multigs /\ pc' # "run"
    BY <1>3 DEF RunExecute, config
  <2> QED BY <2>1, OpenKeepsOrder
<1>4. CASE ExecuteCpu
  <2>1. /\ OpenSucceeds \/ OpenFails \/ OpenThrows
        /\ UNCHANGED multigs /\ (pc' = "run" => OpenSucceeds)
    BY <1>4 DEF ExecuteCpu, config
  <2>2. OpenSucceeds => open' = Plugins
    BY DEF OpenSucceeds
  <2> QED BY <2>1, <2>2, OpenKeepsOrder
<1>5. CASE States_Load
  <2>1. (OpenSucceeds \/ OpenFails \/ OpenThrows) /\ UNCHANGED multigs /\ pc' # "run"
    BY <1>5 DEF States_Load, config
  <2> QED BY <2>1, OpenKeepsOrder
<1>6. CASE SysClose
  BY <1>6 DEF SysClose, ReleasePlugins, ShutdownPlugins, Close, plugins, config
<1>7. CASE SysReset \/ StartMovie
  BY <1>7 DEF SysReset, StartMovie, Forget, ResetPlugins, Close, plugins, config
<1>8. CASE Configure \/ ChangeMultigs
  BY <1>8 DEF Configure, ChangeMultigs, ReloadPlugins, ShutdownPlugins, PluginsResetGS, Close, config
<1>9. CASE UNCHANGED vars
  BY <1>9 DEF vars, plugins, config
<1> QED BY <1>1, <1>2, <1>3, <1>4, <1>5, <1>6, <1>7, <1>8, <1>9, <1>10 DEF Next

-----------------------------------------------------------------------------
(* Types. *)
LEMMA RecoveryOps ==
  ASSUME TypeOK
  PROVE  /\ RecoveryMemSavingState \in Machine /\ RecoveryZipSavingState \in Machine
         /\ TryRecoverFromGsState(AfterInit(machine)) \in Machine
         /\ GsPart \in [gs : Int, len : Int, regs : Int]
<1>1. ASSUME NEW x \in Machine, NEW j \in Int, NEW k \in Int
      PROVE  [x EXCEPT !.gs = j, !.regs = k] \in Machine
  BY <1>1 DEF Machine
<1>2. /\ g_gsRecoveryState.gs \in Int /\ g_gsRecoveryState.len \in Int /\ g_gsRecoveryState.regs \in Int
      /\ machine \in Machine /\ AfterInit(machine) \in Machine
  BY MachineOps DEF TypeOK
<1>3. GsPart \in [gs : Int, len : Int, regs : Int]
  BY <1>2 DEF GsPart, Machine, Length
<1> QED
  BY <1>1, <1>2, <1>3 DEF RecoveryMemSavingState, RecoveryZipSavingState, TryRecoverFromGsState

(* The plugins and the switches are what they are called. *)
PluginTypes ==
  /\ {loadp, initp, g_EmulationInProgress, sinit, multigs, closeGSonEsc} \subseteq BOOLEAN
  /\ open \subseteq Plugins /\ mtgsThread \in {"none", "runs", "dead"}
  /\ frame \in Nat /\ pc \in Pc

StateTypes ==
  /\ machine \in Machine /\ g_RecoveryState \in Machine /\ slot \in Machine
  /\ g_gsRecoveryState \in [gs : Int, len : Int, regs : Int] /\ kept \in Int

LEMMA PluginTypesStep ==
  ASSUME TypeOK, [Next]_vars
  PROVE  PluginTypes'
<1> USE DEF PluginTypes, Pc, Plugins, TypeOK
<1>1. CASE RunFrame
  BY <1>1 DEF RunFrame, plugins, config
<1>10. CASE SaveSlot \/ Run \/ OpenFile
  BY <1>10 DEF SaveSlot, Run, OpenFile, plugins, config
<1>11. CASE ChangeCloseGS \/ FreezeUnloaded
  BY <1>11 DEF ChangeCloseGS, FreezeUnloaded, plugins, config
<1>12. CASE \E toSlot \in BOOLEAN : States_Save(toSlot)
  BY <1>12 DEF States_Save, plugins, config
<1>2. CASE Escape \/ LoadSlot
  BY <1>2 DEF Escape, LoadSlot, ClosePlugins, Close, config
<1>3. CASE \E elf \in BOOLEAN : RunExecute(elf)
  BY <1>3 DEF RunExecute, OpenSucceeds, OpenFails, OpenThrows, config
<1>4. CASE ExecuteCpu
  BY <1>4 DEF ExecuteCpu, OpenSucceeds, OpenFails, OpenThrows, config
<1>5. CASE States_Load
  BY <1>5 DEF States_Load, OpenSucceeds, OpenFails, OpenThrows, config
<1>6. CASE SysClose
  BY <1>6 DEF SysClose, ReleasePlugins, ShutdownPlugins, Close, plugins, config
<1>7. CASE SysReset \/ StartMovie
  BY <1>7 DEF SysReset, StartMovie, Forget, ResetPlugins, Close, plugins, config
<1>8. CASE ChangeOptions \/ Configure \/ ChangeMultigs
  BY <1>8 DEF ChangeOptions, Configure, ChangeMultigs, SysRestorableReset, ReloadPlugins,
              ShutdownPlugins, PluginsResetGS, Close, plugins, config, recovery
<1>9. CASE UNCHANGED vars
  BY <1>9 DEF vars, plugins, config
<1> QED BY <1>1, <1>2, <1>3, <1>4, <1>5, <1>6, <1>7, <1>8, <1>9, <1>10, <1>11, <1>12
        DEF Next

LEMMA StateTypesStep ==
  ASSUME TypeOK, [Next]_vars
  PROVE  StateTypes'
<1> USE DEF StateTypes
<1>0. StateTypes /\ machine \in Machine /\ frame \in Nat
  BY DEF TypeOK
<1>1. /\ NoMachine \in Machine /\ NoGs \in [gs : Int, len : Int, regs : Int]
      /\ None \in Int /\ Lost \in Int /\ Ruined \in Int
  <2>1. None \in Int /\ Lost \in Int /\ Ruined \in Int
    BY DEF None, Lost, Ruined
  <2> QED BY <2>1, <1>0, MachineOps DEF NoMachine, NoGs
<1>2. ASSUME NEW m \in Machine
      PROVE  /\ AfterClose(m) \in Machine /\ AfterInit(m) \in Machine /\ AfterOpen(m) \in Machine
             /\ AfterReset(m) \in Machine /\ [m EXCEPT !.ee = Ruined] \in Machine
             /\ [m EXCEPT !.spu = Lost] \in Machine /\ m.ee \in Int
  BY <1>1, MachineOps DEF Machine
<1>3. CASE RunFrame
  <2>1. /\ machine'.ee \in Int /\ machine'.regs \in Int /\ machine'.gs \in Int
        /\ machine'.spu \in Int
        /\ machine' = [ee |-> machine'.ee, regs |-> machine'.regs, gs |-> machine'.gs,
                       spu |-> machine'.spu]
    BY <1>0, <1>1, <1>3 DEF RunFrame
  <2>2. machine' \in Machine
    BY <2>1 DEF Machine
  <2> QED BY <1>0, <1>3, <2>2 DEF RunFrame, recovery
<1>4. CASE Escape
  BY <1>0, <1>1, <1>2, <1>4, RecoveryOps DEF Escape, recovery
<1>5. CASE SaveSlot \/ LoadSlot
  <2>1. AfterClose([machine EXCEPT !.ee = Ruined]) \in Machine
    BY <1>0, <1>2
  <2> QED BY <1>0, <1>5, <2>1 DEF SaveSlot, LoadSlot, recovery
<1>6. CASE \E elf \in BOOLEAN : RunExecute(elf)
  <2>1. AfterInit(AfterReset(machine)) \in Machine
    BY <1>0, <1>2
  <2> QED BY <1>0, <1>2, <1>6, <2>1 DEF RunExecute, recovery
<1>7. CASE ExecuteCpu
  BY <1>0, <1>1, <1>2, <1>7, RecoveryOps DEF ExecuteCpu
<1>8. CASE States_Load
  BY <1>0, <1>1, <1>2, <1>8 DEF States_Load, recovery
<1>9. CASE SysClose \/ Run \/ OpenFile \/ ChangeCloseGS \/ FreezeUnloaded
  <2>1. AfterClose(machine) \in Machine
    BY <1>0, <1>2
  <2>2. [AfterClose(machine) EXCEPT !.spu = Lost] \in Machine
    BY <2>1, <1>2
  <2> QED BY <1>0, <1>1, <1>9, <2>2 DEF SysClose, ReleasePlugins, ShutdownPlugins, Run, OpenFile,
                                   ChangeCloseGS, FreezeUnloaded, recovery, plugins
<1>10. CASE SysReset \/ StartMovie
  <2>1. [machine EXCEPT !.gs = IF initp THEN Lost ELSE @, !.spu = Lost] \in Machine
    BY <1>0, <1>1 DEF Machine
  <2> QED BY <1>0, <1>1, <1>10, <2>1 DEF SysReset, StartMovie, Forget, ResetPlugins, recovery, plugins
<1>11. CASE ChangeOptions \/ Configure \/ ChangeMultigs
  <2>1. SysRestorableReset => /\ g_RecoveryState' \in Machine
                              /\ g_gsRecoveryState' \in [gs : Int, len : Int, regs : Int]
                              /\ kept' \in Int
    BY <1>0, <1>1, RecoveryOps DEF SysRestorableReset, recovery
  <2>2. AfterClose(machine) \in Machine
    BY <1>0, <1>2
  <2>3. [AfterClose(machine) EXCEPT !.spu = Lost] \in Machine
    BY <2>2, <1>2
  <2> QED BY <1>0, <1>11, <2>1, <2>2, <2>3 DEF ChangeOptions, Configure, ChangeMultigs, ReloadPlugins,
                                   ShutdownPlugins, PluginsResetGS
<1>12. CASE \E toSlot \in BOOLEAN : States_Save(toSlot)
  BY <1>0, <1>12, RecoveryOps DEF States_Save, recovery
<1>13. CASE UNCHANGED vars
  BY <1>0, <1>13 DEF vars, recovery
<1> QED BY <1>3, <1>4, <1>5, <1>6, <1>7, <1>8, <1>9, <1>10, <1>11, <1>12, <1>13 DEF Next

LEMMA PluginTypeStep ==
  ASSUME TypeOK, [Next]_vars
  PROVE  TypeOK'
  BY PluginTypesStep, StateTypesStep DEF TypeOK, PluginTypes, StateTypes

-----------------------------------------------------------------------------
(* The game that was put aside. *)

LEMMA ProgressStep ==
  ASSUME PluginInv, [Next]_vars
  PROVE  ProgressFits'
<1> USE DEF ProgressFits, Pc
<1>0. ProgressFits /\ g_EmulationInProgress \in BOOLEAN /\ pc \in Pc
  BY DEF PluginInv, KeptInv, TypeOK
<1>1. CASE RunFrame \/ SaveSlot
  BY <1>0, <1>1 DEF RunFrame, SaveSlot, recovery
<1>7. CASE LoadSlot
  <2>1. /\ pc = "run" /\ UNCHANGED <<g_RecoveryState, kept>>
        /\ \/ pc' = "gui" /\ ~g_EmulationInProgress'
           \/ UNCHANGED <<pc, g_EmulationInProgress>>
    BY <1>7 DEF LoadSlot, recovery
  <2> QED BY <1>0, <2>1
<1>8. CASE Run
  <2>1. UNCHANGED <<g_RecoveryState, g_EmulationInProgress, kept>>
    BY <1>8 DEF Run, recovery
  <2>2. pc' = IF g_EmulationInProgress THEN "ExecuteCpu" ELSE "RunExecute"
    BY <1>8 DEF Run
  <2> QED BY <1>0, <2>1, <2>2
<1>9. CASE OpenFile \/ ChangeCloseGS \/ FreezeUnloaded
  <2>1. /\ UNCHANGED <<g_RecoveryState, g_EmulationInProgress>>
        /\ \/ pc = "gui" /\ pc' \in {"gui", "ended"}
           \/ pc' = "RunExecute elf" /\ kept' = None
    BY <1>9 DEF OpenFile, ChangeCloseGS, FreezeUnloaded, recovery
  <2> QED BY <1>0, <2>1
<1>10. CASE \E toSlot \in BOOLEAN : States_Save(toSlot)
  BY <1>0, <1>10 DEF States_Save, recovery
<1>2. CASE Escape
  BY <1>0, <1>2 DEF Escape, recovery
<1>3. CASE \E elf \in BOOLEAN : RunExecute(elf)
  <2>1. /\ UNCHANGED <<g_RecoveryState, g_EmulationInProgress, kept>>
        /\ pc' \in {"ExecuteCpu", "gui", "ended"}
    BY <1>3 DEF RunExecute, recovery
  <2> QED BY <1>0, <2>1
<1>11. CASE ExecuteCpu
  BY <1>0, <1>11 DEF ExecuteCpu
<1>12. CASE States_Load
  BY <1>0, <1>12 DEF States_Load, recovery
<1>13. CASE SysClose
  BY <1>0, <1>13 DEF SysClose, recovery
<1>4. CASE SysReset
  BY <1>0, <1>4 DEF SysReset, Forget, recovery
<1>14. CASE StartMovie
  BY <1>0, <1>14 DEF StartMovie, Forget
<1>5. CASE ChangeOptions \/ Configure \/ ChangeMultigs
  <2>1. pc = "gui" /\ pc' = pc /\ SysRestorableReset
    BY <1>5 DEF ChangeOptions, Configure, ChangeMultigs
  <2> QED BY <1>0, <2>1 DEF SysRestorableReset, recovery
<1>6. CASE UNCHANGED vars
  BY <1>0, <1>6 DEF vars, recovery
<1> QED BY <1>1, <1>2, <1>3, <1>4, <1>5, <1>6, <1>7, <1>8, <1>9, <1>10, <1>11, <1>12, <1>13, <1>14
        DEF Next

LEMMA MachineRecord ==
  ASSUME NEW m \in Machine
  PROVE  m = [ee |-> m.ee, regs |-> m.regs, gs |-> m.gs, spu |-> m.spu]
  BY DEF Machine

(* A machine of which every place knows the same frame. *)
LEMMA MachineIsWhole ==
  ASSUME NEW m \in Machine, NEW n \in Int, m.ee = n, m.spu = n
  PROVE  [m EXCEPT !.gs = n, !.regs = n] = Whole(n)
<1>1. \A x \in Machine : x = [ee |-> x.ee, regs |-> x.regs, gs |-> x.gs, spu |-> x.spu]
  BY MachineRecord
<1>2. [m EXCEPT !.gs = n, !.regs = n] \in Machine
  BY DEF Machine
<1>3. [m EXCEPT !.gs = n, !.regs = n].ee = n
  BY DEF Machine
<1>4. [m EXCEPT !.gs = n, !.regs = n].spu = n
  BY DEF Machine
<1>5. [m EXCEPT !.gs = n, !.regs = n].gs = n /\ [m EXCEPT !.gs = n, !.regs = n].regs = n
  BY DEF Machine
<1> QED BY <1>1, <1>2, <1>3, <1>4, <1>5 DEF Whole

(* The game is kept when it is put aside. *)
LEMMA EscapeKeeps ==
  ASSUME PluginInv, Escape
  PROVE  KeptSomewhere'
<1>0. /\ machine \in Machine /\ initp /\ pc = "run" /\ g_EmulationInProgress /\ kept = None
  BY DEF PluginInv, TypeOK, PluginsInOrder, KeptInv, ProgressFits, Escape, Plugins
<1>1. CASE ~closeGSonEsc
  BY <1>0, <1>1 DEF Escape, KeptSomewhere
<1>2. CASE closeGSonEsc
  <2>1. SUFFICES ASSUME kept' # None
                 PROVE  InMachine'
    BY DEF KeptSomewhere
  <2>2. machine = Whole(machine.ee) /\ kept' = machine.ee
    BY <1>2, <2>1 DEF Escape
  <2>3. machine.regs = kept' /\ machine.gs = kept' /\ machine.spu = kept' /\ machine.ee = kept'
    BY <2>2 DEF Whole
  <2>4. g_gsRecoveryState' = [gs |-> kept', len |-> Length, regs |-> kept']
    BY <1>2, <2>3 DEF Escape, GsPart
  <2>5. machine'.ee = kept' /\ machine'.spu = kept'
    BY <1>0, <1>2, <2>3 DEF Escape, AfterClose, Machine
  <2> QED BY <1>0, <1>2, <2>4, <2>5 DEF Escape, InMachine
<1> QED BY <1>1, <1>2

(* Both ways to a running game find it where it is kept. *)
LEMMA RunKeeps ==
  ASSUME PluginInv, Run \/ RunExecute(FALSE) \/ RunExecute(TRUE) \/ ExecuteCpu
  PROVE  KeptSomewhere'
<1>0. TypeOK /\ ProgressFits /\ KeptSomewhere
  BY DEF PluginInv, KeptInv
<1>1. SUFFICES ASSUME kept' # None, pc' # "ended"
               PROVE  InMemory' \/ InMachine'
  BY DEF KeptSomewhere
<1>2. kept' = kept /\ pc # "ended" /\ (InMemory \/ InMachine)
  BY <1>0, <1>1 DEF Run, RunExecute, ExecuteCpu, KeptSomewhere
<1>3. CASE Run
  <2>1. CASE InMemory
    <3>1. g_RecoveryState # NoMachine
      BY <1>0, <1>1, <1>2, <2>1, WholeIsNone DEF InMemory, TypeOK
    <3> QED BY <1>0, <1>2, <1>3, <2>1, <3>1 DEF Run, InMemory, ProgressFits, recovery
  <2>2. CASE InMachine
    BY <1>2, <1>3, <2>2 DEF Run, InMachine, recovery, plugins
  <2> QED BY <1>2, <2>1, <2>2
<1>4. CASE RunExecute(FALSE) \/ RunExecute(TRUE)
  <2>1. RunExecute(FALSE) /\ pc = "RunExecute" /\ ~g_EmulationInProgress
    BY <1>0, <1>1, <1>2, <1>4 DEF RunExecute, ProgressFits
  <2>2. InMemory
    BY <1>2, <2>1 DEF InMachine
  <2>3. g_RecoveryState # NoMachine
    BY <1>0, <1>1, <1>2, <2>2, WholeIsNone DEF InMemory, TypeOK
  <2>4. UNCHANGED recovery
    BY <2>1 DEF RunExecute
  <2>5. pc' = "ExecuteCpu" => machine' = g_RecoveryState /\ open' = Plugins /\ initp'
    BY <2>1, <2>3 DEF RunExecute, OpenSucceeds
  <2> QED BY <1>2, <2>2, <2>4, <2>5 DEF InMemory, recovery
<1>5. CASE ExecuteCpu
  <2>1. ~OpenSucceeds \/ pc' # "run"
    BY <1>1, <1>5 DEF ExecuteCpu
  <2>2. CASE InMemory
    BY <1>1, <1>5, <2>2 DEF ExecuteCpu, InMemory, OpenFails, OpenThrows, Plugins
  <2>3. CASE InMachine
    <3>1. /\ OpenFails /\ UNCHANGED <<g_gsRecoveryState, g_EmulationInProgress>>
          /\ machine' = AfterClose(AfterInit(machine)) /\ g_RecoveryState' = NoMachine
      BY <1>1, <1>5 DEF ExecuteCpu
    <3>2. AfterInit(machine) = machine /\ machine \in Machine
      BY <1>0, <2>3 DEF AfterInit, InMachine, TypeOK
    <3>3. machine'.ee = machine.ee /\ machine'.spu = machine.spu
      BY <3>1, <3>2 DEF AfterClose, Machine
    <3> QED BY <1>2, <2>3, <3>1, <3>3 DEF InMachine, OpenFails
  <2> QED BY <1>2, <2>2, <2>3
<1> QED BY <1>3, <1>4, <1>5

(* A change of options moves the game from the machine into the memory. *)
LEMMA OptionsKeep ==
  ASSUME PluginInv, ChangeOptions \/ Configure \/ ChangeMultigs
  PROVE  KeptSomewhere'
<1>0. TypeOK /\ ProgressFits /\ KeptSomewhere /\ pc = "gui" /\ pc' = "gui" /\ SysRestorableReset
  BY DEF PluginInv, KeptInv, ChangeOptions, Configure, ChangeMultigs
<1>1. SUFFICES ASSUME kept' # None
               PROVE  InMemory' \/ InMachine'
  BY DEF KeptSomewhere
<1>2. kept' = kept /\ (InMemory \/ InMachine)
  BY <1>0, <1>1 DEF SysRestorableReset, KeptSomewhere
<1>3. CASE InMemory
  <2>1. g_RecoveryState # NoMachine
    BY <1>0, <1>1, <1>2, <1>3, WholeIsNone DEF InMemory, TypeOK
  <2>2. UNCHANGED recovery
    BY <1>0, <2>1 DEF SysRestorableReset
  <2> QED BY <1>0, <1>2, <1>3, <2>2 DEF InMemory, recovery
<1>4. CASE InMachine
  <2>1. g_RecoveryState' = RecoveryMemSavingState /\ g_gsRecoveryState' = NoGs
    BY <1>0, <1>1, <1>4 DEF SysRestorableReset, InMachine
  <2>2. g_gsRecoveryState # NoGs /\ g_gsRecoveryState.gs = kept /\ g_gsRecoveryState.regs = kept
    BY <1>0, <1>4, GsKeptIsNotNone DEF InMachine, TypeOK
  <2>3. RecoveryMemSavingState = Whole(kept)
    BY <1>0, <1>4, <2>2, MachineIsWhole DEF RecoveryMemSavingState, InMachine, TypeOK
  <2> QED BY <1>0, <1>2, <2>1, <2>3 DEF InMemory
<1> QED BY <1>2, <1>3, <1>4

(* The other steps forget the game, say so, or leave it where it is. *)
LEMMA KeptStep ==
  ASSUME PluginInv, [Next]_vars
  PROVE  KeptSomewhere'
<1>0. TypeOK /\ ProgressFits /\ KeptSomewhere
  BY DEF PluginInv, KeptInv
<1>1. CASE Escape
  BY <1>1, EscapeKeeps
<1>2. CASE Run \/ (\E elf \in BOOLEAN : RunExecute(elf)) \/ ExecuteCpu
  BY <1>2, RunKeeps
<1>3. CASE ChangeOptions \/ Configure \/ ChangeMultigs
  BY <1>3, OptionsKeep
<1>4. CASE RunFrame \/ SaveSlot \/ LoadSlot
  BY <1>0, <1>4 DEF RunFrame, SaveSlot, LoadSlot, KeptSomewhere, ProgressFits
<1>5. CASE States_Load \/ OpenFile \/ SysReset \/ StartMovie
  BY <1>5 DEF States_Load, OpenFile, SysReset, StartMovie, KeptSomewhere
<1>6. CASE SysClose
  BY <1>0, <1>6 DEF SysClose, ProgressFits, KeptSomewhere
<1>7. CASE ChangeCloseGS \/ FreezeUnloaded \/ \E toSlot \in BOOLEAN : States_Save(toSlot)
  BY <1>0, <1>7 DEF ChangeCloseGS, FreezeUnloaded, States_Save, KeptSomewhere, InMemory, InMachine,
                    recovery, plugins
<1>8. CASE UNCHANGED vars
  BY <1>0, <1>8 DEF vars, KeptSomewhere, InMemory, InMachine, recovery, plugins
<1> QED BY <1>1, <1>2, <1>3, <1>4, <1>5, <1>6, <1>7, <1>8 DEF Next

(* The steps that end the program: a frame runs with no game put aside, the   *)
(* libraries are not unloaded under one, and what is left is OpenThrows.      *)
LEMMA EndStep ==
  ASSUME PluginInv, [Next]_vars
  PROVE  EndFits'
<1>0. TypeOK /\ ProgressFits /\ EndFits /\ PluginsInOrder
  BY DEF PluginInv, KeptInv
<1>1. CASE Escape
  BY <1>0, <1>1 DEF Escape, EndFits, PluginsInOrder, Plugins
<1>2. CASE \E elf \in BOOLEAN : RunExecute(elf)
  BY <1>0, <1>2 DEF RunExecute, EndFits, OpenSucceeds, OpenFails, OpenThrows
<1>3. CASE ExecuteCpu
  BY <1>0, <1>3 DEF ExecuteCpu, EndFits, OpenSucceeds, OpenFails, OpenThrows
<1>4. CASE RunFrame \/ SaveSlot \/ LoadSlot
  BY <1>0, <1>4 DEF RunFrame, SaveSlot, LoadSlot, EndFits, ProgressFits
<1>5. CASE States_Load \/ OpenFile \/ SysReset \/ StartMovie
  BY <1>5 DEF States_Load, OpenFile, SysReset, StartMovie, EndFits
<1>6. CASE SysClose
  BY <1>0, <1>6 DEF SysClose, ProgressFits, EndFits
<1>7. CASE ChangeOptions \/ Configure \/ ChangeMultigs
  <2>1. pc' = "gui" /\ (kept' = kept \/ kept' = None) /\ (loadp' = loadp \/ loadp' = TRUE)
    BY <1>7 DEF ChangeOptions, Configure, ChangeMultigs, SysRestorableReset, ReloadPlugins, PluginsResetGS,
                plugins
  <2> QED BY <1>0, <2>1 DEF EndFits
<1>8. CASE Run \/ ChangeCloseGS \/ FreezeUnloaded \/ \E toSlot \in BOOLEAN : States_Save(toSlot)
  BY <1>0, <1>8 DEF Run, ChangeCloseGS, FreezeUnloaded, States_Save, EndFits, plugins
<1>9. CASE UNCHANGED vars
  BY <1>0, <1>9 DEF vars, EndFits, plugins
<1> QED BY <1>1, <1>2, <1>3, <1>4, <1>5, <1>6, <1>7, <1>8, <1>9 DEF Next

-----------------------------------------------------------------------------
(* The plugins, the two recovery states and the switches stay consistent, *)
(* for any failures and any number of frames.                             *)
THEOREM PluginInvariant == Spec => []PluginInv
<1>1. PluginInv /\ [Next]_vars => PluginInv'
  BY PluginTypeStep, OrderStep, ProgressStep, KeptStep, EndStep DEF PluginInv, KeptInv
<1> QED BY InitPlugin, <1>1, PTL DEF Spec

(* Libraries, plugins, pads and the thread of the GS stay in order. *)
THEOREM PluginsStayInOrder == Spec => []PluginsInOrder
<1>1. PluginInv => PluginsInOrder
  BY DEF PluginInv
<1> QED BY PluginInvariant, <1>1, PTL

(* A game that was put aside is kept whole in one of the two places, and no *)
(* step ends the program over it but a GSopen that fails in the GS thread.  *)
THEOREM GameIsKept == Spec => []KeptGameSurvives
<1>1. PluginInv => KeptGameSurvives
  BY DEF PluginInv, KeptInv, KeptSomewhere, EndFits, InMemory, InMachine, KeptGameSurvives
<1> QED BY PluginInvariant, <1>1, PTL

(* When the game is resumed, it goes on as it was left. *)
THEOREM GameIsResumed == Spec => ResumesWhole
<1>1. PluginInv /\ [Next]_vars
        => [pc = "ExecuteCpu" /\ pc' = "run" /\ kept # None => machine' = Whole(kept)]_vars
  <2> SUFFICES ASSUME PluginInv, Next, pc = "ExecuteCpu", pc' = "run", kept # None
               PROVE  machine' = Whole(kept)
    OBVIOUS
  <2>1. TypeOK /\ (InMemory \/ InMachine)
    BY DEF PluginInv, KeptInv, KeptSomewhere
  <2>2. ExecuteCpu
    BY DEF Next, RunFrame, Escape, SaveSlot, LoadSlot, RunExecute, States_Load, SysClose, Run, OpenFile,
           SysReset, StartMovie, ChangeOptions, Configure, ChangeMultigs, ChangeCloseGS, States_Save,
           FreezeUnloaded
  <2>3. /\ initp => machine' = IF g_gsRecoveryState = NoGs THEN AfterOpen(machine)
                               ELSE TryRecoverFromGsState(machine)
        /\ initp
    BY <2>1, <2>2 DEF ExecuteCpu, AfterInit, AfterOpen, InMemory, InMachine
  <2>4. CASE InMemory
    BY <2>3, <2>4 DEF InMemory, AfterOpen, AfterInit, Plugins
  <2>5. CASE InMachine
    <3>1. g_gsRecoveryState # NoGs /\ g_gsRecoveryState.gs = kept /\ g_gsRecoveryState.regs = kept
      BY <2>1, <2>5, GsKeptIsNotNone DEF InMachine, TypeOK
    <3> QED BY <2>1, <2>3, <2>5, <3>1, MachineIsWhole DEF TryRecoverFromGsState, InMachine, TypeOK
  <2> QED BY <2>1, <2>4, <2>5
<1> QED BY PluginInvariant, <1>1, PTL DEF ResumesWhole, Spec
===============================================================================
