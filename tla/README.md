# A verification project for PCSX2-rr-lua

PCSX2-rr-lua is a PlayStation 2 emulator (PCSX2 of 2009) with tool-assisted
recording: movies of controller input, re-recording through savestates, frame
advance and Lua scripts. This directory models the parts of it in which
several actors, or a long sequence of user operations, meet in shared state.
Paths below are relative to the repository, which is `src/`.

## 1. Inventory

| Component | State it keeps | Operations | Hard behaviour |
|---|---|---|---|
| MTGS ring (`pcsx2/MTGS.cpp`, `GS.h`) | ring of 128-bit slots, write and read positions, frame counter, copy tally, signal flag, events, busy lock | Prep/SendDataPacket, SendSimplePacket, PostVsyncEnd, WaitGS, Reset, Close on the EE thread; the packet loop on the GS thread | two threads, wrap-around of a variable-length packet, lost wake-ups, throttling, reset while the other thread reads |
| GIF transfer (`Gif.cpp`, MTGS.cpp `_gifTransferDummy`) | three GIF paths, partly parsed tags | masked path 3, path arbitration, PATH1 wrap | how much of a transfer is sent depends on a parse that spans calls |
| Movies (`TAS.cpp`, `windows/WinSysExec.cpp`, `windows/MovieDlg.cpp`, `Sio.cpp`) | `g_Movie` (file, FrameNum, FrameMax, Rerecs, Replay, ReadOnly, BootTime), the file and its position, `g_PadData` | record, play, stop, frame, save/load state, read-only toggle, reset, recovery | one file is written from four places; the file position, the frame counter, the header and the emulated machine must agree after any sequence of them |
| Savestates (`SaveState.cpp`) | memory image, one freeze function per component | FreezeAll in memory or gzip, plugin freeze | a failed load leaves the machine half-loaded |
| EE execution and events (`R5900.cpp`, `COP0.cpp`) | `cpuRegs.cycle` (u32), `interrupt` mask, `sCycle/eCycle` per event, next branch; COP0 Status, INTC and DMAC lines and masks | `cpuSetNextBranch`, `cpuTestCycle`, `CPU_INT`, `cpuBranchTest_Shared`; EI, DI, ERET, MTC0, the tests of the lines | 32-bit wrap of the cycle counter, an event due between two tests; lines raised while they are masked, two exceptions due in one test |
| IOP execution and events (`R3000A.cpp`, `IopMem`, `IopHw`) | `psxRegs`, `EEsCycle/EEoCycle`, `psxCycleEE/psxBreak` | the same, one slice per EE branch test | the two processors' clocks must not drift, also when a slice is broken off |
| EE counters (`Counters.cpp`) | four 16-bit counters with targets and gates, the parts of scanline and frame, `nextCounter`, frame limiter | update, gate, overflow, target, read and write, load, reset | counts worked out from the cycle of a late update; a target behind the count, overflow and target in one update; one schedule for all; gates told an older cycle |
| SIF (`Sif.cpp`, `IopDma.cpp`) | two 128-word FIFOs, EE and IOP DMA channel state, `eesifbusy`/`iopsifbusy` | start of a channel by either processor, the transfer loop, tag chains, two interrupts | two DMA engines with one bounded FIFO between them; a loop that ends only when both sides stop |
| VIF/VPU (`Vif.cpp`, `VifDma.cpp`, `VU*.cpp`, `x86/`) | VIF state machines, microprograms | unpack, stalls, MSCAL | stalls and partial transfers |
| IPU (`IPU/`) | bitstream, FIFOs | decode commands | resumable decoding |
| SIO and memory cards (`Sio.cpp`) | byte protocol state | pad and card commands | a byte-at-a-time protocol with user input in the middle |
| CD/DVD (`CDVD.cpp`, `CdRom.cpp`) | drive state, RTC | commands, reads | seek and read timing |
| Plugins and system lifecycle (`Plugins.cpp`, `System.cpp`, `windows/WinSysExec.cpp`, `windows/WinMain.cpp`) | libraries, plugins, the GS thread, the machine in four places, `g_RecoveryState`, `g_gsRecoveryState` | open, close, shut down, reload, reset; escape, resume, save, load, reconfigure | partial failure of opening; a game put aside between two runs |
| Lua (`windows/Lua.cpp`, `windows/LuaDlg.cpp`) | one coroutine, callbacks, the pad of the script, the text of its console | frame boundary, callbacks, joypad, print, run and stop | two threads in one script engine; a mutex held while the script prints to the other thread's window |
| Recompilers (`x86/`) | generated code | block compile, clear | self-modifying code |
| fps2bios (`fps2bios/`) | replacement kernel | threads, semaphores, sifcmd | a small operating system |
| Front ends, debugger, third party code | dialogs, sockets, zlib, tinyxml, pthreads | user interface | none that a model shows |

Interaction. The EE thread is the emulator: it runs the EE, the IOP and every
device in turn, calls the GS through the ring, and only the GS thread and (on
Windows) the user interface run beside it. Devices meet through memory of the
emulated machine, interrupts scheduled for a later cycle, and DMA channels; the
user meets the machine between two frames, through the menu and the hot keys.

What makes each part correct:

- *ring*: packets are acted on once each, whole, in order; nothing is overwritten;
  neither thread waits for the other for ever; a caller that waits for the ring to
  drain finds it drained.
- *movies*: playback shows the machine what recording showed it, after any sequence
  of savestates, resets, toggles and crashes; the file is never worse than its header.
- *SIF*: what one processor sends the other stores, in order and in place; a
  processor is interrupted when its data is there; the transfer loop returns.
- *counters and events*: an event is acted on once, at or soon after its cycle; a
  counter agrees with the number of its clock's ticks, and raises each target and
  overflow interrupt once.
- *GIF, VIF*: a transfer that stops half way continues where it stopped.
- *SIO, CD/DVD*: the answer to a command does not depend on what was interrupted.
- *interrupts*: a line that is up and enabled becomes an exception, and never inside one.
- *plugins and system*: what was opened is closed once, also when opening fails; a game
  that was put aside is resumed whole.
- *Lua*: one thread at a time in the engine; nothing dead is resumed; the game reads one
  source of input in a frame.

## 2. Modules

| Module | Models | Composed with |
|---|---|---|
| `GsStream` | what the ring promises: a stream of packets acted on in order | - |
| `MtgsRing` | both threads of `mtgsThreadObject` | `GsStream` (refinement) |
| `MtgsRingProofs` | proofs about the ring | `MtgsRing` |
| `Movie` | movies, savestates and the handlers around them | - |
| `MovieProofs` | proofs about movies | `Movie` |
| `SifChannel` | what a direction of the SIF promises: qwords stored in order and in place | - |
| `Sif0`, `Sif1` | the two directions, both sides of each | `SifChannel` (refinement) |
| `SifProofs` | proofs about both directions | `Sif0` (extended), `Sif1` (instance `Up`) |
| `EeTimer` | one timer of the EE and the operations on it, beside an exact counter | - |
| `EeCounters` | the timers together, hblank and vblank, the schedule, the branch test | `EeTimer` (extended) |
| `EeCountersProofs` | proofs about the counters | `EeCounters` |
| `EventAgenda` | what an event scheduler promises: each event once, not early, at the first block boundary | - |
| `EeIopEvents` | both processors, their clocks, next branches and event tests | `EventAgenda` (refinement, once for each processor) |
| `EeIopEventsProofs` | proofs about events and clocks | `EeIopEvents` |
| `EeInterrupts` | Status, the INTC and DMAC lines, the events 30 and 31, the exceptions | - |
| `EeInterruptsProofs` | proofs about the lines | `EeInterrupts` |
| `PluginLifecycle` | plugins, GS thread, savestates and a game put aside, under the Windows front end | - |
| `PluginLifecycleProofs` | proofs about them | `PluginLifecycle` |
| `LuaEngine` | scripts, the two threads that run them, the input they set and the text they print | - |
| `LuaEngineProofs` | proofs about scripts | `LuaEngine` |
| `MCMtgsRing`, `MCMovie`, `MCSif0`, `MCSif1`, `MCEeCounters`, `MCEeIopEvents`, `MCEeInterrupts`, `MCPluginLifecycle`, `MCLuaEngine` | the instances TLC checks | |

Definitions named `..._Mutant` in a module are deliberate bugs. Each is the form a
plausible mistake in the code would give the definition behind it; with it in
place the property named for it in `PROJECT.json` fails, so that no property
holds for want of anything to violate it.

### 2.1 The ring (`MtgsRing`)

State: `m_RingPos`, `m_WritePos`, `m_RingBuffer`, `m_RingBufferIsBusy`,
`m_QueuedFrames`, the two copy tallies, `m_packet_size`, the event's count and
the restart lock keep their names. `eePc` and `gsPc` say where each thread is;
an action is what a thread does between two accesses of shared memory, so that
TLC interleaves them as the two processors of the host may. `queue` (packets
published and not passed) and `handled` (the packet acted on) are history. The stream of
`GsStream` is the queue without the RESTART there may be in it (`RealPackets`), since the
reader passes that one without acting on anything.

| Code | Actions |
|---|---|
| `PrepDataPacket` | `PrepFits`, `PrepWraps`, `PrepExact`, the stalls `DataStall`, `WrapStall`, `FitStall`, the rewind `WrapLock` .. `WrapBegin`, `DataTag` |
| copy of the data, `SendDataPacket` | `DataCopy`, `DataPublish`, `DataKick` |
| `SendSimplePacket` | `SendSimple`, `SimplePrep`, `SimpleSpin`, `SimpleWrite`, `SimplePublish` |
| `PostVsyncEnd` | `PostVsyncEnd`, `VsyncThrottle`, `VsyncCheck`, `VsyncCount`, `PostEvent` |
| `WaitGS`, freeze, `Reset`, `Close` | `StartWaitGS`, `StartFreeze`, `WaitPost`, `WaitSpin`, `ResetPos`, `ResetSkip`, `ResetMode`, `StartClose`, `QuitPost`, `Join` |
| `Callback` (GS thread) | `GSWait`, `GSBusy`, `GSLoop`, `GSHandle`, `GSAdvance`, `GSRestart`, `GSRestartLock`, `GSRest` |

The three GIF paths are one (`DATA`): they differ in the plugin call only. How
large a transfer is comes from `_gifTransferDummy`, which is not modelled: any size of
`PacketSizes` may be asked for, none too, since a packet of path 1 that is too long for the
rest of VU1's memory is dropped (MTGS.cpp:303) and its tag sent all the same.

### 2.2 Movies (`Movie`)

State: `g_Movie` field by field, the file position, the files on disk (header and
frames), the savestate slots, `g_RecoveryState` and the two flags of the
execution loop. The emulated machine is deterministic, so it is modelled by what
it depends on: the clock it booted with and the pad bytes of the frames it has
run. `take` is history: the machine that a recording was closed with. `uncounted`, in the
machine, is history too: `RunExecute` sets the counter to 0 also when it has resumed a game in
mid-movie (`Recover`), and the machine has then run so many frames more than `FrameNum` says. A
savestate made by such a machine rewinds the file by the counter, to a frame that is not
the machine's next; `Kept` drops the machine there, since neither agrees with the movie any more.

`RunFrame` is one frame of the loop (plain, recorded or replayed); `MovieRecord`,
`MoviePlay`, `MovieEnd` are the dialogs with `RunExecute`; `SaveState`, `LoadState`,
`LoadFails` the savestate menu and hot keys with `movieFreeze`; `ToggleReadOnly`,
`Escape`, `Resume`, `Boot`, `SysReset`, `SysRestorableReset`, `Recover` the other
handlers; `Exit` is the process ending, at any time.

### 2.3 The SIF (`Sif0`, `Sif1`)

State: the FIFO, the busy flags, what is left of the chain, the counts and
addresses of both sides, the scheduled interrupts, all under their names in
`Sif.cpp`. The unit is the qword, since the code rounds packets to qwords. `pc`
says which side of the loop is next. `stored` and `tag` are history: what the
last step stored and where, and the tag that the receiving side read last. What is in
transit for `SifChannel` is the data of the FIFO, behind the tag that may lead it (`DataOf`),
then what is left of the packet begun, then the packets to come, joined by `FlattenSeq`.

`psxDma9`/`dmaSIF0` (`dmaSIF1`/`psxDma10`) start the channels in either order; the
loop is `IopSide` then `EeSide` (in `Sif1` the other way round), each the whole
half of the loop body, with one operator for each branch of it; the interrupts
(`sif0Interrupt`, `EEsif0Interrupt`, ...) come at any time after the loop returned.
The guest is the kernel of `fps2bios`: chains as its `SifSetDma` builds them.
A packet that asks for an interrupt has data (`Sendable`): with two empty ones the
receiving side falls two tags behind, and nothing in the loop lets it catch up.

### 2.4 The EE counters (`EeTimer`, `EeCounters`)

State: a timer is the record of `Counter` (count, target with its `FUTURE_TARGET`
bit apart as `future`, mode), `gates`, the part of the scanline and of the frame
(`counters[4]`, `counters[5]`), `nextCounter` and the cycles to the next branch test. The code
stores cycles and only ever subtracts them from `cpuRegs.cycle`; the model keeps the
difference, so `age` of a timer is `cpuRegs.cycle - sCycleT`, and no clock grows without
bound. (`EeIopEvents` has the wrap of the clocks.) `NextsOf` is the loop of `cpuRcntSet` over the
timers, as a function of how many it has passed. `hSyncError` is what half a frame is longer than
its scanlines: negative for PAL, where every half frame makes the next hblank late by 196 cycles.

| Code | Definitions |
|---|---|
| `rcntRcount`, the counting of `rcntUpdate`, `_cpuTestTarget`, `_cpuTestOverflow` | `rcntRcount`, `CatchUp`, `cpuTestTarget`, `cpuTestOverflow`, `Update` |
| `rcntStartGate`, `rcntEndGate`, `_rcntSetGate` | `HblankTick`, `StartGate`, `EndGate`, `rcntSetGate` |
| `rcntUpdate_hScanline`, `rcntUpdate_vSync` | `HGates`, `NextHsync`, `VGates`, `NextVsync`, `Corrected` |
| `_rcntSet`, `cpuRcntSet` | `rcntSet`, `cpuRcntSet` |
| `_cpuBranchTest_Shared` | `cpuBranchTest`: `rcntUpdate` or `NoUpdate` |
| a block of EE code | `RunBlock`, and `Writes` (`rcntWmode`, `rcntWcount`, `rcntWtarget`) |
| `UpdateVSyncRate`, `rcntFreeze`, `cpuReset` | `RateSet`, `LoadState`, `cpuReset`, while `Execute` has returned |

The field `exact` is history: a counter that ticks cycle by cycle and is never late. It
starts from the timer at each write of software that finds nothing overdue, and
keeps how many interrupts it raised that the timer has not. Timers started by a gate
or on the hblank clock are not followed; nor is a target of 0 with return to zero,
which the code raises at each update and a counter would raise for ever.

### 2.5 Events and the two processors (`EventAgenda`, `EeIopEvents`)

State: the clocks `cycle` and `psxCycle` (`cpuRegs.cycle`, `psxRegs.cycle`) and both next
branches, words that wrap at `2 * Half`; the pending events of each processor with the
cycle and the delay they were asked for with; `EEsCycle` and `EEoCycle` (what the IOP is
owed, and up to when it was reckoned); `psxCycleEE`, `psxBreak` (what is left of the slice
that runs, and of one that was broken off); `iopBranchAction`. One EE cycle is the unit, an
IOP cycle is `Ratio` of them. `pc` says what runs, since all of it is one host thread. `left`
(the time until an event is due) and `lag` (the time the IOP owes) are history, and exact.

| Code | Definitions |
|---|---|
| `cpuSetNextBranch`, `cpuTestCycle`, their IOP twins, the branch set for an event that is not due | `SetNextBranch`, `TestCycle`, `SetEventBranch` |
| the end of an EE block, `iBranchTest`, the first part of `_cpuBranchTest_Shared` | `EeBlock` |
| `_cpuTestInterrupts`, `TESTINT`, the return of a callback | `TESTINT`, `CallbackReturns` |
| `psxBranchTest`, `_psxTestInterrupts`, from the EE's test or from an IOP block | `CallPsxBranchTest`, `IopTestEvent`, `IopTested` |
| the IOP recompiler's `ExecuteBlock`, `iPsxBranchTest` | `IopTested` (start), `IopBlock` (each block, and the end) |
| the rest of `_cpuBranchTest_Shared` | `Reschedule` |
| `CPU_INT`, `PSX_INT`, `iopTestIntc`, `cpuTestINTCInts` as far as the slice, `recBranchCall` | the actions of these names |

Blocks and callbacks are any sequence of those calls. The counters of the two processors
are what they put on the next branch. `EventAgenda` is the promise: a pending event has a
time to go; it is delivered once, not before that time and before another block runs
past it. `EeKeepsAgenda` and `IopKeepsAgenda` are two refinements of it, one for each
processor in its own time.

### 2.6 Interrupt lines (`EeInterrupts`)

State: the bits of COP0 Status, INTC_STAT with its mask, DMAC_STAT with its mask and
DMAE, the events 30 and 31, the timer of Count and Compare. One bit stands for the sixteen
causes of a line. `MTC0`, `EI`, `DI`, `ERET`, `Syscall` and the `Write...` actions are the
guest's, each with the tests the code makes behind it (or does not make: `DI`,
INTC_STAT, DMAC_CTRL); `hwIntcIrq` and `hwDmacIrq` are the devices'; `_cpuTestTIMR`,
`EventTestEnds`, `intcInterrupt`, `dmacInterrupt` are the event test. `Elapse` is time: it
makes an event that was asked for due. The timer is thrown by the event test and by every write
of Status that enables it (`UpdateCP0Status`). `thrown` is history.

### 2.7 Plugins and a game put aside (`PluginLifecycle`)

State: what is loaded, initialised and open, the GS thread, `g_RecoveryState`,
`g_gsRecoveryState`, `g_EmulationInProgress`, `sinit` and the two options that matter. The
machine is in four places (memory and processors, GS registers, GS plugin, SPU2), each
stamped with the last frame it knows, so that a machine made of parts of two frames can
be told. `kept` is history: the frame of a whole game that was put aside.

| Code | Definitions |
|---|---|
| `OpenPlugins`, `mtgsOpen` | `OpenSucceeds`, `OpenFails`, `OpenThrows` |
| `ClosePlugins`, `ShutdownPlugins`, `ReleasePlugins`, `LoadPlugins`, `ResetPlugins`, `PluginsResetGS` | the definitions of these names, `ReloadPlugins` |
| `JustGsSavingState`, the two `Recovery...SavingState` | `GsPart`, and the definitions of these names |
| the frame, and the keys (`KeyEvent`) | `RunFrame`, `Escape`, `SaveSlot`, `LoadSlot` |
| `RunExecute`, `ExecuteCpu`, `States_Load`, `SysClose` | the actions of these names |
| the commands of menu and dialogs | `Run`, `OpenFile`, `SysReset`, `StartMovie`, `ChangeOptions`, `Configure`, `ChangeMultigs`, `ChangeCloseGS`, `States_Save`, `FreezeUnloaded` |

### 2.8 Lua scripts (`LuaEngine`)

State: the engine (`LUA`, `luaRunning`, `frameAdvanceWaiting`, `suspended`, the functions
registered), the mutex, where each of the two threads is and which Lua function it is in,
the pad of the script and that of the game, the text of the console and the message that
announces it. `source` and `disturbed` are history: what the game is to read in the frame, and
whether the pad or the script were changed in its middle.

The emulator's thread is `RunFrame` .. `CallAfter`, the parts of a frame between which the
mutex is free; the window's is `PressRun` .. `CreateLuaWindow`; `Script` is what a script may do, in
any order, in whichever thread it runs. A step is what happens between two points at
which the other thread can be seen.

## 3. Runs

| Run | Question | Instance | Result |
|---|---|---|---|
| `ring_safety` | does the ring lose, tear, overwrite, reorder or miscount anything, and does it implement `GsStream`? | 4 slots, packets of 1 and 2 qwords, 2 payloads, 1 frame ahead, event count up to 2 | holds, 618,649 states |
| `ring_live` | does every operation end, and is every vsync displayed? | 3 slots, packets of 0 and 1 qword, 1 payload | holds, 259,167 states |
| `movie` | do machine, file, counter, header and savestates agree under every sequence of operations, is a recording played back as it was closed, and does playback end? | 2 pads, 2 clocks, 1 file, 1 slot, 2 frames, 1 re-recording | holds, 1,159,876 states |
| `sif0` | does SIF0 implement `SifChannel`, keep in step and interrupt only when it is true? does the loop end? | FIFO of 2 qwords, packets of up to 3, chains of up to 3, 2 addresses | holds, 96,267 states |
| `sif1` | does SIF1 implement `SifChannel` and keep in step, and does everything arrive? | FIFO of 2, packets of up to 3, chains of 2 packets, each split at every qword | holds, 119,865 states |
| `counters` | does a timer count and interrupt as one that is never late, and only where the code opens its gate, and is the schedule in time? | 1 timer, with and without gates and on the hblank clock, overflow at 6, ticks of 1 and 2 cycles, blocks of up to 2 | holds, 849,860 states |
| `counters_gatedhblank` | is what the gate of hblank starts scheduled? | 1 timer, all gate modes, longer frame | violated |
| `events` | is every event of either processor delivered once and on time, is no time of the IOP lost, does control come back to the EE? | 2 EE events, 1 IOP event, words of 20 values, 2 EE cycles to an IOP cycle, blocks of up to 2 | holds, 1,347,534 states |
| `interrupts` | is an enabled line always on its way, never thrown inside an exception, and served in the end? | the whole of it: there are no constants | holds, 115,033 states |
| `plugins` | are plugins opened and closed in order whatever fails, is a game put aside resumed whole, and what can lose it? | every fault, 2 frames, 1 savestate | holds, 3,221,502 states |
| `plugins_saved` | is the part of the GS in a savestate where the code's comment says? | as `plugins` | violated |
| `lua` | is one thread at a time in the engine, is nothing dead resumed, does the game read one source, is all text shown? | 2 pads, all four kinds of function | holds, 983,192 states |

Why the bounds are enough. *Ring*: with 4 slots and packets of 1 to 3 slots every
way for a packet to meet the end of the buffer and the reader occurs - it fits, it
fits exactly, it wraps, it must wait in each case - and the reader can be a whole
buffer behind. `ring_safety` was also run once with packets of 0 and 2 qwords, with the same
result; the proofs cover every size. The thresholds (1 and 2) make the wake-up happen and not happen.
The count of the event is capped at `MaxPosts` by making the poster wait; a higher
count only wakes the GS thread to find nothing. *Movies*: two frames are the least
with a first, a next and a last one; `MaxFrame` and `MaxRerecs` stop the counters
and guard `RunFrame` and the loads. Two pads make two timelines differ. A
recording resumed by a recovery after one frame is closed, played and resumed again within them; that
playback runs past the file's end needs one frame more, and was run once with 3 frames, one pad
and one clock (144,100 states), with the same result. *SIF*: the FIFO (32 qwords in the code) is
smaller than the longest packet and not a divisor of it, so that packets go through in
several turns; a chain of 3 has a first, a middle and a last tag. `MaxChain` bounds only
what the guest asks for. *Counters*: an update is at most `Soon` + `MaxBlock` late, less than the
`Wrap` ticks of a lap, as in the code, where a lap is at least 131,072 cycles; it may
still be several ticks late, past target and overflow in one step. Scanline and frame are as short as `TimingAssumption` admits, so that their edges meet every
place of a timer, and half a frame is shorter than its scanlines, as in PAL. `counters_gatedhblank`
has constants of its own: its frame is longer, or the update of vblank would come in time by chance. `MaxCount`
stops `RunBlock`: a timer stopped by its gate is not tested for overflow, and gate mode 0
lets it grow. The writes are of a count near the overflow, past every target, and of targets below, at and above
what the timer has; a target of 0 is among them. A longer frame and two timers that share the
schedule were run once, with the same result. *Events*: `Half` must exceed every difference of two cycles that can occur, as 2^31 does. That is
`HorizonAssumption`, and 10 is the least that satisfies it for these delays, so that the clocks wrap
every few blocks. (Without the assumption the properties hold down to 7, and fail at 6, as they should.) A delay of 0 is within `Soon` and breaks a slice off, one of 2
is not; an EE block of 2 overshoots the branch. `MaxBehind` and `MaxAhead` bound how far the IOP
falls behind or runs ahead before the EE goes on; within them the branch of `Rapid` is
taken, and slices end in debt and in credit. *Plugins*: two frames tell a machine from an
older one; a second savestate could only hold what the first can. *Lua*: two values of
the pad tell its three sources apart; everything else is finite.

Symmetry: the payloads of the ring are compared for equality only. It is used in
`ring_safety` alone.

Fairness. *Ring*: both threads get to run (weak fairness of each thread's steps);
nothing obliges the machine to begin an operation. *Movies*: the loop of
`ExecuteCpu` runs a frame per iteration while it is not paused; nothing is assumed
of the user, and `PlaybackEnds` excludes only one who loads savestates for ever.
*SIF*: the loop runs until it returns, a scheduled interrupt is delivered, and the
receiving side starts its channel again after its interrupt, which is what the
kernels do (`SifSetDChain`); the sending side need not send. *Events*: the host thread goes
on running blocks and tests (weak fairness of `Step`), while nothing makes a device ask
for events. *Interrupts*: an event test that has begun goes on; time passes, and handlers return, again and again (strong
fairness of `Elapse` and `ERET`), since the guest may change Status in between as often as
it likes. The premises of `LinesServed` are conditions on the guest, in its comment.
*Counters*, *plugins* and *Lua*: no liveness is claimed, and none assumed. That an interrupt of a
timer comes is the safety property `CountsExactly` (a timer that has caught up owes none)
with `Scheduled` (it is caught up in time); that text is shown, `PrintedIsPosted`.

Deadlock is checked in all runs but the two of the plugins, where the program may end.
In the SIF it is the check that no side of the loop is ever asked to move while its
channel has stopped; in Lua, that the two threads never wait for each other over the mutex. (Posting
a message does not wait in the model, as `PostMessage` does not; the comment at LuaDlg.cpp:61 says what
`SendMessage` did there.)

## 4. Findings

- `counters_gatedhblank`: the gate of hblank starts timers outside `rcntUpdate`, so that they
  are not scheduled, though the comment at Counters.cpp:696 relies on it.
- `plugins_saved`: a savestate written from the menu while the game is put aside begins its
  GS registers at their length word (WinSysExec.cpp:445): they are shifted by four bytes
  and lack the last four. `RecoveryMemSavingState` (403) has the right offset.
- `movie`: `RunExecute` counts frames from 0 also when it resumed a game in mid-movie
  (WinSysExec.cpp:382, after 344 put back machine and file position). A recording that goes on so
  is closed with a header that many frames short, and its playback ends that much early; a movie watched so
  goes on as many frames past its end. `PlaybackComplete` says how many frames are lost, and that nothing else
  loses any.
- `counters`: the gates of hblank and vblank are opposite. Counters.h:38-41 has one rule: gate mode 0
  counts while the signal is low, where the rising edge is the blank's end. In mode 0 vblank follows
  it and hblank counts outside its blank (Counters.cpp:474 and 483, whose comments name the
  edges the other way round); in modes 1 and 2 hblank follows it and vblank does the opposite (680, 731).
  `GateKept` is stated for the part that the code opens (`GateOpen`).
- `plugins`: a `GSopen` that fails in the GS thread throws (MTGS.cpp:225) past `mtgsOpen`, which catches
  failures of thread creation only (1061), up to WinMain, which closes the program: a game put aside is lost.
  The comment at GS.cpp:205 promises to try the GS without a thread instead. `KeptGameSurvives` says
  that this is the only failure that loses the game.
- `plugins`: the assertion at GS.cpp:232, that there is a GS thread exactly when the option says so,
  fails when the GS is closed that was opened without one because none could be created.
  `PluginsInOrder` has the direction that holds.

Met while modelling, seen with TLC or in the code and not kept as runs of their own. The
modules do in each case what the code does.

Ring and movies:

- `SendDataPacket` clears `m_packet_size` (MTGS.cpp:740) before it adds it to
  `m_CopyDataTally` (757): the secondary threshold of the comment at 749 is
  never reached, and a few large packets wait for the vsync to be drawn.
- `SendDataPacket` and `VU1XGKICK_MTGSTransfer` assume that a packet has data (MTGS.cpp:713,
  iVUmicroLower.cpp:1976), but `_gifTransferDummy` gives back all of a path 1 packet
  that is too long (MTGS.cpp:303). The ring itself bears it.
- `PostVsyncEnd` reads the frame counter and then the positions (MTGS.cpp:443-445); a GS
  thread that drains the ring between the reads makes it report a mismatch that is
  not there. Only the log is wrong.
- A load from the menu that fails half way leaves `g_EmulationInProgress` set, and Execute
  resumes the half-loaded machine; the message (WinSysExec.cpp:520) says it was reset.

SIF and counters:

- A timer with return to zero returns once for an update (Counters.cpp:554), and so falls behind for good when
  its target is reached more often than a block ends.
- `sif0.end` (Sif.cpp:325) is never cleared: after one tag with END the EE's SIF0 channel
  stops at every start, with an interrupt and without data. `sifman` sends no END.
- The gates of vblank are told the start of the part that is over (Counters.cpp:519); a timer
  they reset has at once counted all of that part.
- `_rcntSetGate` clears the count and not `FUTURE_TARGET` (Counters.cpp:629), and gate mode 0
  never clears it: the target is then passed once without an interrupt.
- A timer that leaves the hblank clock counts the cycles since the last update under its
  new clock (Counters.cpp:745).
- A load stops and clears timers whose gate is open (Counters.cpp:861); a reset leaves the
  gate flags of before (Counters.cpp:116).

Events and interrupts:

- The interpreter's `intExecuteBlock` runs nothing while `EEsCycle` is not positive, although
  `iopBranchAction` is to make the IOP run ahead (comment at R3000A.cpp:45).
- `PSX_INT` asks the EE for attention while `psxCycleEE < 0`; it may be exactly 0 behind a
  slice, and then does not.
- The INTC_STAT hack sets the clock to the next branch (HwRead.cpp:37), which may lie behind it.
- A DMAC event that finds DMAE clear is dropped (Hw.cpp:100) and setting DMAE asks for no
  other; `_cpuTestMissingDMAC` (R5900.cpp:287) does not look at DMAE.
- `_cpuTestTIMR` (R5900.cpp:399) throws without a look at EXL or EIE, also inside another
  exception.

Plugins and Lua:

- `ExecuteCpu` promises to clean up left-over recovery states (WinSysExec.cpp:266) but
  restores `g_gsRecoveryState` before it deletes it: one left from before a load from the
  menu is put over the GS that was loaded.
- Without closeGSonEsc, what the plugins other than the GS hold is closed unsaved when a
  later open fails.
- The exception of a `GSopen` that fails in the GS thread leaves CDVD open and a dead thread behind.
- `SysClose` after a load that failed unloads the libraries and makes `SysReset` do nothing;
  Save Other then freezes plugins that are not there.
- Stopping or running a script, and joypad.set from a function called in the middle of a
  frame, change the input of the rest of the frame (Sio.cpp:146); what the script set then is
  lost at the frame's end (Lua.cpp:385 ff.).
- The analog sticks of joypad.set become 0 or 1 (Lua.cpp:244); luareadme.md:52 says 0-255.
- The exit function is called when the user stops a script, not when the script ends or fails;
  one that fails calls itself again without end (Lua.cpp:502, 538).

## 5. Proofs

All theorems hold for every value of the constants that the named assumptions
admit. They are checked by TLAPS with Z3, Zenon and LS4. Each was found to hold with TLC
before it was proved; the inductive invariants are not repeated in the runs.

Where a fact is about a sequence of any length, or about a function that is defined along one, the
proof takes the least index at which it fails (`LeastNatural`, from the library's theorem
about the subsets of a finite set), and so needs no induction theorem. `Joined` is `\o` under a
name that the provers do not look into.

*Ring* (`RingAssumption`: the longest packet and its tag leave a slot free; `PacketAssumption`).
`NoOverwrite` is not inductive: that the writer's next
qword belongs to no queued packet follows only from where all the packets lie. `RingInv` says that
the queued packets follow one another from the reader to the writer (`Chained`),
lie in one stretch or at the two ends (`AllInside`, `AllInOrder`), are still stored
whole (`AllStored`), and what each thread has made sure of at each of its places
(`EEReady`, `GSReady`). From it: `TypeCorrect`, `EmptyExactly`, `ResetSafe`,
`NeverOverwrites`, `NeverTorn`, `WaitDrains`. That frames are counted (`FramesAlwaysCounted`) and
that the ring implements the stream (`RingIsAStream`) need what the threads hold besides the buffer
(`Bookkeeping`): the GS thread still knows the packet it stands on as it was sent, and the
EE thread is sending what it prepared. The steps are first sorted by what they do to the queue,
the reader and the frame counter (`Effects`), and each kind is an action of the stream or a stutter. A
RESTART is never behind another one (`RestartsOnce`), so that leaving it out shifts the queue by at most one.

*Movies* (`MovieAssumption`: the values that stand for "none" are not files, machines
or savestates). `MovieInv` ties the machine to the file (`InSync`), the position to the
counter while recording (`Recording`), each savestate to its own frames
(`SavestatesCarryMovie`), the header to the file, and a closed take to both
(`TakeKept`), all of them by way of `uncounted` where a recovery set the counter back; `PlaysWhole` then
says exactly what such a recording or playback lacks. From it: `StaysInSync`, `SavestatesKeepMovies`, `HeadersWithinFiles`, `PlaysBack`, `PlaysWhole`,
`KeepsFrames`. The bounds `MaxFrame` and `MaxRerecs` are not used: the proofs hold for
movies of any length.

*SIF0* (`Sif0Assumption`, and `NoEnd`: no tag has END, as sifman sends them; with END
the finding above makes the EE side stop for ever). `InStep` alone is not inductive:
that the EE side finds a tag when its count is 0 needs to know that the IOP side has
just sent one, that an interrupt bit is only seen with data left, and that a stopped
side has nothing left. `SifInv` adds that (`IopChannel`, `EeChannel`, `TagTaken`,
`LoopState`). From it: `TypeCorrect` (the FIFO never overflows, whatever its size and
the packets'), `SidesInStep`, `InterruptsAreTrue`, `PlacesAreTrue`, and, with the lemmas of what a turn
takes out of the sequence in transit (`Flow...`, `MovesOut`), `Sif0IsAChannel`.

*SIF1* (`Sif1Assumption`; no other). A packet may be split over several tags of the EE's chain, so that
neither side knows what the other has still to do with it. `UpInv` says what the IOP waits for in terms
of what the EE has: the rest of the packet in the FIFO, in the part that is being
sent, and in the next tag's part (`Owed`), with the state of the channels and of the loop
(`UpChannels`, `UpLoop`). From it `UpSidesInStep` (`InStep` of `Sif1`). `Placed` adds the places: what is left of a
packet goes on where the IOP's channel points to, and a packet that has not begun is what its tag says. It
is inductive with `UpInv`, and gives `Sif1IsAChannel` (`ImplementsChannel` of `Sif1`). The bound `MaxChain` is not used.

*EE counters* (`EeTimerAssumption`, `EeCountersAssumption`: the ranges of lengths, rates and
what software writes; `TimingAssumption`). `GateKept` is not inductive: a load or a write sets modes and
gates, and the gate closes by mode and opens by source (`GateOpen`), so `GateInv` adds that every timer keeps the fields of
a timer and its mode those of a mode, which every operation must preserve.
From it `GatesAreKept`. `CatchUpKeepsReads` says of the step that rounds a timer to whole
ticks that no later read sees a difference, for every rate and lateness.

`EdgesOnTime` does not follow from `Scheduled`:
an update may be put off by a write, which schedules from the last
update and not from now, by the block that runs when the test comes due, and by the one that runs behind a
test. `EdgeInv` bounds all of them at once: the next test comes before the edge of hblank and the
latest time of the update, or one block behind it. From it `UpdatesAreScheduled`, `EdgesAreOnTime`.
`TimingAssumption` says that a block, with the error of the frame and what `_rcntSet` adds, fits into
hblank and into each part of the frame; its comment has the numbers of NTSC and PAL. An hblank may
be later than a block by the error of a PAL frame, which `EdgesOnTime` says.

`CountsExactly` compares a timer, which is updated late, with one that is never late, and
neither of the invariants above says what the one owes the other. `Tracks` does, for a timer that would
read `v`: the same while the target is set aside; a target's worth of ticks for each return to zero that it has not
made; and otherwise an overflow at most. One tick of both keeps it (`TickTracks`), and by division any number of cycles
does (`Shows`, `AfterShows`). A late update pays what is owed (`UpdateTracks`) if the timer has not gone round
twice. `InTime` says when that update comes at the latest, `Slack` cycles and a block behind the timer's event
or `Soon`, whatever software writes before it (`UpdateInTime`, `AnewInTime`, `PassInTime`, `TestInTime`). A write
starts the exact counter anew, and a gate ends it, so that `ExactInv` says all this of the timers that are followed and
only the ranges of the others (`StillSound`). From it `TimersCountExactly`. It uses `LapAssumption` (the wait for the branch
test, `Soon` and a block fit into a lap: in the code 4096, 4 and a block into 65536 ticks), and has a condition on the guest
as its hypothesis, `LongTargets`: the targets of timers with return to zero are a block away. The condition cannot
be dropped: `_cpuTestTarget` returns once for an update, and with a target of 1 TLC finds `CountsExactly` violated. The run's
module has the condition as an assumption, so TLC checks that its instance meets it.

*Events* (`EeIopEventsAssumption`, `HorizonAssumption`: the delays, blocks and slices that are compared on a clock
stay below half of it; in the code 2^31 cycles against less than 2^28). `ClocksAgree` compares differences of
clocks that wrap, so that it is kept by a step only if nothing compared has gone half way round. `EventsInv` bounds
how far each clock is behind and ahead of its branch and of each event (`EeSide`, `IopSide`): the EE's branch is overdue by at most the
IOP's last block and what the IOP owed, and the branch of each processor is before all the events its test has passed.
From it `ClocksAlwaysAgree`, and the two refinements `EeEventsOnTime` and `IopEventsOnTime`.

*EE interrupts* (no assumption). `NeverNested` is about a step whose guard does not test what
it claims: `intcInterrupt` looks at IM2 and the line only. `LinesInv` adds to
`NoMissingINTC` that the test of event 30 is reached with interrupts enabled
(`TestedEnabled`). From it `NoLineIsMissed`, `NothingNests`.

*Plugins* (`PluginLifecycleAssumption`). `KeptGameSurvives` holds of every step only if it is known
where the game can be: `PluginInv` says of a game put aside that all of it is in memory or all of it
in the machine with the GS's recovery state (`KeptSomewhere`), that no game is in progress while
`g_RecoveryState` holds one and none is kept while one runs (`ProgressFits`), that everything is
open when `RunExecute` hands over, and that the program ends over a game only by the exception of a
GS thread that is dead (`EndFits`). From it
`PluginsStayInOrder`, `GameIsKept`, `GameIsResumed`, for any faults and any number of frames.

*Lua* (`LuaEngineAssumption`: a pad value is a byte). `LuaInv` fixes, for each place of each thread,
whether it holds the mutex and in which function it may be (`PlacesFit`), that a coroutine is
resumable while no thread is in it and the script counts as running (`RunningFits`), and that the source of
a frame is decided, and every disturbance counted, before the game polls (`SourceFits`). From it
`NeverEnteredTwice`, `RunningCanResume`, `OneSourcePerFrame`, `TextIsShown`.

### 5.1 Why things end

A liveness property needs fairness, and with it ENABLED, which is out of the prover's reach. What
fairness cannot supply is the other half of the argument: that the thread that is waited for can
go on, and that going on brings the wait nearer to its end, by a rank in the natural numbers
that it lowers and others do not raise. That half is proved, for every value of the constants, where
the runs check the property itself for one; the definitions are in the proof modules.

- *Ring* (behind `OperationsEnd`, `VsyncDisplayed`). `NoDeadlyEmbrace`: whenever the EE thread waits
  in one of its nine waits (`Stalled`, `PostsFull`), the GS thread is not asleep with its event at 0, has
  not left, and does not wait for the restart lock. It needs `WakeInv`: what was published while
  the GS thread went to sleep has a post behind it. Every step of the GS thread lowers `GSRank` (7 for a post, 3 for a packet, and its
  place in the loop), and a waiting EE thread does not raise it (`GSThreadRunsDown`): a
  wait ends after that many steps of the GS thread at most. An operation of the EE thread has at most 21 steps of its own
  (`RanksAreCounts`, `EEThreadRunsDown`), but for the loop of `PostVsyncEnd`, which goes round only while
  too many frames are queued. `VsyncsAreServed`: a vsync in the buffer is never left with both threads idle.
- *Movies* (behind `PlaybackEnds`). `PlaybackGoesDown`: the frames that a watched movie has left are
  lowered by every frame and raised by nothing but a savestate loaded.
- *SIF* (behind `LoopEnds`, `AllStored`). While a loop runs, the turn that is next can be taken, and every turn lowers what is
  left: the chain, the packet begun, and whose turn it is (`SIF0DmaRunsDown`, with `NoEnd`; `SIF1DmaRunsDown`). That
  a turn moves something uses the invariants above: a side with nothing to move has stopped.
- *Events* (behind `ControlReturns`). `EventTestRunsDown`: from the EE's test until the EE goes on, every step
  lowers the time owed to the IOP, weighed against the places of its test, and what callbacks and IOP
  code ask for raises nothing, since a slice that is broken off gives its time back.
- *EE interrupts* (behind `LinesServed`). `IntcComesThrough`: while a line stays enabled, its event is never
  dropped, a due one stays due, and time makes it due. `DmacComesThrough` says the same of the DMAC, and that an
  enabled line has an event at all, if the guest keeps DMAE set while the line is up. Without that condition TLC finds
  it violated: setting DMAE asks for no event.

Only model-checked: the liveness properties themselves (`OperationsEnd`, `VsyncDisplayed`, `PlaybackEnds`,
`LoopEnds`, `AllStored`, `ControlReturns`, `LinesServed`).

## 6. Plan

In order of what the next work is worth:

1. *GIF* (`Gif.cpp`, `_gifTransferDummy`): the arbitration of the three paths and the
   parse that spans calls, which gives the ring its packet sizes.
2. *SIO* (`Sio.cpp`) and *CD/DVD* (`CDVD.cpp`): the byte protocol and the command state
   machine, with commands that interrupt one another.
3. *IOP counters* (`IopCounters.cpp`) on the shape of `EeTimer`, and the lengths of scanline
   and frame (`vSyncInfoCalc`), whose rounding at Counters.cpp:196 compares a whole product
   where a remainder seems meant.

## 7. Not modelled

Instruction semantics and the recompilers (encodings, not control); the vector
units and the IPU (data); plugins behind their interface; user interface, debugger
and third party code. The kernel of `fps2bios`: its thread switch is not finished (the
call that loads the modules that would start threads is commented out in `eekernel.c:442`,
`ExitThread` and `TerminateThread` are stubs, much of `threadman.c` is under `#if 0`), so that there is
no behaviour to hold a model to; its sifman is the guest of the SIF modules.

In the modelled parts: SIF2, normal mode, TTE, stall control and a chain that is taken back
while it runs (SIF); writes of one handler that the process may end between (movies:
`TAS.cpp:76`); a game that polls a pad several times in a frame, whose polls the file
format cannot tell apart (movies); the plugin's own work (ring); the frame
limiter, the hold register, the status bits, a change of TV standard and the IOP's gates
(counters); VU0's slices, the interpreter and the INTC_STAT hack (events); error level,
the bus error bit and the performance counters (interrupts); failures of loading and initialising plugins, the escape hack,
test runs and the debugger, a savestate of an old version (plugins); what scripts read and write of
memory, and an exit function that fails (Lua).
