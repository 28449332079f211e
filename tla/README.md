# SMM and multi-processor firmware of the Purley platform: a TLA+ model

This directory holds TLA+ specifications of the concurrent and event-driven
core of the firmware in `src/`: the rendezvous of all logical processors in
System Management Mode (SMM), the MP services of the boot phase (DXE), the
dispatcher that routes the chipset's SMI sources to the children registered for
them, with its second level for eSPI events and its periodic timers, the memory types
(MTRRs) of all processors, and the polled timers. The specifications are checked with TLC on small instances. Proved
with TLAPS for all values of the constants are type correctness of the
rendezvous, the uniqueness of the BSP up to its resignation, the hot-plug count,
the completion counts of the DXE MP services, that eSPI children stay reachable
and miss no event, the rates of the periodic timers, and the correctness of the
polled timers. `PROJECT.json` has the machine-readable
side: components, runs, mutants, the map from definitions to source lines,
findings, hazards and theorems.

Paths below are abbreviated:

| short | file |
|---|---|
| MP | `src/PurleySktPkg/Override/IA32FamilyCpuPkg/PiSmmCpuDxeSmm/MpService.c` |
| CS | `src/PurleySktPkg/Override/IA32FamilyCpuPkg/PiSmmCpuDxeSmm/CpuService.c` |
| ST | `src/PurleySktPkg/Override/IA32FamilyCpuPkg/PiSmmCpuDxeSmm/SyncTimer.c` |
| DX | `src/PurleySktPkg/Override/IA32FamilyCpuPkg/CpuMpDxe/MpService.c` |
| MC | `src/PurleySktPkg/Override/IA32FamilyCpuPkg/CpuMpDxe/MpCommon.c` |
| AS | `src/PurleySktPkg/Override/IA32FamilyCpuPkg/CpuMpDxe/X64/MpFuncs.asm` |
| CORE | `src/PurleySktPkg/SouthClusterLbg/PchSmiDispatcher/Smm/PchSmmCore.c` |
| DISP | `src/PurleySktPkg/SouthClusterLbg/PchSmiDispatcher/Smm/PchSmiDispatch.c` |
| ESPI | `src/PurleySktPkg/SouthClusterLbg/PchSmiDispatcher/Smm/PchSmmEspi.c` |
| TMR | `src/PurleySktPkg/SouthClusterLbg/PchSmiDispatcher/Smm/PchSmmPeriodicTimer.c` |
| CTL | `src/PurleySktPkg/SouthClusterLbg/SmmControl/RuntimeDxe/SmmControlDriver.c` |
| MTRR | `src/PurleySktPkg/Override/UefiCpuPkg/Library/MtrrLib/MtrrLib.c` |
| CPU, ATTR, SYNC | `Cpu.c`, `MemoryAttribute.c`, `MtrrSync.c` in `src/PurleySktPkg/Override/IA32FamilyCpuPkg/CpuArchDxe` |
| PC | `src/PurleySktPkg/Override/IA32FamilyCpuPkg/CpuMpDxe/ProcessorConfig.c` |

## 1. Inventory

The repository is a UEFI firmware tree (EDK II packages plus Intel's Purley
silicon and platform packages). Most of it is straight-line register
programming, tables and vendored libraries. The parts with state that several
actors share are these.

### SMM MP rendezvous (MP) - modelled

*State*: `SMM_DISPATCHER_MP_SYNC_DATA` (`Counter`, `InsideSmm`,
`AllCpusInSync`, `BspIndex`, `SwitchBsp`, `CandidateBsp`, the sync modes) and
one `SMM_CPU_DATA_BLOCK` per processor (`Run`, `Busy`, `Present`,
`Procedure`).
*Operations*: `SmiRendezvous` (every processor, at every SMI), `BSPHandler`,
`APHandler`, the semaphores, `SmmWaitForApArrival`, and the services SMI
handlers call on the BSP (`SmmStartupThisAp`, `SmmBlockingStartupThisAp`, sync
mode, arrival check, targeted SMIs, SMI enabling).
*Interaction*: every processor runs the same code concurrently and communicates
through memory and SMI IPIs only; handlers run on the BSP between the barriers.
*Hard*: election, arrival of late processors, timeouts that make an AP give up
while the BSP counts the check-ins, four to seven barriers on one semaphore per
processor, changing the flow (traditional or relaxed) between two runs.
*Correct when*: runs are serialised (one BSP, nobody joins a counted run, no
late-comer slips back to the OS), no signal is lost or left over, procedures
run exactly once, MTRRs are swapped as a whole, everybody leaves, and no SMI
event is missed.

### SMM CPU service (CS) - modelled

*State*: `mNumberOfCpus`, `ProcessorInfo[].ProcessorId`, `Operation[]`.
*Operations*: `SmmSwitchBsp`, `SmmAddProcessor`, `SmmRemoveProcessor` record
one pending operation per slot, `SmmCpuUpdate` carries them out at the end of
the run. *Correct when* the number of processors the BSP waits for is that of
the processors there are.

### SMM AP sync timer (ST) and `CheckTimeout` (DX) - modelled

*State*: the reading at the start, or the last reading and a total.
*Hard*: a counter of arbitrary range that rolls over and may count down.
*Correct when* never early, and exact as long as it is polled once per cycle.

### DXE MP services (DX, MC, AS) - partly modelled

*State*: `CPU_DATA_BLOCK` per AP (state, procedure, event), `MP_SYSTEM_DATA`
(`CpuList`, `StartCount`, `FinishCount`), the wake-up mailbox of every AP
(`StartupApSignal`, `ApLoopMode`, `ReadyToBootFlag`), `mApFunction`,
`mStopCheckAPsStatus`, the exchange of roles (`BSPInfo`, `APInfo`,
`mBspSwitched`, `mNewProcessorNumber`).
*Operations*: `StartupAllAPs`, `StartupThisAP`, `EnableDisableAP`, `SwitchBSP`
with `AsmExchangeRole`, the timer callback `CheckAPsStatus`, `ApProcWrapper`
and the AP's loop (HLT, MWAIT or polling), `ChangeApLoopModeCallBack` at exit
from boot services.
*Hard*: the AP runs concurrently with the BSP's polling; the callback
interrupts the BSP between services; a timeout races with completion and ends
in an INIT; a signal may be stored while the AP is between MONITOR and MWAIT;
two processors swap their stacks, and one global flag tells the old BSP, or
whoever looks first, that its number has changed.
*Correct when* a call reports what happened, a procedure runs only for an
outstanding call, every call ends, no stack is used twice, and the APs are
parked when the OS starts.
*Left out*: `DispatchAPAndWait` (start-up, before the services are installed)
and `ReAllocateMemoryForAP` (whose wait is that of
`ChangeApLoopModeCallBack`).

### PCH SMI dispatcher (CORE, DISP) - partly modelled

*State*: `CallbackDataBase`, a list of records in the SMM pool; the enable and
status bits of the chipset; `SMI_EN.EOS`; `mReadyToLock`; the local variables
of `PchSmmCoreDispatcher`, which live across callbacks.
*Operations*: `PchSmmCoreRegister` and the register functions of the PCH
protocols, `PchSmmCoreUnRegister`, the dispatch loop with its callbacks, the
clearing of sources, setting EOS, the sleep transition.
*Interaction*: children register and unregister from within callbacks; several
sources share an enable bit (TCO) or a summary status; the timers' `ClearSource`
reprograms both timers; the OS side writes the same `SMI_EN` register.
*Hard*: a list that changes under the walk; status that arrives between the
callback and the clearing of it; records freed while pointers to them live; at
most three rounds per SMI.
*Correct when* the enable bits match the database, no event is lost, SMIs come
to rest with every event answered, and the machine sleeps only when it should.
*Left out*: the decoding of sources shared by several GPIO pads or root ports
(one pad and one port are modelled), and callback arguments.

### eSPI SMI dispatch (ESPI) - modelled

*State*: one list of children per event, `EspiSmiEventCounter`, the parents'
handles, four error registers with write-one-to-clear bits for two slaves.
*Operations*: registration (with insertion of the parent on demand),
`EspiSmiUnRegister`, `EspiSmiCallback`, `EspiRecoverFromFatalError`,
`EspiSlaveSmiRegister`. *Hard*: two events share each register, so that every
read-modify-write must mask the other's status; counters decide when a parent
is dropped. *Correct when* a registered child stays reachable and sees every
event.

### Periodic SMI timers (TMR) - modelled

*State*: two chipset timers, one rate each, and an elapsed time per child.
*Operations*: register, unregister, pause, resume, tick, clearing of the
source. *Hard*: the rate follows the most demanding child, both timers are
reprogrammed whenever one is served, ticks are dropped. *Correct when* nobody is
called early or starved.

### SMM control (CTL) - modelled

`Activate` is `SmmClear` followed by `SmmTrigger`: two read-modify-writes of
`SMI_EN` and a write to `APM_CNT`, outside SMM; part of `PchSmiDispatcher`.

### MTRR library and memory attributes (MTRR, CPU, ATTR, SYNC) - partly modelled

*State*: the fixed and variable MTRRs of every processor, the copy `mMtrrTable`
that APs load, and the types in the GCD memory space map.
*Operations*: `MtrrSetMemoryAttribute`, `MtrrGetMemoryAttribute`,
`SetMemoryAttributes` of the CPU architectural protocol,
`RefreshGcdMemoryAttributes`, the early initialisation of the APs.
*Interaction*: PEI modules and the DXE core make requests; a successful one is
carried to the APs by `StartupAllAPs` of the MP services.
*Hard*: a request merges with, cuts or replaces MTRRs left by any number of
earlier ones; a range takes few MTRRs only if some of them exceed it; the number
needed is computed apart from the programming; a request may fail half-way; two
pieces of code decide by different rules which of several MTRRs prevails.
*Correct when* the contents are always legal, a request does what it reports and
leaves its neighbours alone, and the GCD map and all processors agree.
*Left out*: processors without MTRRs, requests applied to a buffer, and
`MtrrSetVariableMtrr`, `MtrrSetFixedMtrr`.

### Not modelled

| part | where | why |
|---|---|---|
| IO trap dispatch | `SouthClusterLbg/PchSmiDispatcher/Smm/IoTrap.c` | address decoding of four trap registers; its children are called from one record |
| periodic SMI library | `MdePkg/Library/SmmPeriodicSmiLib` | vendored; the platform's `.dsc` names it, but no driver lists it among its library classes |
| SMBus, SPI, I2C, watchdog, reset | `SouthClusterLbg` | sequential register protocols with polling |
| SMM driver entry, S3 resume, profile, features | `PiSmmCpuDxeSmm` | set-up on one processor, fault tracing, model-specific registers |
| CPU feature configuration | `CpuMpDxe` | tables of settings programmed once |
| RAS handlers | `PurleyPlatPkg/Ras/Smm` | register decoding; the state machines call code that is not in the repository |
| PCH and silicon initialisation, ACPI, ME | `SouthClusterLbg`, `PurleySktPkg` | straight-line code and tables |
| PCI bus driver, base libraries | `MdeModulePkg`, `MdePkg` | vendored |
| spin locks, interlocked operations | `MdePkg/Library/BaseSynchronizationLib` | vendored; atomic steps of the models |

## 2. Modules

| module | contents |
|---|---|
| `SmmMpSync` | the SMM rendezvous and all services, its properties |
| `SmiGate` | abstract specification: runs behind a gate, one at a time |
| `SmmMpSync_proof` | theorems about `SmmMpSync`: types, `BspIndex`, hot-plug counts; the barrier protocol with one invariant, the theorems that follow from it, and the refinement of `SmiGate` |
| `MCSmmMpSync` | instance for TLC: adds the symmetry set `Perms` |
| `SyncTimer` | the two polled timers on one performance counter |
| `SyncTimer_proof` | theorems about `SyncTimer` |
| `MCSyncTimer` | instance for TLC |
| `CpuMpServices` | the DXE MP services |
| `MCCpuMpServices` | instances for TLC: which calls are made in which AP loop |
| `PchSmiDispatcher` | the PCH SMI dispatcher, the sleep transition and the SMM control driver |
| `PchSmiDispatcher_proof` | theorems about `PchSmiDispatcher`: the enable bits, no lost events, sleep after the children |
| `EspiSmi` | the eSPI events below two records of the dispatcher |
| `PchPeriodicTimer` | the two periodic timers and the elapsed time of their children |
| `ProofLemmas` | lemmas on lists without repetition, minima, induction, recursion (by number, by iteration, along a measure) and division, for the proof modules |
| `MtrrLib` | the algorithms of the MTRR library, as operators |
| `CpuMemoryAttributes` | requests, the copy of the MTRRs, the APs and the GCD map |
| `MCCpuMemoryAttributes` | instance for TLC: the fixed MTRRs and the requests |
| `CpuMemoryAttributes_proof` | theorems about `CpuMemoryAttributes` and the algorithms of `MtrrLib`: the agreement of the processors, the legality of the registers, what a request does to its range and to its neighbours, the types the GCD map is painted with |
| `MpCalls` | abstract specification: what the MP Services Protocol promises its callers |
| `CpuMpServices_proof` | all safety invariants of `CpuMpServices`, and the refinement of `MpCalls` |
| `EspiSmi_proof` | theorems about `EspiSmi` |
| `PchPeriodicTimer_proof` | theorems about `PchPeriodicTimer`: the rates of the timers, no early call |

All constants get their values in the `.cfg` files. Definitions whose name ends
in `_Something` after the name of another definition are faulty variants of it
(a dropped guard, a wrong order); each is used to show that some property would
notice.

### SmmMpSync: steps and source lines

A step is one access to shared memory, or several that no other processor can
tell apart. `pc[c]` is the statement processor `c` executes next:

| pc | action | MP |
|---|---|---|
| `normal` | `EnterSmm` (hardware; `ValidSmi` sampled) | 1262-1267 |
| `sampled` | `SampleBsp` | 1269-1284 |
| `checkin` | `CheckIn` | 1288-1309 |
| `route` | `BecomeBsp`, `BecomeAp` (election) | 1332-1399 |
| `quit`, `exitwait` | `LeaveSmm` | 1288-1296, 1404-1426 |
| `ap_wait1`, `ap_wait2` | `ApSeesBsp`, `ApTimeout1`, `ApTimeout2` | 738-765 |
| `ap_giveup` | `ApGiveUp` | 766-790 |
| `ap_present`, `ap_arrive` | `ApPresent`, `ApArrive` | 791-808 |
| `ap_save`, `ap_set` | `ApSave`, `ApSet` (MTRRs) | 809-839 |
| `ap_loop`, `ap_check`, `ap_run` | `ApWake`, `ApCheck`, `ApRun` | 841-906 |
| `ap_leave`, `ap_restore` | `ApLeave`, `ApRestore` (MTRRs) | 908-924 |
| `ap_ready`, `ap_reset`, `ap_done` | `ApReady`, `ApReset`, `ApDone` | 926-946 |
| `bsp_enter`, `bsp_clear` | `BspEnter`, `BspClear` | 468-503 |
| `bsp_arrival` | `BspArrival` with `SmmWaitForApArrival` | 278-430, 516 |
| `bsp_insync`, `bsp_lock` | `BspInSync`, `BspLock` | 521-525, 618-619 |
| `wait_*` | `WaitForAllAPs`, then the action after `WaitOver` | 227-255 |
| `wait_ready`, `wait_saved`, `wait_set` | `BspReady`, `BspSet`, `BspAllSet` | 525-570 |
| `bsp_entry`, `bsp_core` | `BspCoreEntry`, services, `BspCoreReturn` | 572-590 |
| `bsp_block` | `Unblock` | 1204-1225 |
| `bsp_drain` | `BspDrain` with `ClearSmi` | 587-612 |
| `wait_present` | `BspAllPresent` | 612-634 |
| `bsp_exit`, `bsp_notify` | `BspExit`, `BspNotify` | 636-645 |
| `wait_done` | `BspSetMode` | 645-651 |
| `bsp_restore`, `wait_restored` | `BspRestore`, `BspAllRestored` | 653-669 |
| `bsp_reset` | `BspReset` with `SmmCpuUpdate` | 671-690 |
| `wait_reset`, `bsp_open`, `bsp_resync` | `BspUnelect`, `BspOpen`, `BspResync` | 690-711 |

What is abstracted:

- *Time*: a timeout may expire at any moment at which the wait is not over. The
  timers themselves are the subject of `SyncTimer`. The first wait of
  `SmmWaitForApArrival` may also end because of LMCE or an arrival exception,
  which to the rest of the protocol is a timeout.
- *SMI sources* (`SmiKinds`): an event of the hardware and a software SMI, each
  pending until a handler looks at it. `ClearSmi` clears the status of the latter: one
  that no handler has seen is then lost, or, in the relaxed flow, `overlooked`.
- *MTRRs*: one register shared by all threads, holding the OS's or SMM's
  settings, and a backup per thread.
- *Procedures*: `owed` counts those scheduled on an AP and not yet run.
- *32-bit numbers*: `Locked` stands for `(UINT32)-1`; decrement and increment
  are modulo `Locked + 1`. Seven is enough to keep it apart from every count
  of three processors (`LockedAssumption`).
- *Assertions* are not executed (the models follow a build without them);
  those that matter are stated as properties (`SignalsBalance`,
  `ArrivalCountBounded`).

Assumptions about the environment:

- `PromptWindows = TRUE`: the code has two windows of a few instructions that
  it relies on other processors to get through in time: an AP between its last
  look at `InsideSmm` after the second timeout and `WaitForSemaphore (Counter)`
  (MP:771-779), and the old BSP between reopening `Counter` and clearing
  `AllCpusInSync` (MP:708-709). The assumption is that no processor is in one
  of them when a BSP has finished the port I/O that follows its entry (MP:503).
  Section 6 says what happens without it.
- A processor is removed (`SmmRemoveProcessor`) only when it is part of the run
  or outside of SMM, and a new processor is not put into a slot whose removal
  is still pending unless `Services` contains `"reuse"`.
- A software SMI comes from a processor executing normal-mode code.

Build options are constants. The platform's build has election on (`Election`),
hot-plug on and a timeout of 10 ms (`PlatformPkg.dsc` 743-744, 819);
`NeedConfigureMtrrs` is false on its processors, so that `NeedMtrrs = FALSE` is
the shipping configuration and `TRUE` that of older processor families
(`SmmFeatures.c` 1445-1463). `HookBsp` (a platform hook that designates the BSP) is `NoBsp` and `Election` is `TRUE` in all
runs; the theorems cover the other values.

### SmiGate

Three variables: the gate (open, closed, leaving), the members, the leader.
Processors join and give up while the gate is open, one of them leads, closes
the gate, dismisses the members, and reopens the gate when it is the last one
left. `SmmMpSync` maps to it by: open when `Counter` is not locked, closed when
it is and `InsideSmm` is set, leaving when it is not; the members are the
processors between check-in and the end of their run; the leader is the one in
`BSPHandler`.

### MpCalls

Six variables, all of which a caller can observe: the outcome of every call, the team
of processors it was given to, those it has been given up on, how often each
processor has executed its procedure, the BSP, and the disabled processors. There are no
loops, signals, states of APs or polls. A call is refused, has nobody to run on, or
begins with a team of free processors; each member executes the procedure at most
once and only while the call is pending; success is reported when all have, a timeout
when those that have not are given up on; the BSP changes only while nobody owes anything, and after
the call at the end of the boot services, which goes to every enabled AP, nothing else
begins. `CpuMpServices` maps to it by its history variables (`result`, `given`,
`failed`, `ran`, `off`) and `BspNumber`; a step of an AP is visible only when it is the
execution of the procedure. That the switch of the BSP finds everybody free is up to
the callers (`Careful`, section 6).

### CpuMpServices: steps and source lines

The AP's `pc`:

| pc | action | source |
|---|---|---|
| `hlt` | woken by INIT-SIPI-SIPI only (`Launch`) | AS:339-347 |
| `loop`, `armed`, `sleep`, `poll` | `ApLoop`, `ApMwait`, `ApBreak`, `ApPoll` | AS:339-374 |
| `enter` | `ApBusy` | DX:1306-1366 |
| `fetch`, `run` | `ApFetch`, `ApRun` | DX:1368-1383 |
| `clear`, `finish` | `ApClear`, `ApFinish` | DX:1385-1408 |
| `flag`, `number` | `ApFlag`, `ApNumber` (the old BSP only) | DX:1391-1405 |
| `leave`, `back` | `ApLeave`, `ApBack` | AS:310-318, 319-337 |
| `store`, `load`, `unload` | `SwapStore`, `SwapLoad`, `SwapUnload` | AS:429-528, DX:1244-1252 |
| `bsp` | the processor that is the BSP | |

The BSP is `free` (in its caller's code, where the timer callback may come in),
in `update` (`CheckAndUpdateAPsStatus`, one AP per step), `start` (the rest of a
service), `poll` (its do-while loop), `exit` (the wait in
`ChangeApLoopModeCallBack`), `switch` (in `AsmExchangeRole`), `switched` (the
new BSP, waiting for the old one in the loop at the end of `SwitchBSP`, where the
timer callback may come in), `booted`, or in `spin` on a lock nobody will
release. `num[c]` is the processor number `c` believes it has, and with it the
stack and the monitor data it uses; `BspStack` stands for the BSP's. `CheckAllAPs` is one of `AllFinished`, `AllNotReady`, `AllTimeout`,
`CheckThisAP` one of `ThisFinished`, `ThisNotReady`, `ThisTimeout`. The
procedure of the k-th call is the number k, and `Bye` is `ChangeApLoopMode`.

Abstractions and assumptions: a check by the BSP is one step, except that the
timeout path may miss APs that finished after they were looked at; the target
of an INIT-SIPI-SIPI has loaded `mApFunction` before `SendInitSipiSipi`, which
waits more than 10 ms, returns; a lock is held by an AP after a store it has
made under it (`HeldPc`), and `PromptWindows = TRUE` says that an INIT does not
come just then. `Calls` names the AP loops of an instance and the calls made
in each; the loop is chosen in `Init`, because the PCD behind it is not set in the
repository. `BreakEvents` says that SMIs end MWAIT now and then. `Careful` says
that callers start no second `StartupAllAPs` while the event of one is
outstanding, do not enable or disable busy APs, and call `SwitchBSP` only when
no call is outstanding and every AP is back in its loop, and nothing else before
the old BSP is.

### PchSmiDispatcher: steps and source lines

A `DATABASE_RECORD` is a pool cell; `db` is the list of the live ones, `mem` the
content of all, which outlives `SmmFreePool` until the cell is reused. The SMI
side is at `pc`, one step per access that something else can come between:

| pc | action | source |
|---|---|---|
| `os` | `SmiEntry`; the OS side: `ActivateClear` ... `ActivateTrigger`, `OsSleep` | CTL:152-257 |
| `smm` | `Dispatch`; other handlers register and unregister | CORE:694-711 |
| `search` | `Search`: a round begins, `SMI_STS` is cached | CORE:713-725 |
| `scan` | `Scan` with `SourceIsActive`, one record per step | CORE:727-758 |
| `exhaust` | `Exhaust` with `ContextsMatch` | CORE:760-799 |
| `callback` | the child's operations, then `CallbackReturn` | CORE:800-838 |
| `clear` | `ClearSource` | CORE:840-850 |
| `eos` | `PchSmmSetAndCheckEos`, back to `search` or out | CORE:851-885, `PchxSmmHelpers.c` 245-280 |
| `sleep` | `PchSmmSxGoToSleep` | CORE:887-893, `PchSmmSx.c` 139-216 |
| `rsm` | `Rsm`; drivers loaded in SMM register | |
| `asleep` | the end: another boot follows | |

`Register`, `RegisterFails` and `UnRegister` are CORE:341-562, DISP:36-84 and
CORE:584-646; `Desc` holds the source descriptors of all 25 sources (DISP,
`PchSmmSw.c`, `PchSmmSx.c`, `PchSmmUsb.c`, `PchSmmGpi.c`, TMR), each reduced to
its enable bits (and the kind of register they are in, `AddressType`, which
`PchTcoSmiUnRegister`, DISP:957-986, looks at), its status bit, whether it is reported
through `SMI_STS.TCO`, whether `SCI_EN` masks it, and its `ClearSource` function. An
instance takes the `Sources` it has children for.

The chipset is external: an event sets the status bit of its source at any time, also
when it is set already, and a timer ticks while it is enabled; SMI# is asserted while
an enabled source has its status set and EOS is set; the PCH clears EOS as it asserts SMI#; EOS reads back as
zero when a source is still pending; `SMI_STS.TCO` is latched and stays set
while one of the TCO status registers holds an event, as the bits that stand
for `GPE0_STS`, `PM1_STS` and the root ports do (`StatusRegisters`).

`owed` are the records whose callback has still to be made for an event, and `late`
those of them for which the event came when the search or the walk of its source
had passed them. Both are history variables; section 6 says why `late` is needed.

What the environment does is restricted by a discipline, each part of which is
given up by one element of `Freedoms`: the pool does not reuse, during the
dispatch, the cell of a record unregistered in its callback (`"reuse"`); an SMI
whose children change `SMI_EN` does not interrupt the read-modify-write of the
SMM control driver (`"interrupt"`); children register, unregister, pause and
resume while the status of their source is clear (`"loud"`); no SMI occurs that
no child is registered for (`"orphans"`); the pool does not run out at a
registration that ignores the failure (`"exhaust"`). Section 6 says what happens
without each. A callback that unregisters the record after its own is left out:
the walk has fetched the pointer (CORE:770) and would follow freed memory.

### EspiSmi: steps and source lines

| pc | action | source |
|---|---|---|
| `os` | `Register`, `RegisterFails`, `EspiSmiUnRegister`, `EspiSlaveSmiRegister`, `SmmReadyToLock`; `EspiSmiCallback` starts a walk | ESPI:629-798, 1267-1445, 666-692 |
| `scan` | `Scan`: the next active event | ESPI:689-726 |
| `callback` | the child's operations, `Recover` by the default handler, `CallbackReturn` | ESPI:702-726, 1450-1623 |
| `reset` | the end, after a warm reset | |

Registers are sets of bits; `AndThenOr` is a read-modify-write with the semantics
of write-one-to-clear bits. `owed` are the events of slave 0 that the children of
their type have not been called for. `TcoChild` says that some other child keeps
`SMI_EN.TCO` set, which registration for BIOS write protection never sets
itself.

### PchPeriodicTimer

Time is counted in units of the shortest interval. `age` is the position of each
timer, `since` the real time since a child was last called, `hurried` the
children whose timer has run faster than they asked for in between; `Serve` is
one SMI up to the callbacks (TMR:262-345), `ClearSource` the reprogramming of
both timers after them (TMR:569-576). An SMI is served within one unit of time,
and the PERIODIC timer runs freely, while the SWSMI timer restarts when it is
enabled.

### SyncTimer

One counter from `Start` to `End`, up or down, and both timers started
together; `elapsed`, `gap` and `prompt` are history variables that say how much
time has really passed, how much since the last poll, and whether no poll has
come a whole cycle late.

### MtrrLib and CpuMemoryAttributes

Addresses count pages. A variable MTRR is a record of base, length and type,
which is what the code's shadow array makes of the base and mask registers.
`MtrrLib` has one operator per function of MTRR: `ProgramFixedMtrrs`
(457-531, 1641-1666), `CheckMemoryAttributeMapped` (638-717),
`CombineMemoryAttribute` (802-898, `Combined` is its loop body),
`GetMtrrNumberAndDirection` (951-1008), `Blocks` and `ProgramVariableMtrrs` (what is
programmed for a range, 1785-1887), `MtrrSetMemoryAttribute` (1562-1942) and
`MtrrGetMemoryAttribute` (1237-1331; `VariableType` for the variable MTRRs). Loops
are recursive functions.

| action | source |
|---|---|
| `PeiSetMemoryAttribute` | MTRR:1562-1942, called in PEI |
| `InitializeCpu` with `RefreshGcdMemoryAttributes` | CPU:454-550, ATTR:280-454 |
| `SetMemoryAttributes` with `Synchronize` | CPU:307-401, SYNC:61-67 |
| `EarlyMpInit` | PC:385-398, 487-524 |
| `EnableDisableAP` | DX:774-813; `CpuMpServices` has it in full |

`phase` says which of the two drivers has started. `followers` are the APs that
have loaded the latest `mMtrrTable`, and `loose` the addresses of failed requests
that fixed MTRRs cover; `bared` are the addresses that lost a UC MTRR to a request
for another range, which is merged with it or replaces it (section 6). All three are
history variables. `StartupAllAPs` is one step
here; that it runs `LoadMtrrData` on every enabled AP and waits for all of them is
what `CpuMpServices` shows.

## 3. Runs

| run | instance | states | shows |
|---|---|---|---|
| `SmmRendezvous` | 3 processors, 2 SMIs, 1 service call per run (the switch of the BSP included), symmetric | 589 000 | `LockedUntilOpened`, `SingleBsp`, `CounterCounts`, `SameRun`, `SignalsBalance`, `ProceduresRunOnce`, `SomebodyGoesOn`, and that `SmiGate` is implemented (`ImplementsGate`) |
| `SmmHotPlug` | 2 processors and an empty slot, MTRRs to program, 2 SMIs, 2 service calls per run, symmetric | 1 540 000 | `CpusAccountedFor`, `NoOsCodeBesideHandlers` and `MtrrsSwapped` under add, remove, send, enable and procedures on APs |
| `SmmLiveness` | 2 processors, election, both flows, hardware and software SMIs, fair | 32 000 | `EveryoneLeaves`, `EventsServiced` |
| `Timers` | counter from 6 down to 2, timeout 3, 14 ticks | 1 900 | `SyncMeasures`, `CheckMeasures` |
| `DxeCalls` | 2 APs, HLT and MWAIT loops, every kind of call, 2 calls; no timing assumption | 800 000 | `CountsAgree`, `WorkGoesOn`, `StatesTrue`, `OneAtATime`, `StacksApart`, `ParkedAtBoot`, and that `MpCalls` is implemented (`ImplementsCalls`) |
| `DxeLive` | 2 APs, HLT loop with timeouts, MWAIT loop with `SwitchBSP` and exit, 2 calls, fair | 210 000 | `CallsReturn`, with procedures that hang when their call has a timeout, and `Boots` |
| `PchSmi` | 3 cells, software, sleep, TCO, PME and timer sources, 3 events, 3 operations, fair | 350 000 | `EnablesMatch`, `NoEventLost`, `SleepAfterChildren`, `SmisSettle` |
| `EspiSmi` | 2 children and the default handler, 6 events on 4 registers, 2 slaves, 3 events, 3 operations, fair | 341 000 | `ChildrenReachable`, `NoEventLost`, `EventsServiced` |
| `PchTimers` | 3 children, two intervals of the SWSMI timer and one of the other, 4 operations, fair | 571 000 | `RateFastEnough`, `NoEarlyCall`, `ChildrenCalled` |
| `MtrrRequests` | 32 pages, 8 of them below "1MB" on 2 fixed MTRRs, 4 variable MTRRs and a reserved one, 12 requests, 4 in a row, 1 AP | 43 000 | `RegistersLegal`, `ProcessorsAgree`, `RequestHonoured`, `NeighboursKept`, `GcdAgrees` |
| `DxeSwitchRace` | 2 APs, MWAIT loop, `SwitchBSP` beside a call with an event | | violation of `StacksApart` |
| `PchWriteProtect` | 2 cells, SPI write protection | | violation of `WriteProtectStays` |

*Why these bounds.* Three processors are the smallest number with a BSP and two
APs that can disagree with each other: one that is counted and one that is
late. Two SMIs give a second run that overlaps the end of the first (late
processors, left-over signals, a changed mode); a third would need a processor
to stay behind for two whole runs, which the lock on `Counter` and the wait for
`AllCpusInSync` exclude. One service call per run and two runs suffice for an
operation and its effect in the next run; where several operations may be
pending at once (`SmmHotPlug`) there are two calls per run. For the timers, 14 ticks
are almost three cycles of a 5-count counter. For the DXE services two calls are the smallest number at which one disturbs
the other, or at which `SwitchBSP` changes what the next call finds. Three pool
cells are the eSPI record that is always there and two children that share a
source or an enable bit; three events and three operations are enough for a
registration, two sources pending at once and a change in the callback of one
of them. `EscapeCount` is 2 instead of 3, so that these events suffice to reach
the case in which the dispatcher leaves SMM with a source still pending; with 3
it would take one event more. `Periodic` is not among the `Sources` of `PchSmi`:
clearing one timer clears the tick of the other (`ProgramTimers`), which is the
subject of `PchTimers`. Three eSPI events fill both halves of a register and the
link error whose recovery touches another register. With intervals 1, 2 and 4
the two timers tick together and apart, and a child can ask for a period of
several ticks; four operations register two children and change the rate twice.
With 32 pages and 4 usable MTRRs a single request can need up to four MTRRs, be
programmed from above, or find none left after two others; the twelve requests
include ranges that are equal, nested, overlapping and adjacent, below, across and
above "1MB", with types that prevail over each other, merge, or must not overlap. `RequestHonoured`
and `NeighboursKept` look at the next request as well, so they cover sequences of
four. One AP is enough, for APs do not influence each other; it makes the
difference between enabled and disabled, and between up to date and not.
`MaxSmi`, `MaxCalls`, `MaxElapsed`, `MaxEvents`, `MaxOps` and `MaxSince`
(where real time stops being counted, past every period) are the only
bounds; all but the last are guards of the actions they bound.

*Symmetry* (`Perms`) is used in `SmmRendezvous` and `SmmHotPlug`: with election
on and no hook the processors present at boot are not distinguished, nor are
the empty slots (`BootBsp` is not used then), and no liveness property is
checked there.

*Deadlock* is checked in all runs of the two multi-processor models and in
`MtrrRequests`; `Idle` is
the explicit end of a behaviour there (all SMIs spent and everybody out, or all
calls made). The runs of the PCH modules say `CHECK_DEADLOCK FALSE`: once the
events and operations are used up the system is at rest, asleep or reset, which
is where their behaviours end.

## 4. Fairness

`SmmMpSync`: weak fairness of every processor's own steps and of taking a
latched SMI. In SMM a processor is not preempted (interrupts are off), handlers
return, and a latched SMI is taken as soon as the processor is out of SMM.
Timeouts are not forced to expire or not to expire: an AP in `ap_wait1` takes
some step, whichever is enabled. `CpuMpServices`: weak fairness of the BSP, of
every AP, of time (`Expire`), and of the return of a procedure whose call has
no timeout; of break events of MWAIT only where `BreakEvents` grants them. A
procedure with a timeout may hang for ever. The exchange of roles is part of a
processor's own steps.

`PchSmiDispatcher`: weak fairness of the dispatcher's steps: SMIs are taken and
callbacks return; children, hardware events and the OS side need not do anything.
`PchPeriodicTimer`: weak fairness of time and of serving the ticks. `EspiSmi`:
weak fairness of a walk that has begun, and strong fairness of calling each of the
two parents' callbacks, for both may be due at once. The dispatcher serves the
first record whose source is active, clears the source and searches again, so a
parent that is due again and again has its turn; `SmisSettle` of
`PchSmiDispatcher` shows this one level above.

## 5. What is proved

All theorems hold for every number of processors or slots, every build option
and every bound that satisfies the named assumptions of the modules
(`CpuAssumption`, `LockedAssumption`, `BuildAssumption`, `BoundAssumption`;
`CounterAssumption`, `TimeoutAssumption`; `NumAssumption`; `EspiAssumption`;
`TimerAssumption`).

- `TypeCorrect` (`SmmMpSync_proof`): `Spec => []TypeOK`. Not inductive by
  itself: `WaitForAllAPs` takes from `Run[BspIndex]` and an AP signals
  `MyBsp`, so `BspIndex` must name a processor at those steps. The inductive
  invariant `Inv` is `TypeOK /\ BspOwnsRun /\ BspKnown`: whoever executes
  `BSPHandler` before its resignation is `BspIndex`, and in a build that fixes
  or designates the BSP `BspIndex` names no other processor. One lemma per group of
  actions (`ApStepInv`, `EntryStepInv`, `BspStepInv`, `ServiceStepInv`,
  `HardwareInv`), one step per action.
- `OneBspUntilResignation`: from the same invariant, no two processors execute
  `BSPHandler` between election and the store that sets `BspIndex` to -1. It
  needs no timing assumption. The stronger `SingleBsp`, which extends to the
  reopening of `Counter`, is `OneBsp` below.
- `CountTracksHotPlug`: `CpusAccountedFor` for any sequence of hot-plug
  operations, provided no slot is reused in the run that removed its processor.
  The invariant `PlugInv` adds `OpsAgree`: a slot with a pending addition is
  known, one with a pending removal is not. The argument counts sets
  (`FS_AddElement`, `FS_RemoveElement`).
- The barrier protocol (`SmmMpSync_proof`), under `PromptWindows`, which section 2
  explains and section 6 shows to be needed: `OneBsp`, `CheckInsCounted`,
  `LockHolds`, `OneRunForAll`, `SignalsMatch` and `EveryProcedureOnce` state
  `SingleBsp`, `CounterCounts`, `LockedUntilOpened`, `SameRun`, `SignalsBalance`
  and `ProceduresRunOnce`. Each of these depends on the others, so one invariant,
  `RunInv`, carries them all. It looks at a run from the statement of
  `BSPHandler` that is next (`Stage`) and says for every stage
  - where the processors in the run can be (`PhasesAgree`, a table of stages
    against statements of the AP) and that they read the same mode and follow the
    same BSP (`ModesAgree`, `Follows`);
  - which APs have a signal in their semaphore: at most one, and exactly those of
    `Token` (`TokensFit`). An AP can therefore never take a signal meant for a
    later statement, although all of them go through one semaphore;
  - which APs have not answered yet (`Owing`), and that `NumberOfAPs` in a
    `WaitForAllAPs` is what is in the semaphore of the BSP plus what is owed to it,
    that before the traditional flow closes its gate the semaphore holds the arrivals,
    and that it is empty at any other stage (`Balance`);
  - what `Counter`, `ApCount`, `InsideSmm`, `AllCpusInSync` and the Present flags say
    of where the processors are (`FlagsMean`, `CounterCounts`), and that a
    procedure is outstanding for an AP as long as its Busy lock is held
    (`TasksFit`).

  `PromptWindows` enters at `BspClear` only: from there on no AP may be about
  to take its check-in back, and no old BSP about to clear `AllCpusInSync`.
  The proof has one lemma for what a step of a processor in the run may change
  (`MemberMoves`), one for the leader (`LeaderMoves`), one for processors
  outside of the run (`OutsiderMoves`), and one lemma for each group of actions
  that shows the step to be of that shape; `OneMoves` counts the sets.
- `MtrrsAreSwapped` (`MtrrsSwapped`): the invariant `MtrrInv` says by stage whose
  settings the MTRRs and the backups hold; the order of the barriers in
  `RunInv` does the rest.
- `RendezvousImplementsGate` (`ImplementsGate`): every step of the rendezvous is a step
  of `SmiGate` or leaves it alone (`GateEntry`, `GateAp`, `GateBsp`, `GateService`, which
  name the step of the gate for each action).
- `SomebodyAlwaysGoesOn` (`SomebodyGoesOn`): the processors in SMM never all wait for
  each other, or for one that is not there. `Blocked` names the waits of the code; that a
  processor in SMM can step exactly if it is not `Blocked` was checked by TLC (with
  ENABLED, which is out of the prover's reach) on the instance of `SmmRendezvous` and
  one with MTRRs. If the BSP waits for signals, `Balance` says that somebody owes it one, and
  `Fits` and `TokensFit` that nothing holds up whoever does; if for Present flags, an AP it
  has counted has not set its own; if for a procedure, the AP has its signal
  (`TasksFit`, and `TargetInv` for the blocking call); without a BSP, those that wait
  for a check-in find `Counter` unlocked. This is freedom from deadlock; that everybody
  leaves, which takes fairness, is `EveryoneLeaves`.
- `OsIsStopped` (`NoOsCodeBesideHandlers`): in the traditional flow no processor that SMM knows
  executes normal-mode code without an SMI latched for it while handlers run,
  unless an entry of the processor table is reused while its removal is pending.
  `StopInv` adds what the BSP has
  learnt when it leaves `SmmWaitForApArrival`; `PlugInv` of `CountTracksHotPlug` ties
  `mNumberOfCpus` to the processors known.
- `SyncTimerRight`, `CheckTimeoutRight` (`SyncTimer_proof`): never early and
  exact, for every range, direction and timeout. The invariant adds
  `Measured`: what the timers would compute at this moment equals the time
  passed as long as that is within a cycle, and never exceeds it. `DeltaTick`
  is the key lemma: a tick adds one to the computed difference or starts it at
  zero again.

- `CountsAlwaysAgree` (`CpuMpServices_proof`): `CountsAgree` for any number of
  APs and calls, if callers are `Careful`; without that a refused call overwrites
  `CpuList` (section 6). The counts alone are not inductive: an AP in `CpuList`
  must be found finished exactly once and by the right checker. `CheckedInv`
  says that the APs in `CpuList` are ready, busy or finished, are nobody's target
  of a `StartupThisAP`, and that the call belongs to `sysEvent` or to the BSP's
  polling loop; `KindInv` tells the calls given to single APs from the one given
  to all; `BspInv` says where in a service the BSP is. One lemma per service and
  one for the steps of APs, time and the exchange of roles (`ServicesAlone`).
  The invariant was checked by TLC on the instance of `DxeCalls` first.
- `StacksAlwaysApart`, `StatesAlwaysTrue`, `NeverRunsInVain`, `ReportsAlwaysTrue`,
  `AlwaysOneAtATime`, `AlwaysParkedAtBoot` (`CpuMpServices_proof`): the other safety
  invariants of `CpuMpServices` (`ReportsTrue` and `RunsOnlyWhilePending` are left to `ImplementsCalls` in the runs),
  under `Careful` and `TimeoutsInHlt` (calls have
  timeouts only where APs wait in HLT, as in all configurations; elsewhere a reset
  does not end a procedure, section 6). The six hold up each other, so
  one invariant, `Strong`, carries them all. It is about the calls that are
  `Outstanding` on an AP: given to it, pending, and not yet found finished.
  - `CallInv`: an AP has at most one of them, and each has somebody to find it
    finished: `sysCall`, a `WaitEvent`, or the polling loop of the BSP.
  - `ApInv`, while no switch of the BSP goes on: an AP is Ready, Busy or Finished
    exactly if a call is outstanding on it, and `Serves` says for each of the three
    states where in the loop or the wrapper the AP is, whether it holds the
    procedure of this call, whether the run signal is still set, and how often it
    has run the procedure. Otherwise it is in its loop, without a signal. A
    `CpuDataLock` that is held keeps the BSP from seeing Finished too early.
  - `SwitchInv`: during `SwitchBSP` nothing is outstanding, the other APs are
    in their loops, and `Exchanges` relates the two processors: who is on whose
    stack, what `BSPInfo` and `APInfo` say, how far ahead of the other each can be,
    and when `mBspSwitched` is set. `TailInv`: when the call has ended, the old BSP
    may still have to get back to its loop, and is the only one that can come
    back from a procedure.
  - `ReportInv`, `SingleInv`, `OffInv`, `BootInv`: the accounts of calls, of the one
    AP whose turn it is, of disabled APs and of the APs parked. `BootedInv` is proved
    on top: when the OS starts no call is waited for.

  `Careful` enters where `SwitchBSP`, `EnableDisableAP` and `StartupAllAPs` begin,
  `TimeoutsInHlt` where a call begins. There is one lemma for each action or group of
  actions; what `WakeUpAP`, a reset and a step of the exchange have in common is
  stated once (`Woken`, `Reset`, `ApMoves`, `SwitchMoves`). TLC checked the parts of
  `Strong` on two APs and two calls before they were proved.
- `ServicesImplementCalls` (`ImplementsCalls`): under the same hypotheses the services
  implement `MpCalls`. The refinement needs `Strong` before and after the step and one
  thing more, `OnlyOff`: nobody but the caller disables an AP, so an AP that a call
  passes over is one the caller has disabled, and a call that finds nobody has nobody
  to run on. That an answer is true (`AnswerMaps`) is read off `ReportInv` after the
  step; that whoever is given a procedure is free, off the calls outstanding on it
  (`OwesNothing`, `RestingIsFree`); that a late timeout is not reported after the last
  call, off the polling loop of the BSP (`StillInService`). The rest of the steps change
  nothing that callers see (`UnseenSteps`).
- `PromisesMakeReportsTrue`: `ImplementsCalls => []ReportsTrue`, from the actions of
  `MpCalls` alone: the abstract specification promises what a caller needs.
- `WorkAlwaysGoesOn` (`WorkGoesOn`): under the same hypotheses, and where `BreakEvents`
  grants that MWAIT is ended now and then, an AP that is ready comes to its
  procedure, or waits for its turn in a single-threaded call that another AP is at; and
  from the call of `AsmExchangeRole` to the end of `SwitchBSP` the old and the new BSP
  never both wait for the other. It rests on `Strong` (`Exchanges` has all that the second part
  needs) and on `WakeInv`, which is inductive next to it: an AP in HLT is one
  that `WakeUpAP` wakes by INIT, or parked for the OS (`MannerInv`); one that is ready
  has the run signal and `mApFunction`, or one of its call has (`ReadyInv`), which is where
  `CheckAllAPs` must find the next AP among those that are left (`NextIsLeft`); and nobody takes
  `mApFunction` away, since a reset, which does, comes only where nobody waits for a signal.
  With `LastInv`, `ReadyAp` says that a ready AP is not one parked for the OS. This is
  freedom from deadlock and from lost wake-ups; that every call returns is liveness, and checked by TLC.
- `ReachableAlways` and `NoEventLostEver` (`EspiSmi_proof`): `ChildrenReachable`
  and `NoEventLost` for any number of children, events and operations.
  `ChildrenReachable` becomes inductive with `Typing`, in particular that no child is
  ever registered for the slave event and that a callback is one of an event
  that has a descriptor. `NoEventLost` needs `Outstanding` besides: events
  outstanding have children, and the one being called is not outstanding. The lemmas
  about the descriptors (`Descriptors`, `Masks`) are the point of the proof: two
  events that share a register have enable bits of their own, and every mask
  keeps the status of the neighbour, except the unmasked write that
  `NoEventLost` excepts.
- `EnablesAlwaysMatch` (`PchSmiDispatcher_proof`): `EnablesMatch` for any pool of
  records, any set of sources (both timers together included, which no run has) and any
  interleaving with the SMM control driver. The hypothesis `Disciplined`
  leaves out two of the freedoms of section 6, `"interrupt"` and `"exhaust"`, each of
  which violates it; `"reuse"`, `"loud"` and `"orphans"` are allowed. `EnablesMatch` is not inductive, since
  the control driver writes back a value of `SMI_EN` read earlier: `CopyMatches`
  says that the copy it holds matches the children as well. `TimerBits` and
  `ProgramTimersFacts` show that the programming of the timers, which writes
  bits of both of them whichever is registered, touches nobody else's.
- `AlwaysSleepsLast` and `NoEventEverLost` (`PchSmiDispatcher_proof`):
  `SleepAfterChildren` and `NoEventLost` for any pool of records, any number of
  events, rounds and operations. `Orderly` leaves out all freedoms of section 6
  but `"orphans"`. `NoEventEverLost` further excludes instances with a child
  for one of the `Shared` sources, whose status the code clears along with another one
  (section 6 has the counterexamples): NEWCENTURY, and the timers if there are children
  for both; the invariant `Pending` says the same for every other source of
  such an instance. The invariant, `EventInv`, consists of
  - `ScanInv`: what the search has passed would not be found active now, unless it is
    `late`, so that no record with an event is left behind when the walk begins;
  - `WalkInv`: in the dispatch loop, the status of the source being handled stays
    set until `ClearSource`; every child that is owed a call for it, unless it is
    `late`, is ahead of the walk, across registrations and unregistrations in the
    callbacks (`AheadAppend`, `AheadRemove`); and the record found first still has the
    source when its `ClearSource` is taken, because its cell is not reused;
  - `LateInv`: what is late is owed, and neither a software SMI nor a sleep, which
    the OS cannot ask for while the dispatcher runs. `AlwaysSleepsLast` therefore needs no
    exception;
  - `OwedInv`: what is owed is owed for the current `APM_CNT` and `SLP_TYP`. That
    takes `OsOwesNone`, which takes `EnablesMatch` and `EosInv`: an SMI that is
    due has been latched or will be asserted before the OS goes on, so that a second
    command cannot overtake the first;
  - `TimerInv`: a tick that `Resume` clears is owed to nobody, since an owed timer is
    enabled, and stays so through the read-modify-writes of the control driver;
  - `SleepInv`: while `SxChildWasDispatched` is set, a sleep child that is owed a
    call is one the present walk has still to reach.
  The lemmas `StatusBits` and `ClearFunctions` establish, for the table of all 25
  descriptors, that no two sources share a status bit and which clear function
  belongs to which source.
- `RatesAlwaysFastEnough` (`PchPeriodicTimer_proof`): `RateFastEnough` for any
  number of records and any intervals. The invariant adds that no record is
  listed twice (unregistering removes one occurrence) and that listed intervals
  are of the hardware, so that the minimum over the children of a timer exists.

- `NeverCalledEarly` (`PchPeriodicTimer_proof`): `NoEarlyCall` for any number of
  records, intervals and periods. The code counts a whole interval for a child at every tick,
  so the invariant, `TimeInv`, has to say why a tick always stands for that much
  time, whatever was paused, resumed, registered or cleared since the last one: what
  a record counts as elapsed, plus what it is still to be told of (`Untold`: the age
  of the running interval, or a whole interval when a tick is pending), has really
  passed. It uses that the rate is no faster than the record's own interval,
  which holds for records that were not `hurried`, and that a timer that is
  programmed starts over. Real time is counted up to `MaxSince`, one more than the longest
  interval or period; the hypothesis `HasLongest` says that there is one, as
  there is for every finite set of periods.

- `ProcessorsAlwaysAgree` (`CpuMemoryAttributes_proof`): `ProcessorsAgree` for any number
  of APs, MTRRs and requests, any table of fixed MTRRs and any width of addresses. The
  invariant `AgreeInv` adds that `mMtrrTable` and the APs that follow it differ from the
  BSP in fixed MTRRs of `loose` addresses only, and that the fixed MTRRs are what the
  processor can hold. Its core is a fact about the loop over the fixed MTRRs,
  `FixedProgrammed`: a request, failed or not, has written only ranges inside its own. A
  failed one has touched no variable MTRR. Loops are recursive functions, and what they
  compute is proved by induction over the number of iterations (`Induction` of
  `ProofLemmas`, which speaks of a set of numbers rather than of a predicate, and
  `Recursion`, which shows that such a function exists).

- `RegistersAlwaysLegal`, `RequestAlwaysHonoured` and `NeighboursAlwaysKept`
  (`CpuMemoryAttributes_proof`): `RegistersLegal`, `RequestHonoured` and `NeighboursKept` for
  any number of MTRRs, requests and reserved MTRRs, any width of addresses and any ranges.
  The invariant is `LegalInv`: `RegistersLegal` and the kinds of values the MTRRs hold. The
  work is in what the loops of the library compute, for every input:
  - `BlocksFill`: the blocks into which a range is split (by the alignment of its base, by
    the largest power of two, or by one block that exceeds it and UC blocks for the excess)
    are aligned powers of two inside memory, are as many as `GetMtrrNumberAndDirection`
    has counted, and fill the range, the excess uncached;
  - `CombineFacts`: the invariant `CombineInv` of the loop over the MTRRs says which range
    the request has grown to, that this range is the request's own and that of MTRRs of its
    type, which MTRRs are left, and that none of them crosses it with a type that must
    not overlap. Two aligned powers of two that overlap are nested (`Nested`), which
    is what the widening of the range relies on;
  - `PlaceFacts`: since the count has been compared with the MTRRs left, every block finds
    an unused one, below the reserved ones, although the code does not look;
  - `MappedRight`: if `CheckMemoryAttributeMapped` finds a range mapped, every address of it
    has the type. It calls itself for the parts that an MTRR cuts off, which are
    smaller (`CutFacts`): so the function exists (`MeasuredRecursion`), and what is
    left after the loop lies in the same MTRRs throughout (`CutInv`, `SameCover`).
  `Outcome` puts this together: the types of the MTRRs that cover an address before and after
  a request, within its range and outside of it (`VariableOutcome`, `RequestOutcome`).
  Each theorem follows from `Outcome` by a case distinction, together with `TypeFacts`, what
  the loop of the precedence rules computes from a set of types whose overlap is defined.
  Below 1MB `FixedHonoured` and `FixedNeighbours` follow from `FixedProgrammed`.

- `GcdAlwaysAgrees` (`CpuMemoryAttributes_proof`): `GcdAgrees`, under the same hypotheses and
  from the same invariant, `LegalInv`. `RefreshGcdMemoryAttributes` does not ask the
  library for the type of an address; it paints the map with the WB MTRRs, then with the
  other types, then with the UC ones, and last with the fixed MTRRs. `PaintTypesFacts`: one
  loop leaves at every address the type of some MTRR of the loop that covers it, or what
  was there. `PaintedType`: where the types that overlap are defined to, the three loops in
  this order give what the precedence rules give. Below 1MB ranges of equal type are
  collected into a run, which is painted when another type begins: `RunInv` says that
  everything before the run has its final type, and that the run is of one type
  up to the address that has been reached (`ExtendedStep`, `RangesFollow`), so that the
  run left over at the end is all that is still to be painted (`PaintFixedFacts`).

Every safety invariant and action property of the passing runs is now stated by a
theorem. Only model-checked: the liveness properties and everything about fairness
(outside the prover's reach).
The types of the variables of `CpuMpServices`, `EspiSmi` and `PchSmiDispatcher` are
part of their invariants (`Typing`), as far as the proofs need them.

## 6. Findings and further observations

Two runs exhibit a disagreement between the code and its own comments; see
`findings` in `PROJECT.json` for the quotes:

- `DxeSwitchRace`: the old BSP sets the global `mBspSwitched` (DX:1397) and only
  means itself, but the AP loop of whichever processor comes back from a
  procedure next takes number and stack of the new AP (AS:319-337). When
  another AP is in a call with an event during `SwitchBSP`, two processors run on
  one stack.
- `PchWriteProtect`: `PchTcoSmiUnRegister` is to refuse to unregister the handlers of
  write protection ("SPI Write Protect cannot be disabled", DISP:972, "eSPI/LPC Write
  Protect cannot be disabled", DISP:981), and asks whether the second enable bit is in
  a register of `ACPI_ADDR_TYPE` (DISP:966, 975). The two descriptors have
  `PCIE_ADDR_TYPE` there (DISP:579, 741), so nothing is ever refused, and
  unregistering clears `BLE` or `LE`. `mReadyToLock` is not looked at either, against
  "Return access denied if the SmmReadyToLock event has been triggered" (DISP:954).
  Whether the hardware lets `BLE` be cleared once it is set is outside of the model.

Further observations, each reproduced with the constants given (the other
constants are those of the configuration named).

SMM:

- *Software SMI in the relaxed flow* (`SmmLiveness.cfg`, `event # {} ~> event = {}`):
  `ClearSmi` clears the APM status after the handlers (MP:606), the order that the comment
  at MP:498-500 warns of. In the traditional flow all processors are in SMM by then; in the
  relaxed flow one may still be in the OS and write the APM port, and its software SMI is
  dropped. `EventsServiced` excepts exactly these (`overlooked`).
- *Give-up race* (`SmmRendezvous.cfg` with `PromptWindows = FALSE`,
  `LockedUntilOpened`): an AP that read `InsideSmm` just before the BSP set it
  takes its check-in back after the lock-down and so unlocks `Counter` in the
  middle of the run (MP:779). The comment at MP:539-541 knows the window and
  relies on the length of the timeout.
- *Slot reuse* (`SmmHotPlug.cfg` with `"reuse"` added to `Services`,
  `CpusAccountedFor`): an addition overwrites the pending removal of the same
  slot (CS:304), and `mNumberOfCpus` stays one too large, against CS:358.
- *Switching the BSP* (`SmmLiveness.cfg` with `Services = {"switch"}`,
  `EventsServiced`): the candidate may consume the next SMI as a late-comer of
  the closing run; the others are no candidates, give up, and the SMI is
  missed (MP:1348, 786), against CS:213 "BSP will be switched in next SMI."
- *Arrival service*: in the traditional flow `Counter` holds the lock-down
  value while handlers run, so the assertion `Counter <= mNumberOfCpus` at
  MP:1750 fails whenever a handler calls the service.

DXE (constants of `DxeLive.cfg` unless stated otherwise):

- *Aborted procedure* (`Calls = [run |-> {"this", "blocking", "timeout"}]`,
  `MaxCalls = 3`, `RunsOnlyWhilePending`): the reset after a timeout leaves
  procedure and run signal (DX:1493), so in the polling loop an aborted
  procedure runs again.
- *Refused call* (`Calls = [hlt |-> {"all", "event"}]`, `Careful = FALSE`,
  `CallsReturn`): a refused `StartupAllAPs` has already overwritten `CpuList` of
  the outstanding one (DX:295), which never completes.
- *Exit from boot services* (`NumAPs = 1`,
  `Calls = [hlt |-> {"this", "event", "exit"}]`, `MaxCalls = 1`, `Boots`): the
  wait for APs (MC:256) keeps the callback that would end it from running.
  `ReAllocateMemoryForAP` (MC:304) has the same loop.
- *SwitchBSP race and liveness* (`Calls = [mwait |-> {"this", "event",
  "switch"}]`, `Careful = FALSE`, `MaxCalls = 3`, `CallsReturn`): after the
  mix-up of `DxeSwitchRace` a later call is never answered.
- *Disabling a busy AP* (`DxeCalls.cfg` with `Careful = FALSE`, `StatesTrue`):
  `ApProcWrapper` stores Busy and Finished over Disabled (DX:1282, 1408).
- *MWAIT* (`BreakEvents = FALSE`, `CallsReturn` and `WorkGoesOn`): a run signal stored before
  MONITOR does not wake the AP (AS:361-372); something else has to.
- *Orphaned lock* (`DxeCalls.cfg`, where `PromptWindows` is `FALSE`): the state
  `spin` is reachable: an INIT hits an AP holding `CpuDataLock`, and the BSP spins
  at DX:1501. `CallsReturn` excludes it by its premise.
- The slot of the new BSP stays Busy after `SwitchBSP`, and that of the target
  Idle until its wrapper has begun; neither is looked at in between.

PCH SMI dispatcher (`PchSmi.cfg`, from the second on with one element in `Freedoms`):

- *A second event of the source being handled* (no freedom needed; `NoEventLost` without
  `c \in late`): the status is cleared after the children have been called (CORE:840-844).
  An event that comes when the walk has passed its child, or the search a record that
  was not active then, while a later record of the same source is found, is cleared
  with the one before, and its child is not called for it. (A child that reads its
  device until there is nothing left may see it all the same, if it comes while the
  child runs.) The comment at CORE:873-875 provides for "an asynchronous SMI that occurs while
  processing the Callback" and means to "let all of the drivers (including this one) have an
  opportunity to scan for the SMI and handle it". `NoEventLost` and `SmisSettle` except
  these events and no others: leaving either of the two cases (`BehindWalk`,
  `BehindSearch`) out of `late` makes `NoEventLost` fail. Events of other sources, and
  those that come before the walk is past their child, are not lost.
- `"reuse"`, `SleepAfterChildren`: the dispatcher reads the type of a record after its
  callback (CORE:829), which may have unregistered and freed it (CORE:766-769 provides
  for that); when the memory holds a new sleep child by then, the machine is put to
  sleep without a request, against CORE:887-888.
- `"interrupt"`, `EnablesMatch`: an SMI whose children change `SMI_EN` between the
  read and the write of `SmmClear` or `SmmTrigger` (CTL:155-157, 234-257) has its
  change undone.
- `"loud"`, `NoEventLost`: registering a second child of a source clears a status
  that the first has not seen (CORE:533-562, DISP:1330-1356).
- Two sources of which one is cleared with the other (no freedom needed; `NoEventLost`):
  with `Sources = {"Mch", "NewCentury"}`, a century event that comes in while another
  TCO source is handled is cleared at the end of the round without its child
  having been called (CORE:742, 855); with `Sources = {"Periodic", "Swsmi"}`,
  programming the timers clears a tick of either (TMR:569-576, CORE:525).
- `"orphans"`, `SmisSettle`: a TCO status nobody is registered for is cleared by
  nobody, `SMI_STS.TCO` stays set, and SMIs follow each other for ever.
- `"exhaust"`, `EnablesMatch`: the register functions of PME, ACPI, GPIO unlock,
  MCSMI and others clear and enable their source although `PchSmiRecordInsert`
  has failed (DISP:1347-1353).

eSPI (`EspiSmi.cfg`):

- *Slave handler* (`SlaveHandlerStays`): `EspiSmiEventCounter` of the slave event
  is never incremented, so that the next `EspiSmiUnRegister` of any child removes
  the handler (ESPI:1422-1441), against ESPI:1251-1252.
- `EspiRecoverFromFatalError` writes `FCERR` back unmasked (ESPI:1602-1607) and so
  clears a fatal flash error nobody has seen; `NoEventLost` and
  `EventsServiced` except it.
- Errors of slave 1 are enabled but neither looked at nor cleared; one of them
  keeps the SMI asserted.
- Registration for BIOS write protection never sets `SMI_EN.TCO` (`TcoChild`);
  disabling link errors leaves `LFET1E` set; when the child's record cannot be
  allocated its parent stays registered.

Periodic timers (`PchTimers.cfg`):

- *Early calls* (`NeverEarly`): a child's elapsed time grows by its own interval
  (TMR:282) although the timer runs at the shortest interval of all children, so
  that it is called early; `SmmPeriodicTimerDispatch2.h` promises "a time greater
  than the time Period".
- Children of the PERIODIC timer are left out of `ChildrenCalled`: when the ticks
  of the two timers coincide and an SWSMI record comes first, the clearing of its
  source drops the other timer's tick every time.
- A `SmiTickInterval` of 0 is rejected (CORE:520), although the note in
  the protocol's header calls for a default.

Memory types (all visible in the states of `MtrrRequests.cfg` as exceptions that
its properties make):

- A request for WB over part of a UC MTRR, or for WB over part of a WT one,
  reports success and changes nothing there (`Overruled`; MTRR:870-880), although
  the header at MTRR:1544 says "The attributes were set for the memory region".
- A request that fails after the part below 1MB leaves that part written on the
  BSP, while neither `mMtrrTable` nor the APs are updated (`loose`; MTRR:1894,
  CPU:368), against SYNC:33 "Each time MTRRs are written, this memory region
  will be updated accordingly".
- An AP that is disabled during an update and enabled later keeps its old MTRRs
  (`followers`), against CPU:374 "Synchronize the update with all APs".
- `CombineMemoryAttribute` compares each MTRR with the range as widened by the
  MTRRs before it, not with the requested one (MTRR:844): after WB for [0, 16) and
  [16, 32) and UC for [0, 32), a request for WB on [12, 20) turns all of [0, 32) to
  WB (`Kept` allows what lay behind the MTRRs that are merged).
- For the same reason a UC MTRR outside the requested range is dropped when the widened
  range comes to match it (MTRR:870), with whatever it hid: after WC for [31, 32),
  WB for [24, 31), which is programmed from above as WB for [24, 32) with UC for
  [31, 32), and UC for [16, 32), a request for WB on [16, 25) leaves WC and WB
  overlapping at 31, which MTRR:888 calls invalid (`bared` excepts the address in
  `RegistersLegal` and `GcdAgrees`). What `MtrrPrecedence` then makes of more than two
  types depends on the order of the MTRRs, so that `NeighboursKept` promises nothing
  for memory that has come to overlap that way. `MtrrRequests` finds it at the fourth request.

## 7. Limits

The SMI entry code, page tables and save-state handling are not modelled;
memory is sequentially consistent (x86 with interlocked operations on all
semaphores, but plain stores elsewhere: store buffers are not modelled).
Procedures in SMM return. `Counter` and `mNumberOfCpus` are compared as the
code compares them; the performance counter is assumed to be polled by one
processor at a time. `mApFunction`, which the code reads twice, is read once.

Hazards that no property covers: the comparison of the arrival service (MP:1750,
section 6); a timeout longer than the cycle of the performance counter, which would
never be seen to have passed (ST:121; 10 ms against a counter of minutes);
`mApFunction` set to NULL between its test and its call by the reset of another AP
(DX:1320); disabled APs, which are not sent to their final loop and keep polling
memory the OS reuses (MC:260, on purpose).

The dispatcher runs on one processor, as `SmmMpSync` shows that handlers do; the
two are not composed, and the software SMI of `SmmMpSync` is one source of
`PchSmiDispatcher`. `EspiSmi` takes the dispatcher above it as calls of the
parents' callbacks while SMI# is asserted, and `PchPeriodicTimer` abstracts it to
one `Serve` per tick. Registers are sets of bits; the power button, link
equalisation and NMI sources, which have no enable or leave clearing and enabling
to their callers, are not among the descriptors.

## 8. Plan

1. An abstract specification of the dispatcher ("every enabled source that is
   active is dispatched before SMIs come to rest") with `PchSmiDispatcher` and
   `EspiSmi` shown to implement it.
2. The drivers shared between DXE and SMM (SMBus ownership, SPI cycle in
   progress).
3. Memory types: two processors that take part in an update while a third is disabled,
   once the instance can be made smaller.
