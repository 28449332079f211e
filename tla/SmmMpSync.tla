----------------------------- MODULE SmmMpSync -----------------------------
(***************************************************************************)
(* The rendezvous of all logical processors in System Management Mode:     *)
(* SmiRendezvous, BSPHandler, APHandler and the semaphores under them      *)
(* (PiSmmCpuDxeSmm/MpService.c), together with the services an SMI handler *)
(* may call on the BSP while the run is in progress (SmmStartupThisAp,     *)
(* SmmBlockingStartupThisAp, SmmSwitchBsp, SmmAddProcessor,                *)
(* SmmRemoveProcessor, the sync mode and AP arrival services).             *)
(*                                                                         *)
(* One step is one access to memory that another processor can see, or a   *)
(* run of accesses no other processor can tell apart.  pc[c] names the     *)
(* statement that processor c executes next; the table in README.md gives  *)
(* the source line of every value.                                         *)
(***************************************************************************)
EXTENDS Integers, FiniteSets

CONSTANTS
  CPU,             \* slots 0 .. mMaxNumberOfCpus - 1 of CpuData
  NoBsp,           \* BspIndex == -1: no BSP elected
  Locked,          \* (UINT32)-1, the value a locked-down semaphore holds
  Election,        \* PcdCpuSmmEnableBspElection
  BootBsp,         \* the fixed BSP (index 0) of a build without election
  HookBsp,         \* whom PlatformSmmBspElection designates; NoBsp: it fails
  NeedMtrrs,       \* NeedConfigureMtrrs ()
  SmiKinds,        \* the SMIs of this instance: hardware events, software SMIs
  PromptWindows,   \* timing assumption of the code, see Window below
  Services,        \* the services SMI handlers call in this instance
  InitialCpus,     \* processors present at boot
  MaxSmi,          \* bound: SMIs the hardware raises in a behaviour
  MaxCalls         \* bound: service calls of one SMM run

ServiceNames == {"startup", "blocking", "mode", "switch", "add", "remove", "reuse", "arrival",
                 "send", "enable"}

ASSUME CpuAssumption == IsFiniteSet(CPU) /\ NoBsp \notin CPU
ASSUME LockedAssumption == Locked \in Nat /\ Locked > Cardinality(CPU) + 1
ASSUME BuildAssumption ==
  /\ Election \in BOOLEAN /\ NeedMtrrs \in BOOLEAN /\ SmiKinds \subseteq {"hardware", "apm"}
  /\ PromptWindows \in BOOLEAN
  /\ BootBsp \in CPU /\ HookBsp \in CPU \cup {NoBsp}
  /\ InitialCpus \subseteq CPU /\ BootBsp \in InitialCpus
ASSUME BoundAssumption ==
  MaxSmi \in Nat /\ MaxCalls \in Nat /\ Services \subseteq ServiceNames

VARIABLES
  \* Hardware: the top-level SMI status bit, the SMI sources (events pending
  \* until a handler services them, or dropped by ClearSmi), and for every
  \* processor whether an SMI is latched.
  smiStatus, event, smiPending, smiLeft,
  \* SMM_DISPATCHER_MP_SYNC_DATA
  Counter, InsideSmm, AllCpusInSync, BspIndex, SwitchBsp, CandidateBsp,
  SyncModeToBeSet, EffectiveSyncMode,
  \* SMM_CPU_DATA_BLOCK of every processor
  Run, Busy, Present,
  \* mNumberOfCpus, ProcessorInfo[].ProcessorId # INVALID_APIC_ID, Operation[],
  \* and whether SMIs are enabled for the processor (register SmmRegSmmEnable)
  mNumberOfCpus, ProcessorId, Operation, SmmEnable,
  \* The stack of every processor
  pc, ValidSmi, BspInProgress, SyncMode, MyBsp,
  \* The stack of BSPHandler: ApCount, what WaitForAllAPs still waits for, the
  \* AP that SmmBlockingStartupThisAp waits for, service calls made.
  ApCount, NumberOfAPs, target, calls,
  \* History: procedures scheduled and not yet run on an AP
  owed,
  \* The MTRRs (shared by the threads of a core) and every thread's backup
  mtrr, savedMtrr

hwVars    == <<smiStatus, event, smiPending, smiLeft>>
runVars   == <<InsideSmm, AllCpusInSync, BspIndex>>
modeVars  == <<SyncModeToBeSet, EffectiveSyncMode>>
switchVars == <<SwitchBsp, CandidateBsp>>
plugVars  == <<mNumberOfCpus, ProcessorId, Operation, SmmEnable>>
frameVars == <<ValidSmi, BspInProgress, SyncMode, MyBsp>>
bspVars   == <<ApCount, NumberOfAPs, target, calls>>
mtrrVars  == <<mtrr, savedMtrr>>

vars == <<hwVars, Counter, runVars, switchVars, modeVars, Run, Busy, Present,
          plugVars, pc, frameVars, bspVars, owed, mtrrVars>>
-----------------------------------------------------------------------------
Modes == {"tradition", "relaxed"}

\* Values of pc.  In SmiRendezvous before and after the handlers:
EntryPc == {"sampled", "checkin", "route"}
ExitPc  == {"quit", "exitwait"}

\* In APHandler:
ApPc == {"ap_wait1", "ap_wait2", "ap_giveup", "ap_present", "ap_arrive", "ap_save",
         "ap_set", "ap_loop", "ap_check", "ap_run", "ap_leave", "ap_restore",
         "ap_ready", "ap_reset", "ap_done"}

\* In BSPHandler:
BspPc == {"bsp_enter", "bsp_clear", "bsp_arrival", "bsp_insync", "bsp_lock",
          "wait_ready", "wait_saved", "wait_set", "bsp_entry", "bsp_core", "bsp_block", "bsp_drain",
          "wait_present", "bsp_exit", "bsp_notify", "wait_done", "bsp_restore",
          "wait_restored", "bsp_reset", "wait_reset", "bsp_open", "bsp_resync"}

PcValues == {"normal"} \cup EntryPc \cup ExitPc \cup ApPc \cup BspPc

\* The statements of BSPHandler that are inside a call of WaitForAllAPs.
WaitPc == {"wait_ready", "wait_saved", "wait_set", "wait_done", "wait_restored", "wait_reset"}

\* Processors that hold one unit of Counter while it counts: they have checked
\* in, have not given up, and their run has not ended.
CountedPc == {"route"} \cup ApPc \cup (BspPc \ {"bsp_resync"})
Counted == {c \in CPU : pc[c] \in CountedPc}

Goto(c, label) == pc' = [pc EXCEPT ![c] = label]
Step(c, from, to) == pc[c] = from /\ Goto(c, to)

\* Traditional flow, or MTRRs to program: the APs are gathered before the SMI
\* handlers run.  Otherwise (relaxed flow) they are gathered afterwards.
GatherFirst(c) == SyncMode[c] = "tradition" \/ NeedMtrrs
-----------------------------------------------------------------------------
(* Semaphores and spin locks                                               *)

\* ReleaseSemaphore: one up, except that a locked-down semaphore stays locked.
Released(v) == IF v = Locked THEN v ELSE v + 1

\* The unsigned 32-bit Value - 1.
Dec(v) == (v + Locked) % (Locked + 1)

\* ReleaseAllAPs: every AP whose Present flag is set gets one signal.  An
\* iteration of the loop touches the data block of one AP only, and that AP
\* moves only after its own iteration.
ReleaseAllAPs ==
  Run' = [c \in CPU |-> IF c # BspIndex /\ Present[c] THEN Released(Run[c]) ELSE Run[c]]

\* WaitForAllAPs: take all the signals that have come in, until NumberOfAPs of
\* them have been taken.  A Count read before the last signal came in takes
\* what an earlier step would have taken.
WaitForAllAPs(c) ==
  /\ pc[c] \in WaitPc /\ NumberOfAPs > 0 /\ Run[BspIndex] > 0
  /\ NumberOfAPs' = NumberOfAPs - Run[BspIndex]
  /\ Run' = [Run EXCEPT ![BspIndex] = 0]
  /\ UNCHANGED <<hwVars, Counter, runVars, switchVars, modeVars, Busy, Present, plugVars, pc,
                 frameVars, ApCount, target, calls, owed, mtrrVars>>

\* An AP's WaitForSemaphore on its own Run, then ReleaseSemaphore on the Run
\* of the BSP.  The AP alone takes from its own Run, so what it takes and what
\* it signals next may be one step.
TakeOwn(c) == Run[c] > 0 /\ Run' = [Run EXCEPT ![c] = Dec(@)]
SignalBsp(c) == Run' = [Run EXCEPT ![MyBsp[c]] = Released(@)]
TakeAndSignal(c) ==
  LET taken == [Run EXCEPT ![c] = Dec(@)]
  IN  Run[c] > 0 /\ Run' = [taken EXCEPT ![MyBsp[c]] = Released(@)]
-----------------------------------------------------------------------------
Init ==
  /\ smiStatus = FALSE /\ event = {} /\ smiLeft = MaxSmi
  /\ smiPending = [c \in CPU |-> FALSE]
  /\ Counter = 0 /\ InsideSmm = FALSE /\ AllCpusInSync = FALSE
  /\ BspIndex = IF Election THEN NoBsp ELSE BootBsp
  /\ SwitchBsp = FALSE /\ CandidateBsp = {}
  /\ SyncModeToBeSet = "tradition" /\ EffectiveSyncMode = "tradition"
  /\ Run = [c \in CPU |-> 0]
  /\ Busy = [c \in CPU |-> FALSE]
  /\ Present = [c \in CPU |-> FALSE]
  /\ mNumberOfCpus = Cardinality(InitialCpus)
  /\ ProcessorId = [c \in CPU |-> c \in InitialCpus]
  /\ Operation = [c \in CPU |-> "none"]
  /\ SmmEnable = [c \in CPU |-> TRUE]
  /\ pc = [c \in CPU |-> "normal"]
  /\ ValidSmi = [c \in CPU |-> FALSE]
  /\ BspInProgress = [c \in CPU |-> FALSE]
  /\ SyncMode = [c \in CPU |-> "tradition"]
  /\ MyBsp = [c \in CPU |-> NoBsp]
  /\ ApCount = 0 /\ NumberOfAPs = 0 /\ target = NoBsp /\ calls = 0
  /\ owed = [c \in CPU |-> 0]
  /\ mtrr = "os" /\ savedMtrr = [c \in CPU |-> "none"]
-----------------------------------------------------------------------------
(* Hardware                                                                *)

\* SMIs of a processor that is not there or disabled stay latched.
CanEnter(c) == smiPending[c] /\ ProcessorId[c] /\ SmmEnable[c]

\* A new event: the status bit is set and the SMI reaches every processor,
\* where it stays latched until that processor can enter SMM.  A software SMI
\* (a write to the APM port) comes from a processor that executes normal-mode code.
SmiRaise ==
  /\ smiLeft > 0 /\ smiLeft' = smiLeft - 1
  /\ \E k \in SmiKinds :
       /\ k = "apm" => \E c \in CPU : ProcessorId[c] /\ pc[c] = "normal" /\ ~CanEnter(c)
       /\ event' = event \cup {k}
  /\ smiStatus' = TRUE
  /\ smiPending' = [c \in CPU |-> smiPending[c] \/ ProcessorId[c]]
  /\ UNCHANGED <<Counter, runVars, switchVars, modeVars, Run, Busy, Present, plugVars, pc,
                 frameVars, bspVars, owed, mtrrVars>>

\* SendSmiIpi to a set of processors.
SendSmiIpi(targets) ==
  /\ smiPending' = [c \in CPU |-> smiPending[c] \/ c \in targets]
  /\ UNCHANGED <<smiStatus, event, smiLeft>>

\* Every processor is back in normal mode and no SMI is coming: nothing left
\* to do in a behaviour of at most MaxSmi SMIs.
Idle ==
  /\ smiLeft = 0 /\ \A c \in CPU : pc[c] = "normal" /\ ~CanEnter(c)
  /\ UNCHANGED vars
-----------------------------------------------------------------------------
(* SmiRendezvous                                                           *)

\* A latched SMI is taken; ValidSmi is sampled first.
EnterSmm(c) ==
  /\ CanEnter(c) /\ Step(c, "normal", "sampled")
  /\ smiPending' = [smiPending EXCEPT ![c] = FALSE]
  /\ ValidSmi' = [ValidSmi EXCEPT ![c] = smiStatus]
  /\ UNCHANGED <<smiStatus, event, smiLeft, Counter, runVars, switchVars, modeVars, Run, Busy,
                 Present, plugVars, BspInProgress, SyncMode, MyBsp, bspVars, owed, mtrrVars>>

\* BspInProgress is sampled second; a spurious SMI goes straight to Exit.
SampleBsp(c) ==
  /\ pc[c] = "sampled"
  /\ BspInProgress' = [BspInProgress EXCEPT ![c] = InsideSmm]
  /\ ValidSmi' = [ValidSmi EXCEPT ![c] = FALSE]
  /\ Goto(c, IF InsideSmm \/ ValidSmi[c] THEN "checkin" ELSE "normal")
  /\ UNCHANGED <<hwVars, Counter, runVars, switchVars, modeVars, Run, Busy, Present, plugVars,
                 SyncMode, MyBsp, bspVars, owed, mtrrVars>>

\* ReleaseSemaphore (&Counter): refused when the BSP has locked it down.
CheckIn(c) ==
  /\ pc[c] = "checkin"
  /\ Counter' = Released(Counter)
  /\ IF Counter = Locked
       THEN Goto(c, "quit") /\ UNCHANGED Busy
       ELSE Goto(c, "route") /\ Busy' = [Busy EXCEPT ![c] = FALSE]
  /\ UNCHANGED <<hwVars, runVars, switchVars, modeVars, Run, Present, plugVars,
                 frameVars, bspVars, owed, mtrrVars>>

\* Faulty variant: a plain store instead of the compare-exchange with -1.
BspElection_NoCompare(c) ==
  IF ~Election \/ (SwitchBsp /\ c \notin CandidateBsp) THEN BspIndex ELSE c

\* The BSP election: who the BSP is after processor c has taken part in it.
BspElection(c) ==
  IF ~Election \/ (SwitchBsp /\ c \notin CandidateBsp) THEN BspIndex
  ELSE IF HookBsp # NoBsp THEN IF HookBsp = c THEN c ELSE BspIndex
  ELSE IF BspIndex = NoBsp THEN c ELSE BspIndex

\* Dispatch to BSPHandler or to APHandler.
BecomeBsp(c) ==
  /\ pc[c] = "route" /\ ~BspInProgress[c] /\ BspElection(c) = c
  /\ BspIndex' = c
  /\ SwitchBsp' = FALSE
  /\ CandidateBsp' = IF SwitchBsp THEN {} ELSE CandidateBsp
  /\ SyncMode' = [SyncMode EXCEPT ![c] = EffectiveSyncMode]
  /\ Goto(c, "bsp_enter")
  /\ UNCHANGED <<hwVars, Counter, InsideSmm, AllCpusInSync, modeVars, Run, Busy, Present,
                 plugVars, ValidSmi, BspInProgress, MyBsp, bspVars, owed, mtrrVars>>

BecomeAp(c) ==
  /\ pc[c] = "route" /\ (BspInProgress[c] \/ BspElection(c) # c)
  /\ SyncMode' = [SyncMode EXCEPT ![c] = EffectiveSyncMode]
  /\ Goto(c, "ap_wait1")
  /\ UNCHANGED <<hwVars, Counter, runVars, switchVars, modeVars, Run, Busy, Present, plugVars,
                 ValidSmi, BspInProgress, MyBsp, bspVars, owed, mtrrVars>>

\* Exit: both waits for AllCpusInSync to fall, and RSM.
LeaveSmm(c) ==
  /\ pc[c] \in ExitPc /\ ~AllCpusInSync
  /\ Goto(c, "normal")
  /\ BspInProgress' = [BspInProgress EXCEPT ![c] = FALSE]
  /\ SyncMode' = [SyncMode EXCEPT ![c] = "tradition"]
  /\ MyBsp' = [MyBsp EXCEPT ![c] = NoBsp]
  /\ savedMtrr' = [savedMtrr EXCEPT ![c] = "none"]
  /\ UNCHANGED <<hwVars, Counter, runVars, switchVars, modeVars, Run, Busy, Present, plugVars,
                 ValidSmi, bspVars, owed, mtrr>>
-----------------------------------------------------------------------------
(* APHandler                                                               *)

\* The BSP shows up before the first or the second timeout.
ApSeesBsp(c) ==
  /\ pc[c] \in {"ap_wait1", "ap_wait2"} /\ InsideSmm
  /\ Goto(c, "ap_present")
  /\ UNCHANGED <<hwVars, Counter, runVars, switchVars, modeVars, Run, Busy, Present, plugVars,
                 frameVars, bspVars, owed, mtrrVars>>

\* Faulty variant: the AP never gives up.
ApTimeout1_Retries(c) ==
  /\ pc[c] = "ap_wait1" /\ ~InsideSmm /\ SendSmiIpi({BspIndex} \ {NoBsp})
  /\ UNCHANGED <<Counter, runVars, switchVars, modeVars, Run, Busy, Present, plugVars, pc,
                 frameVars, bspVars, owed, mtrrVars>>

\* First timeout: an SMI IPI to the BSP when it is known, else no second try.
ApTimeout1(c) ==
  /\ pc[c] = "ap_wait1" /\ ~InsideSmm
  /\ IF BspIndex # NoBsp
       THEN Goto(c, "ap_wait2") /\ SendSmiIpi({BspIndex})
       ELSE Goto(c, "ap_giveup") /\ UNCHANGED hwVars
  /\ UNCHANGED <<Counter, runVars, switchVars, modeVars, Run, Busy, Present, plugVars,
                 frameVars, bspVars, owed, mtrrVars>>

ApTimeout2(c) ==
  /\ Step(c, "ap_wait2", "ap_giveup") /\ ~InsideSmm
  /\ UNCHANGED <<hwVars, Counter, runVars, switchVars, modeVars, Run, Busy, Present, plugVars,
                 frameVars, bspVars, owed, mtrrVars>>

\* Faulty variant: the check-in is not taken back.
ApGiveUp_KeepsCheckIn(c) ==
  /\ Step(c, "ap_giveup", "exitwait") /\ Counter # 0
  /\ UNCHANGED <<hwVars, Counter, runVars, switchVars, modeVars, Run, Busy, Present, plugVars,
                 frameVars, bspVars, owed, mtrrVars>>

\* WaitForSemaphore (&Counter): the AP takes its check-in back.
ApGiveUp(c) ==
  /\ Step(c, "ap_giveup", "exitwait")
  /\ Counter # 0 /\ Counter' = Dec(Counter)
  /\ UNCHANGED <<hwVars, runVars, switchVars, modeVars, Run, Busy, Present, plugVars,
                 frameVars, bspVars, owed, mtrrVars>>

\* Faulty variant: the arrival is signalled in the relaxed flow too.
ApPresent_AlwaysSignals(c) ==
  /\ Step(c, "ap_present", "ap_arrive")
  /\ MyBsp' = [MyBsp EXCEPT ![c] = BspIndex]
  /\ Present' = [Present EXCEPT ![c] = TRUE]
  /\ UNCHANGED <<hwVars, Counter, runVars, switchVars, modeVars, Run, Busy, plugVars,
                 ValidSmi, BspInProgress, SyncMode, bspVars, owed, mtrrVars>>

ApPresent(c) ==
  /\ pc[c] = "ap_present"
  /\ MyBsp' = [MyBsp EXCEPT ![c] = BspIndex]
  /\ Present' = [Present EXCEPT ![c] = TRUE]
  /\ Goto(c, IF GatherFirst(c) THEN "ap_arrive" ELSE "ap_loop")
  /\ UNCHANGED <<hwVars, Counter, runVars, switchVars, modeVars, Run, Busy, plugVars,
                 ValidSmi, BspInProgress, SyncMode, bspVars, owed, mtrrVars>>

\* Notify the BSP of the arrival.
ApArrive(c) ==
  /\ Step(c, "ap_arrive", IF NeedMtrrs THEN "ap_save" ELSE "ap_loop")
  /\ SignalBsp(c)
  /\ UNCHANGED <<hwVars, Counter, runVars, switchVars, modeVars, Busy, Present, plugVars,
                 frameVars, bspVars, owed, mtrrVars>>

\* Faulty variant: backup and replacement in one phase.
ApSave_SetsToo(c) ==
  /\ Step(c, "ap_save", "ap_set") /\ TakeAndSignal(c)
  /\ savedMtrr' = [savedMtrr EXCEPT ![c] = mtrr]
  /\ mtrr' = "smm"
  /\ UNCHANGED <<hwVars, Counter, runVars, switchVars, modeVars, Busy, Present, plugVars,
                 frameVars, bspVars, owed>>

\* Back up the OS MTRRs when told to, and say so.
ApSave(c) ==
  /\ Step(c, "ap_save", "ap_set") /\ TakeAndSignal(c)
  /\ savedMtrr' = [savedMtrr EXCEPT ![c] = mtrr]
  /\ UNCHANGED <<hwVars, Counter, runVars, switchVars, modeVars, Busy, Present, plugVars,
                 frameVars, bspVars, owed, mtrr>>

\* Replace the OS MTRRs by the SMM ones when told to, and say so.
ApSet(c) ==
  /\ Step(c, "ap_set", "ap_loop") /\ TakeAndSignal(c)
  /\ mtrr' = "smm"
  /\ UNCHANGED <<hwVars, Counter, runVars, switchVars, modeVars, Busy, Present, plugVars,
                 frameVars, bspVars, owed, savedMtrr>>

\* "Wait for something to happen."
ApWake(c) ==
  /\ Step(c, "ap_loop", "ap_check") /\ TakeOwn(c)
  /\ UNCHANGED <<hwVars, Counter, runVars, switchVars, modeVars, Busy, Present, plugVars,
                 frameVars, bspVars, owed, mtrrVars>>

\* "Check if BSP wants to exit SMM."
ApCheck(c) ==
  /\ pc[c] = "ap_check"
  /\ Goto(c, IF InsideSmm THEN "ap_run" ELSE IF NeedMtrrs THEN "ap_leave" ELSE "ap_ready")
  /\ UNCHANGED <<hwVars, Counter, runVars, switchVars, modeVars, Run, Busy, Present, plugVars,
                 frameVars, bspVars, owed, mtrrVars>>

\* Run the scheduled procedure and release Busy.
ApRun(c) ==
  /\ Step(c, "ap_run", "ap_loop")
  /\ owed' = [owed EXCEPT ![c] = @ - 1]
  /\ Busy' = [Busy EXCEPT ![c] = FALSE]
  /\ UNCHANGED <<hwVars, Counter, runVars, switchVars, modeVars, Run, Present, plugVars,
                 frameVars, bspVars, mtrrVars>>

\* Notify the readiness to program MTRRs.
ApLeave(c) ==
  /\ Step(c, "ap_leave", "ap_restore") /\ SignalBsp(c)
  /\ UNCHANGED <<hwVars, Counter, runVars, switchVars, modeVars, Busy, Present, plugVars,
                 frameVars, bspVars, owed, mtrrVars>>

\* Restore the OS MTRRs when told to.
ApRestore(c) ==
  /\ Step(c, "ap_restore", "ap_ready") /\ TakeOwn(c)
  /\ mtrr' = savedMtrr[c]
  /\ UNCHANGED <<hwVars, Counter, runVars, switchVars, modeVars, Busy, Present, plugVars,
                 frameVars, bspVars, owed, savedMtrr>>

ApReady(c) ==
  /\ Step(c, "ap_ready", "ap_reset") /\ SignalBsp(c)
  /\ UNCHANGED <<hwVars, Counter, runVars, switchVars, modeVars, Busy, Present, plugVars,
                 frameVars, bspVars, owed, mtrrVars>>

ApReset(c) ==
  /\ Step(c, "ap_reset", "ap_done") /\ TakeOwn(c)
  /\ Present' = [Present EXCEPT ![c] = FALSE]
  /\ UNCHANGED <<hwVars, Counter, runVars, switchVars, modeVars, Busy, plugVars,
                 frameVars, bspVars, owed, mtrrVars>>

ApDone(c) ==
  /\ Step(c, "ap_done", "exitwait") /\ SignalBsp(c)
  /\ UNCHANGED <<hwVars, Counter, runVars, switchVars, modeVars, Busy, Present, plugVars,
                 frameVars, bspVars, owed, mtrrVars>>

ApStep(c) ==
  \/ ApSeesBsp(c) \/ ApTimeout1(c) \/ ApTimeout2(c) \/ ApGiveUp(c) \/ ApPresent(c)
  \/ ApArrive(c) \/ ApSave(c) \/ ApSet(c) \/ ApWake(c) \/ ApCheck(c) \/ ApRun(c)
  \/ ApLeave(c) \/ ApRestore(c) \/ ApReady(c) \/ ApReset(c) \/ ApDone(c)
-----------------------------------------------------------------------------
(* BSPHandler                                                              *)

BspEnter(c) ==
  /\ Step(c, "bsp_enter", "bsp_clear")
  /\ InsideSmm' = TRUE
  /\ UNCHANGED <<hwVars, Counter, AllCpusInSync, BspIndex, switchVars, modeVars, Run, Busy,
                 Present, plugVars, frameVars, bspVars, owed, mtrrVars>>

\* Two windows of a few instructions that the code relies on other processors
\* to get through while the BSP talks to the chipset: an AP that has seen the
\* last timeout expire and has not yet taken its check-in back, and the old
\* BSP between its last two stores.
Window == {"ap_giveup", "bsp_resync"}

\* Present flag, and ClearTopLevelSmiStatus (port I/O).
BspClear(c) ==
  /\ Step(c, "bsp_clear", IF GatherFirst(c) THEN "bsp_arrival" ELSE "bsp_entry")
  /\ PromptWindows => \A d \in CPU : pc[d] \notin Window
  /\ Present' = [Present EXCEPT ![c] = TRUE]
  /\ smiStatus' = FALSE
  /\ UNCHANGED <<event, smiPending, smiLeft, Counter, runVars, switchVars, modeVars, Run, Busy,
                 plugVars, frameVars, bspVars, owed, mtrrVars>>

\* Faulty variant: the processors that are missing are left where they are.
SmmWaitForApArrival_NoIpi == UNCHANGED hwVars

\* SmmWaitForApArrival: after the first wait (which ends when all processors
\* are in, or by timeout, LMCE or an arrival exception) SMI IPIs go to the
\* processors that are missing; the second wait changes nothing.
SmmWaitForApArrival ==
  IF Counter < mNumberOfCpus
    THEN SendSmiIpi({d \in CPU : ~Present[d] /\ ProcessorId[d]})
    ELSE UNCHANGED hwVars

BspArrival(c) ==
  /\ Step(c, "bsp_arrival", "bsp_insync") /\ SmmWaitForApArrival
  /\ UNCHANGED <<Counter, runVars, switchVars, modeVars, Run, Busy, Present, plugVars,
                 frameVars, bspVars, owed, mtrrVars>>

\* Faulty variant: AllCpusInSync is not set.
BspInSync_Unset(c) ==
  /\ Step(c, "bsp_insync", "bsp_lock")
  /\ UNCHANGED <<hwVars, Counter, runVars, switchVars, modeVars, Run, Busy, Present, plugVars,
                 frameVars, bspVars, owed, mtrrVars>>

BspInSync(c) ==
  /\ Step(c, "bsp_insync", "bsp_lock")
  /\ AllCpusInSync' = TRUE
  /\ UNCHANGED <<hwVars, Counter, InsideSmm, BspIndex, switchVars, modeVars, Run, Busy, Present,
                 plugVars, frameVars, bspVars, owed, mtrrVars>>

\* LockdownSemaphore (&Counter) - 1 APs take part in this run.
BspLock(c) ==
  /\ Step(c, "bsp_lock", IF GatherFirst(c) THEN "wait_ready" ELSE "wait_present")
  /\ Counter' = Locked
  /\ ApCount' = Dec(Counter) /\ NumberOfAPs' = Dec(Counter)
  /\ UNCHANGED <<hwVars, runVars, switchVars, modeVars, Run, Busy, Present, plugVars,
                 frameVars, target, calls, owed, mtrrVars>>

\* A call of WaitForAllAPs has returned.
WaitOver(c, from) == pc[c] = from /\ NumberOfAPs = 0

\* All APs are ready: on to the handlers, or tell them to back up the MTRRs.
BspReady(c) ==
  /\ WaitOver(c, "wait_ready")
  /\ IF NeedMtrrs
       THEN /\ Goto(c, "wait_saved") /\ ReleaseAllAPs
            /\ savedMtrr' = [savedMtrr EXCEPT ![c] = mtrr]
            /\ NumberOfAPs' = ApCount
       ELSE Goto(c, "bsp_entry") /\ UNCHANGED <<Run, savedMtrr, NumberOfAPs>>
  /\ UNCHANGED <<hwVars, Counter, runVars, switchVars, modeVars, Busy, Present, plugVars,
                 frameVars, ApCount, target, calls, owed, mtrr>>

\* All backups are made: let all processors program SMM MTRRs together.
BspSet(c) ==
  /\ WaitOver(c, "wait_saved") /\ Goto(c, "wait_set") /\ ReleaseAllAPs
  /\ mtrr' = "smm"
  /\ NumberOfAPs' = ApCount
  /\ UNCHANGED <<hwVars, Counter, runVars, switchVars, modeVars, Busy, Present, plugVars,
                 frameVars, ApCount, target, calls, owed, savedMtrr>>

BspAllSet(c) ==
  /\ WaitOver(c, "wait_set") /\ Goto(c, "bsp_entry")
  /\ UNCHANGED <<hwVars, Counter, runVars, switchVars, modeVars, Run, Busy, Present, plugVars,
                 frameVars, bspVars, owed, mtrrVars>>

\* The BSP marks itself busy and calls SmmCoreEntry.
BspCoreEntry(c) ==
  /\ Step(c, "bsp_entry", "bsp_core")
  /\ Busy' = [Busy EXCEPT ![c] = TRUE]
  /\ UNCHANGED <<hwVars, Counter, runVars, switchVars, modeVars, Run, Present, plugVars,
                 frameVars, bspVars, owed, mtrrVars>>

\* The handlers' last look at the SMI sources: what is pending is serviced.
BspCoreReturn(c) ==
  /\ Step(c, "bsp_core", "bsp_drain")
  /\ event' = event \cap {"lost", "overlooked"}
  /\ calls' = 0
  /\ UNCHANGED <<smiStatus, smiPending, smiLeft, Counter, runVars, switchVars, modeVars, Run,
                 Busy, Present, plugVars, frameVars, ApCount, NumberOfAPs, target, owed, mtrrVars>>

\* Clears the APM status, a source of its own, and sets EOS: a software SMI
\* that the handlers have not seen is dropped.  It is overlooked when the APs
\* were still in the OS while the handlers ran, and lost when they were not.
ClearSmi(c) ==
  /\ event' = {IF k # "apm" THEN k ELSE IF GatherFirst(c) THEN "lost" ELSE "overlooked" : k \in event}
  /\ UNCHANGED <<smiStatus, smiPending, smiLeft>>

\* Faulty variants: busy APs are not waited for; the top-level SMI status is
\* cleared here, after the handlers, too.
BspDrain_NoWait(c) ==
  /\ Step(c, "bsp_drain", IF GatherFirst(c) THEN "bsp_exit" ELSE "bsp_insync")
  /\ ClearSmi(c)
  /\ UNCHANGED <<Counter, runVars, switchVars, modeVars, Run, Busy, Present, plugVars,
                 frameVars, bspVars, owed, mtrrVars>>
BspDrain_ClearsStatus(c) ==
  /\ Step(c, "bsp_drain", IF GatherFirst(c) THEN "bsp_exit" ELSE "bsp_insync")
  /\ \A d \in CPU \ {c} : Present[d] => ~Busy[d]
  /\ smiStatus' = FALSE
  /\ UNCHANGED <<event, smiPending, smiLeft, Counter, runVars, switchVars, modeVars, Run, Busy,
                 Present, plugVars, frameVars, bspVars, owed, mtrrVars>>

\* Wait until no AP is busy; then PerformRemainingTasks and ClearSmi.
BspDrain(c) ==
  /\ Step(c, "bsp_drain", IF GatherFirst(c) THEN "bsp_exit" ELSE "bsp_insync")
  /\ \A d \in CPU \ {c} : Present[d] => ~Busy[d]
  /\ ClearSmi(c)
  /\ UNCHANGED <<Counter, runVars, switchVars, modeVars, Run, Busy, Present, plugVars,
                 frameVars, bspVars, owed, mtrrVars>>

\* Relaxed flow: all APs that were counted have set their Present flag.
BspAllPresent(c) ==
  /\ Step(c, "wait_present", "bsp_exit")
  /\ Cardinality({d \in CPU : Present[d]}) > ApCount
  /\ UNCHANGED <<hwVars, Counter, runVars, switchVars, modeVars, Run, Busy, Present, plugVars,
                 frameVars, bspVars, owed, mtrrVars>>

BspExit(c) ==
  /\ Step(c, "bsp_exit", "bsp_notify")
  /\ InsideSmm' = FALSE
  /\ UNCHANGED <<hwVars, Counter, AllCpusInSync, BspIndex, switchVars, modeVars, Run, Busy,
                 Present, plugVars, frameVars, bspVars, owed, mtrrVars>>

BspNotify(c) ==
  /\ Step(c, "bsp_notify", "wait_done") /\ ReleaseAllAPs
  /\ NumberOfAPs' = ApCount
  /\ UNCHANGED <<hwVars, Counter, runVars, switchVars, modeVars, Busy, Present, plugVars,
                 frameVars, ApCount, target, calls, owed, mtrrVars>>

BspSetMode(c) ==
  /\ WaitOver(c, "wait_done") /\ Goto(c, IF NeedMtrrs THEN "bsp_restore" ELSE "bsp_reset")
  /\ EffectiveSyncMode' = SyncModeToBeSet
  /\ UNCHANGED <<hwVars, Counter, runVars, switchVars, SyncModeToBeSet, Run, Busy, Present,
                 plugVars, frameVars, bspVars, owed, mtrrVars>>

BspRestore(c) ==
  /\ Step(c, "bsp_restore", "wait_restored") /\ ReleaseAllAPs
  /\ mtrr' = savedMtrr[c]
  /\ NumberOfAPs' = ApCount
  /\ UNCHANGED <<hwVars, Counter, runVars, switchVars, modeVars, Busy, Present, plugVars,
                 frameVars, ApCount, target, calls, owed, savedMtrr>>

BspAllRestored(c) ==
  /\ WaitOver(c, "wait_restored") /\ Goto(c, "bsp_reset")
  /\ UNCHANGED <<hwVars, Counter, runVars, switchVars, modeVars, Run, Busy, Present, plugVars,
                 frameVars, bspVars, owed, mtrrVars>>

\* Operations of the SMM CPU service that were put off to the end of the run.
PendingOps(op) == {d \in CPU : Operation[d] = op}
\* Faulty variant: pending removals are not counted.
SmmCpuUpdate_KeepsRemoved ==
  /\ SwitchBsp' = (SwitchBsp \/ PendingOps("switch") # {})
  /\ CandidateBsp' = CandidateBsp \cup PendingOps("switch")
  /\ mNumberOfCpus' = mNumberOfCpus + Cardinality(PendingOps("add"))
  /\ Operation' = [d \in CPU |-> "none"]
  /\ UNCHANGED <<ProcessorId, SmmEnable>>
SmmCpuUpdate ==
  /\ SwitchBsp' = (SwitchBsp \/ PendingOps("switch") # {})
  /\ CandidateBsp' = CandidateBsp \cup PendingOps("switch")
  /\ mNumberOfCpus' = mNumberOfCpus + Cardinality(PendingOps("add"))
                                    - Cardinality(PendingOps("remove"))
  /\ Operation' = [d \in CPU |-> "none"]
  /\ UNCHANGED <<ProcessorId, SmmEnable>>

BspReset(c) ==
  /\ Step(c, "bsp_reset", "wait_reset") /\ ReleaseAllAPs
  /\ SmmCpuUpdate
  /\ Present' = [Present EXCEPT ![c] = FALSE]
  /\ NumberOfAPs' = ApCount
  /\ UNCHANGED <<hwVars, Counter, runVars, modeVars, Busy, frameVars, ApCount, target, calls,
                 owed, mtrrVars>>

\* Faulty variant: the APs' last signals are not waited for.
BspUnelect_NoWait(c) ==
  /\ Step(c, "wait_reset", "bsp_open")
  /\ BspIndex' = IF Election THEN NoBsp ELSE BspIndex
  /\ ApCount' = 0
  /\ UNCHANGED <<hwVars, Counter, InsideSmm, AllCpusInSync, switchVars, modeVars, Run, Busy,
                 Present, plugVars, frameVars, NumberOfAPs, target, calls, owed, mtrrVars>>

BspUnelect(c) ==
  /\ WaitOver(c, "wait_reset") /\ Goto(c, "bsp_open")
  /\ BspIndex' = IF Election THEN NoBsp ELSE BspIndex
  /\ ApCount' = 0
  /\ UNCHANGED <<hwVars, Counter, InsideSmm, AllCpusInSync, switchVars, modeVars, Run, Busy,
                 Present, plugVars, frameVars, NumberOfAPs, target, calls, owed, mtrrVars>>

\* "Allow APs to check in from this point on."
BspOpen(c) ==
  /\ Step(c, "bsp_open", "bsp_resync")
  /\ Counter' = 0
  /\ UNCHANGED <<hwVars, runVars, switchVars, modeVars, Run, Busy, Present, plugVars,
                 frameVars, bspVars, owed, mtrrVars>>

BspResync(c) ==
  /\ Step(c, "bsp_resync", "exitwait")
  /\ AllCpusInSync' = FALSE
  /\ UNCHANGED <<hwVars, Counter, InsideSmm, BspIndex, switchVars, modeVars, Run, Busy, Present,
                 plugVars, frameVars, bspVars, owed, mtrrVars>>

BspStep(c) ==
  \/ BspEnter(c) \/ BspClear(c) \/ BspArrival(c) \/ BspInSync(c) \/ BspLock(c)
  \/ WaitForAllAPs(c) \/ BspReady(c) \/ BspSet(c) \/ BspAllSet(c) \/ BspCoreEntry(c)
  \/ BspCoreReturn(c) \/ BspDrain(c) \/ BspAllPresent(c) \/ BspExit(c) \/ BspNotify(c)
  \/ BspSetMode(c) \/ BspRestore(c) \/ BspAllRestored(c) \/ BspReset(c) \/ BspUnelect(c)
  \/ BspOpen(c) \/ BspResync(c)
-----------------------------------------------------------------------------
(* Services that SMI handlers call on the BSP.  A call that returns an     *)
(* error leaves everything as it is.                                       *)

Calling(c, service) ==
  /\ pc[c] = "bsp_core" /\ service \in Services
  /\ calls < MaxCalls /\ calls' = calls + 1

\* SmmStartupThisAp and SmmBlockingStartupThisAp up to the signal.
StartAp(d) ==
  /\ Present[d] /\ Operation[d] # "remove" /\ ~Busy[d]
  /\ Busy' = [Busy EXCEPT ![d] = TRUE]
  /\ owed' = [owed EXCEPT ![d] = @ + 1]
  /\ Run' = [Run EXCEPT ![d] = Released(@)]

SmmStartupThisAp(c, d) ==
  /\ Calling(c, "startup") /\ d # c /\ StartAp(d)
  /\ UNCHANGED <<hwVars, Counter, runVars, switchVars, modeVars, Present, plugVars, pc,
                 frameVars, ApCount, NumberOfAPs, target, mtrrVars>>

SmmBlockingStartupThisAp(c, d) ==
  /\ Calling(c, "blocking") /\ d # c /\ StartAp(d)
  /\ Goto(c, "bsp_block") /\ target' = d
  /\ UNCHANGED <<hwVars, Counter, runVars, switchVars, modeVars, Present, plugVars,
                 frameVars, ApCount, NumberOfAPs, mtrrVars>>

\* AcquireSpinLock; ReleaseSpinLock: the AP is through.
Unblock(c) ==
  /\ Step(c, "bsp_block", "bsp_core") /\ ~Busy[target] /\ target' = NoBsp
  /\ UNCHANGED <<hwVars, Counter, runVars, switchVars, modeVars, Run, Busy, Present, plugVars,
                 frameVars, ApCount, NumberOfAPs, calls, owed, mtrrVars>>

\* Faulty variant: the mode takes effect at once.
SmmSyncSetMode_AtOnce(c, mode) ==
  /\ Calling(c, "mode")
  /\ SyncModeToBeSet' = mode /\ EffectiveSyncMode' = mode
  /\ UNCHANGED <<hwVars, Counter, runVars, switchVars, Run, Busy, Present,
                 plugVars, pc, frameVars, ApCount, NumberOfAPs, target, owed, mtrrVars>>

SmmSyncSetMode(c, mode) ==
  /\ Calling(c, "mode")
  /\ SyncModeToBeSet' = mode
  /\ UNCHANGED <<hwVars, Counter, runVars, switchVars, EffectiveSyncMode, Run, Busy, Present,
                 plugVars, pc, frameVars, ApCount, NumberOfAPs, target, owed, mtrrVars>>

SmmSwitchBsp(c, d) ==
  /\ Calling(c, "switch") /\ d # c /\ ProcessorId[d] /\ Operation[d] = "none"
  /\ Operation' = [Operation EXCEPT ![d] = "switch"]
  /\ UNCHANGED <<hwVars, Counter, runVars, switchVars, modeVars, Run, Busy, Present,
                 mNumberOfCpus, ProcessorId, SmmEnable, pc, frameVars, ApCount, NumberOfAPs, target, owed,
                 mtrrVars>>

\* The slot that the CPU RAS handler has chosen is free; unless "reuse" is
\* among the services it is not one whose removal is still pending.
SmmAddProcessor(c, d) ==
  /\ Calling(c, "add") /\ ~ProcessorId[d]
  /\ Operation[d] = "remove" => "reuse" \in Services
  /\ ProcessorId' = [ProcessorId EXCEPT ![d] = TRUE]
  /\ Operation' = [Operation EXCEPT ![d] = "add"]
  /\ UNCHANGED <<hwVars, Counter, runVars, switchVars, modeVars, Run, Busy, Present,
                 mNumberOfCpus, SmmEnable, pc, frameVars, ApCount, NumberOfAPs, target, owed, mtrrVars>>

\* The processor to be removed is part of this run or no longer takes SMIs.
SmmRemoveProcessor(c, d) ==
  /\ Calling(c, "remove") /\ d # c /\ ProcessorId[d] /\ Operation[d] = "none"
  /\ Present[d] \/ pc[d] = "normal"
  /\ ProcessorId' = [ProcessorId EXCEPT ![d] = FALSE]
  /\ Operation' = [Operation EXCEPT ![d] = "remove"]
  /\ UNCHANGED <<hwVars, Counter, runVars, switchVars, modeVars, Run, Busy, Present,
                 mNumberOfCpus, SmmEnable, pc, frameVars, ApCount, NumberOfAPs, target, owed, mtrrVars>>

\* SmmCpuSyncCheckApArrivalWorker: returns at once when all have checked in
\* or one is disabled.
SmmCheckApArrival(c) ==
  /\ Calling(c, "arrival")
  /\ IF Counter = mNumberOfCpus \/ \E d \in CPU : ProcessorId[d] /\ ~SmmEnable[d]
       THEN UNCHANGED hwVars
       ELSE SmmWaitForApArrival
  /\ UNCHANGED <<Counter, runVars, switchVars, modeVars, Run, Busy, Present, plugVars, pc,
                 frameVars, ApCount, NumberOfAPs, target, owed, mtrrVars>>

\* SmmCpuSync2SendSmi to one processor (possibly the BSP itself), or
\* SmmCpuSync2SendSmiAllExcludingSelf.
SmmSendSmi(c) ==
  /\ Calling(c, "send")
  /\ \/ \E d \in CPU : ProcessorId[d] /\ SendSmiIpi({d})
     \/ SendSmiIpi({d \in CPU \ {c} : ProcessorId[d]})
  /\ UNCHANGED <<Counter, runVars, switchVars, modeVars, Run, Busy, Present, plugVars, pc,
                 frameVars, ApCount, NumberOfAPs, target, owed, mtrrVars>>

SmmChangeSmmEnabling(c, d, enable) ==
  /\ Calling(c, "enable") /\ ProcessorId[d]
  /\ SmmEnable' = [SmmEnable EXCEPT ![d] = enable]
  /\ UNCHANGED <<hwVars, Counter, runVars, switchVars, modeVars, Run, Busy, Present,
                 mNumberOfCpus, ProcessorId, Operation, pc, frameVars, ApCount, NumberOfAPs,
                 target, owed, mtrrVars>>

ServiceStep(c) ==
  \/ \E d \in CPU : \/ SmmStartupThisAp(c, d) \/ SmmBlockingStartupThisAp(c, d)
                    \/ SmmSwitchBsp(c, d) \/ SmmAddProcessor(c, d) \/ SmmRemoveProcessor(c, d)
                    \/ \E enable \in BOOLEAN : SmmChangeSmmEnabling(c, d, enable)
  \/ Unblock(c)
  \/ \E mode \in Modes : SmmSyncSetMode(c, mode)
  \/ SmmCheckApArrival(c) \/ SmmSendSmi(c)
-----------------------------------------------------------------------------
EntryStep(c) == SampleBsp(c) \/ CheckIn(c) \/ BecomeBsp(c) \/ BecomeAp(c) \/ LeaveSmm(c)
CpuStep(c) == EntryStep(c) \/ ApStep(c) \/ BspStep(c) \/ ServiceStep(c)

Next == \/ SmiRaise
        \/ \E c \in CPU : EnterSmm(c) \/ CpuStep(c)
        \/ Idle

Spec == Init /\ [][Next]_vars

\* A processor in SMM is not preempted and keeps executing; SMI handlers
\* return; a latched SMI is taken, once the processor is out of SMM.
Fairness == \A c \in CPU : WF_vars(CpuStep(c)) /\ WF_vars(EnterSmm(c))
FairSpec == Spec /\ Fairness
-----------------------------------------------------------------------------
HwType ==
  /\ smiStatus \in BOOLEAN /\ event \subseteq {"hardware", "apm", "lost", "overlooked"}
  /\ smiPending \in [CPU -> BOOLEAN] /\ smiLeft \in 0..MaxSmi
SyncType ==
  /\ Counter \in 0..Locked /\ InsideSmm \in BOOLEAN /\ AllCpusInSync \in BOOLEAN
  /\ BspIndex \in CPU \cup {NoBsp} /\ SwitchBsp \in BOOLEAN /\ CandidateBsp \subseteq CPU
  /\ SyncModeToBeSet \in Modes /\ EffectiveSyncMode \in Modes
BlockType ==
  /\ Run \in [CPU -> 0..Locked] /\ Busy \in [CPU -> BOOLEAN] /\ Present \in [CPU -> BOOLEAN]
PlugType ==
  /\ mNumberOfCpus \in Int /\ ProcessorId \in [CPU -> BOOLEAN] /\ SmmEnable \in [CPU -> BOOLEAN]
  /\ Operation \in [CPU -> {"none", "switch", "add", "remove"}]
FrameType ==
  /\ pc \in [CPU -> PcValues]
  /\ ValidSmi \in [CPU -> BOOLEAN] /\ BspInProgress \in [CPU -> BOOLEAN]
  /\ SyncMode \in [CPU -> Modes] /\ MyBsp \in [CPU -> CPU \cup {NoBsp}]
BspType ==
  /\ ApCount \in 0..Locked /\ NumberOfAPs \in Int
  /\ target \in CPU \cup {NoBsp} /\ calls \in 0..MaxCalls
TaskType ==
  /\ owed \in [CPU -> Int]
  /\ mtrr \in {"os", "smm", "none"} /\ savedMtrr \in [CPU -> {"os", "smm", "none"}]

\* Every variable has its type; in particular no semaphore leaves the range of
\* a 32-bit number, whatever is released and taken.
TypeOK == HwType /\ SyncType /\ BlockType /\ PlugType /\ FrameType /\ BspType /\ TaskType

\* BSPHandler up to the store that lets processors check in again.
LeadPc == BspPc \ {"bsp_resync"}
Lead == {c \in CPU : pc[c] \in LeadPc}

\* BSPHandler from the lock-down of Counter to that store.
ClosedPc == {"wait_ready", "wait_saved", "wait_set", "bsp_exit", "bsp_notify", "wait_done",
             "bsp_restore", "wait_restored", "bsp_reset", "wait_reset", "bsp_open",
             "wait_present"}
Closed(c) == pc[c] \in ClosedPc \/ (GatherFirst(c) /\ pc[c] \in {"bsp_entry", "bsp_core", "bsp_block", "bsp_drain"})

\* At most one processor executes BSPHandler from its election until it lets
\* the others check in again, in whatever order processors arrive, time out,
\* give up and come back (MpService.c 1343-1399, 699-708).
SingleBsp == \A c, d \in Lead : c = d

\* Counter is the number of processors in the run as long as it counts: no
\* check-in is lost and none that was taken back is left (1288, 779, 786).
CounterCounts == Counter # Locked => Counter = Cardinality(Counted)

\* From LockdownSemaphore until "Allow APs to check in from this point on"
\* Counter stays locked: nobody joins a run that has been counted, and nobody
\* the BSP has counted takes his check-in back (525, 619, 704-708).  While it is
\* locked AllCpusInSync is set, so that a processor that comes too late waits in
\* SMM for the end of the run instead of returning to the OS in the middle of it
\* (524-525, 618-619, 708-709, 1288-1296).
LockedUntilOpened ==
  /\ \A c \in CPU : Closed(c) => Counter = Locked
  /\ Counter = Locked => AllCpusInSync

\* An AP is in the run of the BSP: it signals the processor that is the BSP,
\* and it follows the same flow although BSP and APs read EffectiveSyncMode at
\* different times and the BSP changes it at the end of the run (648-651,
\* 794-795, 1337, 1395-1398).
SameRun ==
  \A d \in CPU : pc[d] \in ApPc =>
    /\ MyBsp[d] # NoBsp => MyBsp[d] = BspIndex /\ d # BspIndex
    /\ \A c \in Lead : SyncMode[d] = SyncMode[c]

\* Signals sent and taken balance.  WaitForAllAPs never takes more of them than
\* it waits for: NumberOfAPs, an unsigned number, would wrap around and the BSP
\* never leave the loop (248-254).  ASSERT (CpuData[CpuIndex].Run == 0): none is
\* left over for the next run (1402).
SignalsBalance ==
  \A c \in CPU : /\ pc[c] \in WaitPc => Run[c] <= NumberOfAPs
                 /\ pc[c] \in {"exitwait", "normal"} => Run[c] = 0

\* A procedure scheduled with SmmStartupThisAp runs exactly once and before the
\* BSP tells the APs to leave: an AP that sees InsideSmm has one procedure to
\* run and its Busy lock held, and none is outstanding once the BSP is past
\* the wait for busy APs (590-594, 846-857, 1172-1176).
ProceduresRunOnce ==
  /\ \A d \in CPU : pc[d] = "ap_run" => owed[d] = 1 /\ Busy[d]
  /\ (\E c \in CPU : pc[c] \in {"bsp_exit", "bsp_notify", "wait_done"}) => \A d \in CPU : owed[d] = 0

\* What a processor in SMM is waiting for has not happened: signals, Present flags,
\* Busy locks, a check-in to take back, the end of the run (156, 173, 249-252, 590-594,
\* 623-633, 786, 1222, 1296, 1407), or the end of a window it must not find open.
Blocked(c) ==
  \/ pc[c] \in WaitPc /\ NumberOfAPs # 0 /\ Run[BspIndex] = 0
  \/ pc[c] = "wait_present" /\ Cardinality({d \in CPU : Present[d]}) <= ApCount
  \/ pc[c] = "bsp_clear" /\ PromptWindows /\ \E d \in CPU : pc[d] \in Window
  \/ pc[c] = "bsp_drain" /\ \E d \in CPU \ {c} : Present[d] /\ Busy[d]
  \/ pc[c] = "bsp_block" /\ Busy[target]
  \/ pc[c] \in {"ap_save", "ap_set", "ap_loop", "ap_restore", "ap_reset"} /\ Run[c] = 0
  \/ pc[c] = "ap_giveup" /\ Counter = 0
  \/ pc[c] \in ExitPc /\ AllCpusInSync

\* The processors in SMM never all wait for each other, or for one that is not there:
\* without a further SMI one of them goes on.  "WaitForSemaphore() may wait for ever if
\* an AP happens to enter SMM at exactly this point" (538-541).
SomebodyGoesOn ==
  (\E c \in CPU : pc[c] # "normal") => \E c \in CPU : pc[c] # "normal" /\ ~Blocked(c)

\* In the traditional flow no processor executes normal-mode code while SMI
\* handlers run: it is in SMM, or an SMI is latched for it, unless its SMIs are disabled
\* (332-335, 396-411).
NoOsCodeBesideHandlers ==
  \A c \in CPU : pc[c] \in {"bsp_core", "bsp_block"} /\ SyncMode[c] = "tradition" =>
    \A d \in CPU : ProcessorId[d] /\ Operation[d] # "add" /\ SmmEnable[d] /\ pc[d] = "normal"
                   => smiPending[d]

\* What a thread backs up are the OS's MTRRs although the threads of a core
\* share them, handlers run with the SMM MTRRs, and the OS's are back when
\* processors may check in again (532-569, 653-669, 809-839, 908-924).
MtrrsSwapped ==
  /\ \A c \in CPU : savedMtrr[c] # "smm"
  /\ NeedMtrrs => \A c \in CPU : /\ pc[c] \in {"bsp_core", "bsp_block", "ap_run"} => mtrr = "smm"
                                 /\ pc[c] = "bsp_open" => mtrr = "os"

\* mNumberOfCpus is the number of processors SMM knows once the operations that
\* are pending have been done (CpuService.c 293-306, 344-361, 430-449).
CpusAccountedFor ==
  mNumberOfCpus + Cardinality(PendingOps("add")) - Cardinality(PendingOps("remove"))
    = Cardinality({c \in CPU : ProcessorId[c]})

\* The rendezvous implements the gate: the members are the processors in the
\* run, the leader is the one in BSPHandler, the lock on Counter closes the
\* gate and InsideSmm = FALSE dismisses the members (468-946, 1236-1426).
Gate == INSTANCE SmiGate WITH
  NoLeader <- NoBsp,
  gate <- IF Counter # Locked THEN "open" ELSE IF InsideSmm THEN "closed" ELSE "leaving",
  members <- Counted,
  leader <- IF Lead = {} THEN NoBsp ELSE CHOOSE c \in Lead : TRUE
ImplementsGate == Gate!Spec

\* A processor that enters SMM returns to the OS.
EveryoneLeaves == \A c \in CPU : pc[c] # "normal" ~> pc[c] = "normal"

\* No SMI is missed: an event that is raised at any point of a run, including
\* after the handlers are done, is serviced (497-503).  The exception is the
\* software SMI that the relaxed flow overlooks.
EventsServiced == event \ {"overlooked"} # {} ~> event \subseteq {"overlooked"}
=============================================================================
