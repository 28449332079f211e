-------------------------- MODULE SmmMpSync_proof --------------------------
(***************************************************************************)
(* Proofs about the SMM rendezvous, for every number of processors, every  *)
(* build and every number of SMIs and service calls: first the types, who  *)
(* is BSP and the hot-plug counts, then the barrier protocol and that it   *)
(* never comes to a standstill.                                            *)
(***************************************************************************)
EXTENDS SmmMpSync, FiniteSetTheorems, TLAPS

\* The BSP owns BspIndex from its election until it resigns, whoever checks in
\* meanwhile (MpService.c 1364-1376, 699-703): an election by compare-exchange
\* cannot take it over, and the two other ways to become BSP name one processor.
OwnerPc == BspPc \ {"bsp_open", "bsp_resync"}
BspOwnsRun == \A c \in CPU : pc[c] \in OwnerPc => BspIndex = c

\* Where BspIndex may point in builds that fix or designate the BSP.
BspKnown ==
  /\ ~Election => BspIndex = BootBsp
  /\ Election /\ HookBsp # NoBsp => BspIndex \in {NoBsp, HookBsp}

Inv == TypeOK /\ BspOwnsRun /\ BspKnown

USE DEF Goto, Step

\* ReleaseSemaphore and WaitForSemaphore stay within 32 bits.
LEMMA ReleasedType == ASSUME NEW v \in 0..Locked PROVE Released(v) \in 0..Locked
BY LockedAssumption DEF Released

LEMMA DecType == ASSUME NEW v \in 0..Locked PROVE Dec(v) \in 0..Locked
BY LockedAssumption DEF Dec

\* So does every semaphore that a step signals or takes from.
LEMMA SignalType ==
  ASSUME Run \in [CPU -> 0..Locked], NEW c \in CPU
  PROVE  /\ ReleaseAllAPs => Run' \in [CPU -> 0..Locked]
         /\ SignalBsp(c) => Run' \in [CPU -> 0..Locked]
         /\ TakeOwn(c) => Run' \in [CPU -> 0..Locked]
         /\ TakeAndSignal(c) => Run' \in [CPU -> 0..Locked]
<1>1. \A d \in CPU : Released(Run[d]) \in 0..Locked /\ Dec(Run[d]) \in 0..Locked
  BY ReleasedType, DecType
<1>2. ReleaseAllAPs => Run' \in [CPU -> 0..Locked]
  BY <1>1 DEF ReleaseAllAPs
<1>3. SignalBsp(c) => Run' \in [CPU -> 0..Locked]
  BY <1>1 DEF SignalBsp
<1>4. TakeOwn(c) => Run' \in [CPU -> 0..Locked]
  BY <1>1 DEF TakeOwn
<1>5. TakeAndSignal(c) => Run' \in [CPU -> 0..Locked]
  <2> DEFINE taken == [Run EXCEPT ![c] = Dec(@)]
  <2>1. taken \in [CPU -> 0..Locked]
    BY <1>1
  <2> HIDE DEF taken
  <2>2. [taken EXCEPT ![MyBsp[c]] = Released(@)] \in [CPU -> 0..Locked]
    BY <2>1, ReleasedType
  <2> QED BY <2>2 DEF TakeAndSignal, taken
<1> QED BY <1>2, <1>3, <1>4, <1>5

\* SMI IPIs only latch SMIs, whoever they are sent to.
LEMMA SendSmiIpiType ==
  ASSUME HwType, NEW targets
  PROVE  SendSmiIpi(targets) => HwType'
<1> SUFFICES ASSUME SendSmiIpi(targets) PROVE HwType' OBVIOUS
<1>1. smiPending' \in [CPU -> BOOLEAN]
  BY Zenon DEF SendSmiIpi
<1> QED BY <1>1 DEF SendSmiIpi, HwType

LEMMA KeepsHwType == ASSUME HwType, UNCHANGED hwVars PROVE HwType'
BY DEF HwType, hwVars

LEMMA WaitForApArrivalType == ASSUME HwType, SmmWaitForApArrival PROVE HwType'
BY SendSmiIpiType, KeepsHwType, Zenon DEF SmmWaitForApArrival

LEMMA InitInv == Init => Inv
<1> SUFFICES ASSUME Init PROVE Inv OBVIOUS
<1>1. Cardinality(InitialCpus) \in Int
  BY FS_Subset, FS_CardinalityType, CpuAssumption, BuildAssumption
<1>2. HwType
  <2>1. smiStatus \in BOOLEAN
    BY Zenon DEF Init
  <2> QED BY <2>1, BoundAssumption DEF Init, HwType
<1>6. SyncType
  <2>1. InsideSmm \in BOOLEAN /\ AllCpusInSync \in BOOLEAN /\ SwitchBsp \in BOOLEAN
    BY Zenon DEF Init
  <2> QED BY <2>1, LockedAssumption, BuildAssumption DEF Init, SyncType, Modes
<1>3. BlockType /\ PlugType
  BY <1>1, LockedAssumption DEF Init, BlockType, PlugType
<1>4. FrameType /\ BspType /\ TaskType
  BY LockedAssumption, BoundAssumption DEF Init, FrameType, BspType, TaskType, Modes, PcValues
<1>5. BspOwnsRun /\ BspKnown
  BY DEF Init, BspOwnsRun, BspKnown, OwnerPc, BspPc
<1> QED BY <1>2, <1>3, <1>4, <1>5, <1>6 DEF Inv, TypeOK

\* No step of APHandler disturbs it.
LEMMA ApStepInv == ASSUME Inv, NEW c \in CPU, ApStep(c) PROVE Inv'
<1> USE DEF Inv, TypeOK, HwType, SyncType, BlockType, PlugType, FrameType, BspType, TaskType
<1>1. CASE ApSeesBsp(c)
  BY <1>1 DEF ApSeesBsp, hwVars, runVars, modeVars, switchVars, plugVars, frameVars, bspVars, mtrrVars,
     BspOwnsRun, BspKnown, OwnerPc, BspPc, PcValues, ApPc, ExitPc, Modes
<1>2. CASE ApTimeout1(c)
  <2>1. HwType'
    <3>1. CASE SendSmiIpi({BspIndex})
      BY <3>1, SendSmiIpiType, Zenon
    <3>2. CASE UNCHANGED hwVars
      BY <3>2, KeepsHwType, Zenon
    <3> QED BY <1>2, <3>1, <3>2, Zenon DEF ApTimeout1
  <2>2. SyncType' /\ BlockType' /\ PlugType'
    BY <1>2 DEF ApTimeout1, runVars, modeVars, switchVars, plugVars
  <2>3. FrameType' /\ BspType' /\ TaskType'
    BY <1>2 DEF ApTimeout1, modeVars, frameVars, bspVars, mtrrVars, PcValues, ApPc, Modes
  <2>4. BspOwnsRun' /\ BspKnown'
    BY <1>2 DEF ApTimeout1, runVars, modeVars, switchVars, bspVars,
       BspOwnsRun, BspKnown, OwnerPc, BspPc
  <2> QED BY <2>1, <2>2, <2>3, <2>4
<1>3. CASE ApTimeout2(c)
  BY <1>3 DEF ApTimeout2, hwVars, runVars, modeVars, switchVars, plugVars, frameVars, bspVars, mtrrVars,
     BspOwnsRun, BspKnown, OwnerPc, BspPc, PcValues, ApPc, ExitPc, Modes
<1>4. CASE ApGiveUp(c)
  BY <1>4, DecType DEF ApGiveUp, hwVars, runVars, modeVars, switchVars, plugVars, frameVars, bspVars, mtrrVars,
     BspOwnsRun, BspKnown, OwnerPc, BspPc, PcValues, ApPc, ExitPc, Modes
<1>5. CASE ApPresent(c)
  BY <1>5 DEF ApPresent, hwVars, runVars, modeVars, switchVars, plugVars, frameVars, bspVars, mtrrVars,
     BspOwnsRun, BspKnown, OwnerPc, BspPc, PcValues, ApPc, ExitPc, Modes
<1>6. CASE ApArrive(c)
  BY <1>6, SignalType DEF ApArrive, hwVars, runVars, modeVars, switchVars, plugVars, frameVars, bspVars, mtrrVars,
     BspOwnsRun, BspKnown, OwnerPc, BspPc, PcValues, ApPc, ExitPc, Modes
<1>7. CASE ApSave(c)
  BY <1>7, SignalType DEF ApSave, hwVars, runVars, modeVars, switchVars, plugVars, frameVars, bspVars, mtrrVars,
     BspOwnsRun, BspKnown, OwnerPc, BspPc, PcValues, ApPc, ExitPc, Modes
<1>8. CASE ApSet(c)
  BY <1>8, SignalType DEF ApSet, hwVars, runVars, modeVars, switchVars, plugVars, frameVars, bspVars, mtrrVars,
     BspOwnsRun, BspKnown, OwnerPc, BspPc, PcValues, ApPc, ExitPc, Modes
<1>9. CASE ApWake(c)
  BY <1>9, SignalType DEF ApWake, hwVars, runVars, modeVars, switchVars, plugVars, frameVars, bspVars, mtrrVars,
     BspOwnsRun, BspKnown, OwnerPc, BspPc, PcValues, ApPc, ExitPc, Modes
<1>10. CASE ApCheck(c)
  BY <1>10 DEF ApCheck, hwVars, runVars, modeVars, switchVars, plugVars, frameVars, bspVars, mtrrVars,
     BspOwnsRun, BspKnown, OwnerPc, BspPc, PcValues, ApPc, ExitPc, Modes
<1>11. CASE ApRun(c)
  BY <1>11 DEF ApRun, hwVars, runVars, modeVars, switchVars, plugVars, frameVars, bspVars, mtrrVars,
     BspOwnsRun, BspKnown, OwnerPc, BspPc, PcValues, ApPc, ExitPc, Modes
<1>12. CASE ApLeave(c)
  BY <1>12, SignalType DEF ApLeave, hwVars, runVars, modeVars, switchVars, plugVars, frameVars, bspVars, mtrrVars,
     BspOwnsRun, BspKnown, OwnerPc, BspPc, PcValues, ApPc, ExitPc, Modes
<1>13. CASE ApRestore(c)
  BY <1>13, SignalType DEF ApRestore, hwVars, runVars, modeVars, switchVars, plugVars, frameVars, bspVars, mtrrVars,
     BspOwnsRun, BspKnown, OwnerPc, BspPc, PcValues, ApPc, ExitPc, Modes
<1>14. CASE ApReady(c)
  BY <1>14, SignalType DEF ApReady, hwVars, runVars, modeVars, switchVars, plugVars, frameVars, bspVars, mtrrVars,
     BspOwnsRun, BspKnown, OwnerPc, BspPc, PcValues, ApPc, ExitPc, Modes
<1>15. CASE ApReset(c)
  BY <1>15, SignalType DEF ApReset, hwVars, runVars, modeVars, switchVars, plugVars, frameVars, bspVars, mtrrVars,
     BspOwnsRun, BspKnown, OwnerPc, BspPc, PcValues, ApPc, ExitPc, Modes
<1>16. CASE ApDone(c)
  BY <1>16, SignalType DEF ApDone, hwVars, runVars, modeVars, switchVars, plugVars, frameVars, bspVars, mtrrVars,
     BspOwnsRun, BspKnown, OwnerPc, BspPc, PcValues, ApPc, ExitPc, Modes
<1> QED BY <1>1, <1>2, <1>3, <1>4, <1>5, <1>6, <1>7, <1>8, <1>9, <1>10, <1>11, <1>12, <1>13, <1>14, <1>15, <1>16 DEF ApStep

\* Nor does a step of SmiRendezvous: an election leaves an elected BSP alone.
LEMMA EntryStepInv == ASSUME Inv, NEW c \in CPU, EntryStep(c) PROVE Inv'
<1> USE DEF Inv, TypeOK, HwType, SyncType, BlockType, PlugType, FrameType, BspType, TaskType
<1>1. CASE SampleBsp(c)
  BY <1>1 DEF SampleBsp, hwVars, runVars, modeVars, switchVars, plugVars, frameVars, bspVars, mtrrVars,
     BspOwnsRun, BspKnown, OwnerPc, BspPc, PcValues, ApPc, ExitPc, EntryPc, Modes
<1>2. CASE CheckIn(c)
  <2>1. Counter' \in 0..Locked
    BY <1>2, ReleasedType DEF CheckIn
  <2>2. pc' \in [CPU -> PcValues] /\ Busy' \in [CPU -> BOOLEAN]
    BY <1>2 DEF CheckIn, PcValues, EntryPc, ExitPc
  <2>3. SyncType' /\ BlockType' /\ FrameType'
    BY <1>2, <2>1, <2>2 DEF CheckIn, runVars, switchVars, modeVars, frameVars
  <2>4. HwType' /\ PlugType' /\ BspType' /\ TaskType'
    BY <1>2 DEF CheckIn, hwVars, plugVars, bspVars, mtrrVars
  <2>5. BspOwnsRun' /\ BspKnown'
    BY <1>2 DEF CheckIn, runVars, BspOwnsRun, BspKnown, OwnerPc, BspPc
  <2> QED BY <2>3, <2>4, <2>5
<1>3. CASE BecomeBsp(c)
  <2>1. SwitchBsp' \in BOOLEAN
    BY <1>3, Zenon DEF BecomeBsp
  <2> QED BY <2>1, <1>3, CpuAssumption, BuildAssumption DEF BecomeBsp, BspElection, hwVars, runVars, modeVars, switchVars, plugVars, frameVars, bspVars, mtrrVars,
     BspOwnsRun, BspKnown, OwnerPc, BspPc, PcValues, ApPc, ExitPc, EntryPc, Modes
<1>4. CASE BecomeAp(c)
  BY <1>4 DEF BecomeAp, hwVars, runVars, modeVars, switchVars, plugVars, frameVars, bspVars, mtrrVars,
     BspOwnsRun, BspKnown, OwnerPc, BspPc, PcValues, ApPc, ExitPc, EntryPc, Modes
<1>5. CASE LeaveSmm(c)
  BY <1>5 DEF LeaveSmm, hwVars, runVars, modeVars, switchVars, plugVars, frameVars, bspVars, mtrrVars,
     BspOwnsRun, BspKnown, OwnerPc, BspPc, PcValues, ApPc, ExitPc, EntryPc, Modes
<1> QED BY <1>1, <1>2, <1>3, <1>4, <1>5 DEF EntryStep

LEMMA PendingType == ASSUME NEW op PROVE Cardinality(PendingOps(op)) \in Nat
BY FS_Subset, FS_CardinalityType, CpuAssumption DEF PendingOps

\* Nor does a step of BSPHandler; WaitForAllAPs is called by the owner of BspIndex.
LEMMA BspStepInv == ASSUME Inv, NEW c \in CPU, BspStep(c) PROVE Inv'
<1> USE DEF Inv, TypeOK, HwType, SyncType, BlockType, PlugType, FrameType, BspType, TaskType
<1>1. CASE BspEnter(c)
  BY <1>1 DEF BspEnter, hwVars, runVars, modeVars, switchVars, plugVars, frameVars, bspVars, mtrrVars,
     BspOwnsRun, BspKnown, OwnerPc, BspPc, PcValues, ApPc, ExitPc, EntryPc, Modes
<1>2. CASE BspClear(c)
  <2>1. smiStatus' \in BOOLEAN
    BY <1>2, Zenon DEF BspClear
  <2> QED BY <2>1, <1>2 DEF BspClear, hwVars, runVars, modeVars, switchVars, plugVars, frameVars, bspVars, mtrrVars,
     BspOwnsRun, BspKnown, OwnerPc, BspPc, PcValues, ApPc, ExitPc, EntryPc, Modes
<1>3. CASE BspArrival(c)
  <2>1. HwType'
    BY <1>3, WaitForApArrivalType, Zenon DEF BspArrival
  <2> QED BY <2>1, <1>3 DEF BspArrival, hwVars, runVars, modeVars, switchVars, plugVars, frameVars, bspVars, mtrrVars,
     BspOwnsRun, BspKnown, OwnerPc, BspPc, PcValues, ApPc, ExitPc, EntryPc, Modes
<1>4. CASE BspInSync(c)
  BY <1>4 DEF BspInSync, hwVars, runVars, modeVars, switchVars, plugVars, frameVars, bspVars, mtrrVars,
     BspOwnsRun, BspKnown, OwnerPc, BspPc, PcValues, ApPc, ExitPc, EntryPc, Modes
<1>5. CASE BspLock(c)
  BY <1>5, DecType, LockedAssumption DEF BspLock, hwVars, runVars, modeVars, switchVars, plugVars, frameVars, bspVars, mtrrVars,
     BspOwnsRun, BspKnown, OwnerPc, BspPc, PcValues, ApPc, ExitPc, EntryPc, Modes
<1>6. CASE WaitForAllAPs(c)
  BY <1>6, LockedAssumption DEF WaitForAllAPs, WaitPc, hwVars, runVars, modeVars, switchVars, plugVars, frameVars, bspVars, mtrrVars,
     BspOwnsRun, BspKnown, OwnerPc, BspPc, PcValues, ApPc, ExitPc, EntryPc, Modes
<1>7. CASE BspReady(c)
  BY <1>7, SignalType DEF BspReady, WaitOver, hwVars, runVars, modeVars, switchVars, plugVars, frameVars, bspVars, mtrrVars,
     BspOwnsRun, BspKnown, OwnerPc, BspPc, PcValues, ApPc, ExitPc, EntryPc, Modes
<1>8. CASE BspSet(c)
  BY <1>8, SignalType DEF BspSet, WaitOver, hwVars, runVars, modeVars, switchVars, plugVars, frameVars, bspVars, mtrrVars,
     BspOwnsRun, BspKnown, OwnerPc, BspPc, PcValues, ApPc, ExitPc, EntryPc, Modes
<1>9. CASE BspAllSet(c)
  BY <1>9 DEF BspAllSet, WaitOver, hwVars, runVars, modeVars, switchVars, plugVars, frameVars, bspVars, mtrrVars,
     BspOwnsRun, BspKnown, OwnerPc, BspPc, PcValues, ApPc, ExitPc, EntryPc, Modes
<1>10. CASE BspCoreEntry(c)
  BY <1>10 DEF BspCoreEntry, hwVars, runVars, modeVars, switchVars, plugVars, frameVars, bspVars, mtrrVars,
     BspOwnsRun, BspKnown, OwnerPc, BspPc, PcValues, ApPc, ExitPc, EntryPc, Modes
<1>11. CASE BspCoreReturn(c)
  BY <1>11, BoundAssumption DEF BspCoreReturn, hwVars, runVars, modeVars, switchVars, plugVars, frameVars, bspVars, mtrrVars,
     BspOwnsRun, BspKnown, OwnerPc, BspPc, PcValues, ApPc, ExitPc, EntryPc, Modes
<1>12. CASE BspDrain(c)
  BY <1>12 DEF BspDrain, ClearSmi, hwVars, runVars, modeVars, switchVars, plugVars, frameVars, bspVars, mtrrVars,
     BspOwnsRun, BspKnown, OwnerPc, BspPc, PcValues, ApPc, ExitPc, EntryPc, Modes
<1>13. CASE BspAllPresent(c)
  BY <1>13 DEF BspAllPresent, hwVars, runVars, modeVars, switchVars, plugVars, frameVars, bspVars, mtrrVars,
     BspOwnsRun, BspKnown, OwnerPc, BspPc, PcValues, ApPc, ExitPc, EntryPc, Modes
<1>14. CASE BspExit(c)
  <2>1. InsideSmm' \in BOOLEAN
    BY <1>14, Zenon DEF BspExit
  <2> QED BY <2>1, <1>14 DEF BspExit, hwVars, runVars, modeVars, switchVars, plugVars, frameVars, bspVars, mtrrVars,
     BspOwnsRun, BspKnown, OwnerPc, BspPc, PcValues, ApPc, ExitPc, EntryPc, Modes
<1>15. CASE BspNotify(c)
  BY <1>15, SignalType DEF BspNotify, hwVars, runVars, modeVars, switchVars, plugVars, frameVars, bspVars, mtrrVars,
     BspOwnsRun, BspKnown, OwnerPc, BspPc, PcValues, ApPc, ExitPc, EntryPc, Modes
<1>16. CASE BspSetMode(c)
  BY <1>16 DEF BspSetMode, WaitOver, hwVars, runVars, modeVars, switchVars, plugVars, frameVars, bspVars, mtrrVars,
     BspOwnsRun, BspKnown, OwnerPc, BspPc, PcValues, ApPc, ExitPc, EntryPc, Modes
<1>17. CASE BspRestore(c)
  BY <1>17, SignalType DEF BspRestore, hwVars, runVars, modeVars, switchVars, plugVars, frameVars, bspVars, mtrrVars,
     BspOwnsRun, BspKnown, OwnerPc, BspPc, PcValues, ApPc, ExitPc, EntryPc, Modes
<1>18. CASE BspAllRestored(c)
  BY <1>18 DEF BspAllRestored, WaitOver, hwVars, runVars, modeVars, switchVars, plugVars, frameVars, bspVars, mtrrVars,
     BspOwnsRun, BspKnown, OwnerPc, BspPc, PcValues, ApPc, ExitPc, EntryPc, Modes
<1>19. CASE BspReset(c)
  <2>1. SwitchBsp' \in BOOLEAN
    BY <1>19, Zenon DEF BspReset, SmmCpuUpdate
  <2>2. mNumberOfCpus' \in Int
    BY <1>19, PendingType DEF BspReset, SmmCpuUpdate
  <2>3. CandidateBsp' \subseteq CPU
    BY <1>19 DEF BspReset, SmmCpuUpdate, PendingOps
  <2> QED BY <2>1, <2>2, <2>3, <1>19, SignalType, PendingType DEF BspReset, SmmCpuUpdate, hwVars, runVars, modeVars, switchVars, plugVars, frameVars, bspVars, mtrrVars,
     BspOwnsRun, BspKnown, OwnerPc, BspPc, PcValues, ApPc, ExitPc, EntryPc, Modes
<1>20. CASE BspUnelect(c)
  BY <1>20, LockedAssumption DEF BspUnelect, WaitOver, hwVars, runVars, modeVars, switchVars, plugVars, frameVars, bspVars, mtrrVars,
     BspOwnsRun, BspKnown, OwnerPc, BspPc, PcValues, ApPc, ExitPc, EntryPc, Modes
<1>21. CASE BspOpen(c)
  BY <1>21, LockedAssumption DEF BspOpen, hwVars, runVars, modeVars, switchVars, plugVars, frameVars, bspVars, mtrrVars,
     BspOwnsRun, BspKnown, OwnerPc, BspPc, PcValues, ApPc, ExitPc, EntryPc, Modes
<1>22. CASE BspResync(c)
  <2>1. AllCpusInSync' \in BOOLEAN
    BY <1>22, Zenon DEF BspResync
  <2> QED BY <2>1, <1>22 DEF BspResync, hwVars, runVars, modeVars, switchVars, plugVars, frameVars, bspVars, mtrrVars,
     BspOwnsRun, BspKnown, OwnerPc, BspPc, PcValues, ApPc, ExitPc, EntryPc, Modes
<1> QED BY <1>1, <1>2, <1>3, <1>4, <1>5, <1>6, <1>7, <1>8, <1>9, <1>10, <1>11, <1>12, <1>13, <1>14, <1>15, <1>16, <1>17, <1>18, <1>19, <1>20, <1>21, <1>22 DEF BspStep

\* Nor does a service call.
LEMMA ServiceStepInv == ASSUME Inv, NEW c \in CPU, ServiceStep(c) PROVE Inv'
<1> USE DEF Inv, TypeOK, HwType, SyncType, BlockType, PlugType, FrameType, BspType, TaskType
<1> USE BoundAssumption
<1>1. ASSUME NEW d \in CPU, SmmStartupThisAp(c, d) PROVE Inv'
  BY <1>1, ReleasedType DEF SmmStartupThisAp, StartAp, Calling, hwVars, runVars, modeVars, switchVars, plugVars, frameVars, bspVars, mtrrVars,
     BspOwnsRun, BspKnown, OwnerPc, BspPc, PcValues, Modes
<1>2. ASSUME NEW d \in CPU, SmmBlockingStartupThisAp(c, d) PROVE Inv'
  BY <1>2, ReleasedType DEF SmmBlockingStartupThisAp, StartAp, Calling, hwVars, runVars, modeVars, switchVars, plugVars, frameVars, bspVars, mtrrVars,
     BspOwnsRun, BspKnown, OwnerPc, BspPc, PcValues, Modes
<1>3. ASSUME NEW d \in CPU, SmmSwitchBsp(c, d) PROVE Inv'
  BY <1>3 DEF SmmSwitchBsp, Calling, hwVars, runVars, modeVars, switchVars, plugVars, frameVars, bspVars, mtrrVars,
     BspOwnsRun, BspKnown, OwnerPc, BspPc, PcValues, Modes
<1>4. ASSUME NEW d \in CPU, SmmAddProcessor(c, d) PROVE Inv'
  BY <1>4 DEF SmmAddProcessor, Calling, hwVars, runVars, modeVars, switchVars, plugVars, frameVars, bspVars, mtrrVars,
     BspOwnsRun, BspKnown, OwnerPc, BspPc, PcValues, Modes
<1>5. ASSUME NEW d \in CPU, SmmRemoveProcessor(c, d) PROVE Inv'
  BY <1>5 DEF SmmRemoveProcessor, Calling, hwVars, runVars, modeVars, switchVars, plugVars, frameVars, bspVars, mtrrVars,
     BspOwnsRun, BspKnown, OwnerPc, BspPc, PcValues, Modes
<1>6. ASSUME NEW d \in CPU, NEW enable \in BOOLEAN, SmmChangeSmmEnabling(c, d, enable) PROVE Inv'
  BY <1>6 DEF SmmChangeSmmEnabling, Calling, hwVars, runVars, modeVars, switchVars, plugVars, frameVars, bspVars, mtrrVars,
     BspOwnsRun, BspKnown, OwnerPc, BspPc, PcValues, Modes
<1>7. ASSUME Unblock(c) PROVE Inv'
  BY <1>7 DEF Unblock, hwVars, runVars, modeVars, switchVars, plugVars, frameVars, bspVars, mtrrVars,
     BspOwnsRun, BspKnown, OwnerPc, BspPc, PcValues, Modes
<1>8. ASSUME NEW mode \in Modes, SmmSyncSetMode(c, mode) PROVE Inv'
  BY <1>8 DEF SmmSyncSetMode, Calling, hwVars, runVars, modeVars, switchVars, plugVars, frameVars, bspVars, mtrrVars,
     BspOwnsRun, BspKnown, OwnerPc, BspPc, PcValues, Modes
<1>9. ASSUME SmmCheckApArrival(c) PROVE Inv'
  <2>1. HwType'
    BY <1>9, WaitForApArrivalType, KeepsHwType, Zenon DEF SmmCheckApArrival
  <2> QED BY <2>1, <1>9 DEF SmmCheckApArrival, Calling, hwVars, runVars, modeVars, switchVars, plugVars, frameVars, bspVars, mtrrVars,
     BspOwnsRun, BspKnown, OwnerPc, BspPc, PcValues, Modes
<1>10. ASSUME SmmSendSmi(c) PROVE Inv'
  <2>1. HwType'
    BY <1>10, SendSmiIpiType, Zenon DEF SmmSendSmi
  <2> QED BY <2>1, <1>10 DEF SmmSendSmi, Calling, hwVars, runVars, modeVars, switchVars, plugVars, frameVars, bspVars, mtrrVars,
     BspOwnsRun, BspKnown, OwnerPc, BspPc, PcValues, Modes
<1> QED BY <1>1, <1>2, <1>3, <1>4, <1>5, <1>6, <1>7, <1>8, <1>9, <1>10 DEF ServiceStep

\* Nor do the hardware and the entry into SMM.
LEMMA HardwareInv == ASSUME Inv, SmiRaise \/ \E c \in CPU : EnterSmm(c) PROVE Inv'
<1> USE DEF Inv, TypeOK, HwType, SyncType, BlockType, PlugType, FrameType, BspType, TaskType
<1>1. CASE SmiRaise
  <2>1. event' \subseteq {"hardware", "apm", "lost", "overlooked"}
    BY <1>1, BuildAssumption DEF SmiRaise
  <2>2. smiPending' \in [CPU -> BOOLEAN]
    BY <1>1, Zenon DEF SmiRaise
  <2>3. smiLeft' \in 0..MaxSmi /\ smiStatus' \in BOOLEAN
    BY <1>1, BoundAssumption DEF SmiRaise
  <2> QED BY <2>1, <2>2, <2>3, <1>1 DEF SmiRaise, hwVars, runVars, modeVars, switchVars, plugVars, frameVars, bspVars, mtrrVars,
     BspOwnsRun, BspKnown, OwnerPc, BspPc
<1>2. ASSUME NEW c \in CPU, EnterSmm(c) PROVE Inv'
  BY <1>2 DEF EnterSmm, hwVars, runVars, modeVars, switchVars, plugVars, frameVars, bspVars, mtrrVars,
     BspOwnsRun, BspKnown, OwnerPc, BspPc, PcValues, EntryPc
<1> QED BY <1>1, <1>2

LEMMA NextInv == Inv /\ [Next]_vars => Inv'
<1> SUFFICES ASSUME Inv, [Next]_vars PROVE Inv' OBVIOUS
<1>1. ASSUME NEW c \in CPU, CpuStep(c) PROVE Inv'
  BY <1>1, ApStepInv, EntryStepInv, BspStepInv, ServiceStepInv DEF CpuStep
<1>2. CASE UNCHANGED vars
  BY <1>2 DEF vars, Inv, TypeOK, HwType, SyncType, BlockType, PlugType, FrameType, BspType, TaskType,
     hwVars, runVars, modeVars, switchVars, plugVars, frameVars, bspVars, mtrrVars, BspOwnsRun, BspKnown, OwnerPc, BspPc
<1> QED BY <1>1, <1>2, HardwareInv DEF Next, Idle

LEMMA Invariance == Spec => []Inv
BY InitInv, NextInv, PTL DEF Spec

\* Every variable of the rendezvous keeps its type, however many processors
\* check in, time out and signal each other: Counter and every Run stay 32-bit
\* numbers (ReleaseSemaphore, MpService.c 179-204), and BspIndex names a slot.
THEOREM TypeCorrect == Spec => []TypeOK
<1>1. Inv => TypeOK
  BY DEF Inv
<1> QED BY <1>1, Invariance, PTL

\* No two processors execute BSPHandler between election and resignation.
OneOwner == \A c, d \in CPU : pc[c] \in OwnerPc /\ pc[d] \in OwnerPc => c = d

\* However many processors compete for BspIndex, whichever way the build elects
\* the BSP and whoever times out, no two processors are in BSPHandler between
\* the election (MpService.c 1343-1371) and the store of -1 that ends it (699-703).
THEOREM OneBspUntilResignation == Spec => []OneOwner
<1>1. Inv => OneOwner
  BY DEF Inv, BspOwnsRun, OneOwner
<1> QED BY <1>1, Invariance, PTL
-----------------------------------------------------------------------------
(* The number of processors                                                *)

Known == {c \in CPU : ProcessorId[c]}

\* A pending operation agrees with what has already been recorded in
\* ProcessorInfo (CpuService.c 299-304, 354-360).
OpsAgree ==
  \A c \in CPU : /\ Operation[c] = "add" => ProcessorId[c]
                 /\ Operation[c] = "remove" => ~ProcessorId[c]

PlugInv == OpsAgree /\ CpusAccountedFor

LEMMA PlugFinite ==
  /\ IsFiniteSet(Known) /\ Cardinality(Known) \in Nat
  /\ \A op : IsFiniteSet(PendingOps(op)) /\ Cardinality(PendingOps(op)) \in Nat
<1>1. IsFiniteSet(Known)
  BY FS_Subset, CpuAssumption DEF Known
<1>2. ASSUME NEW op PROVE IsFiniteSet(PendingOps(op))
  BY FS_Subset, CpuAssumption DEF PendingOps
<1> QED BY <1>1, <1>2, FS_CardinalityType

LEMMA InitPlug == Init => PlugInv
<1> SUFFICES ASSUME Init PROVE PlugInv OBVIOUS
<1>1. OpsAgree /\ PendingOps("add") = {} /\ PendingOps("remove") = {} /\ Known = InitialCpus
  BY BuildAssumption DEF Init, OpsAgree, PendingOps, Known
<1>2. mNumberOfCpus = Cardinality(Known) /\ Cardinality(Known) \in Nat
  BY <1>1, PlugFinite DEF Init
<1>3. Cardinality(PendingOps("add")) = 0 /\ Cardinality(PendingOps("remove")) = 0
  BY <1>1, FS_EmptySet
<1> QED BY <1>1, <1>2, <1>3 DEF PlugInv, CpusAccountedFor, Known

LEMMA AddPlug ==
  ASSUME TypeOK, PlugInv, "reuse" \notin Services, NEW c \in CPU, NEW d \in CPU,
         SmmAddProcessor(c, d)
  PROVE  PlugInv'
<1> USE DEF TypeOK, PlugType
<1>1. d \notin Known /\ d \notin PendingOps("add") /\ d \notin PendingOps("remove")
  BY DEF SmmAddProcessor, PlugInv, OpsAgree, PendingOps, Known
<1>2. OpsAgree'
  BY DEF SmmAddProcessor, PlugInv, OpsAgree
<1>3. Known' = Known \cup {d}
  BY DEF SmmAddProcessor, Known
<1>4. PendingOps("add")' = PendingOps("add") \cup {d}
  BY DEF SmmAddProcessor, PendingOps
<1>5. PendingOps("remove")' = PendingOps("remove")
  BY <1>1 DEF SmmAddProcessor, PendingOps
<1>6. Cardinality(Known)' = Cardinality(Known) + 1
  BY <1>1, <1>3, PlugFinite, FS_AddElement
<1>7. Cardinality(PendingOps("add"))' = Cardinality(PendingOps("add")) + 1
  BY <1>1, <1>4, PlugFinite, FS_AddElement
<1>8. mNumberOfCpus' = mNumberOfCpus
  BY DEF SmmAddProcessor
<1> QED BY <1>2, <1>5, <1>6, <1>7, <1>8, PlugFinite DEF PlugInv, CpusAccountedFor, Known

LEMMA RemovePlug ==
  ASSUME TypeOK, PlugInv, NEW c \in CPU, NEW d \in CPU, SmmRemoveProcessor(c, d)
  PROVE  PlugInv'
<1> USE DEF TypeOK, PlugType
<1>1. d \in Known /\ d \notin PendingOps("add") /\ d \notin PendingOps("remove")
  BY DEF SmmRemoveProcessor, PendingOps, Known
<1>2. OpsAgree'
  BY DEF SmmRemoveProcessor, PlugInv, OpsAgree
<1>3. Known' = Known \ {d}
  BY DEF SmmRemoveProcessor, Known
<1>4. PendingOps("add")' = PendingOps("add")
  BY <1>1 DEF SmmRemoveProcessor, PendingOps
<1>5. PendingOps("remove")' = PendingOps("remove") \cup {d}
  BY DEF SmmRemoveProcessor, PendingOps
<1>6. Cardinality(Known)' = Cardinality(Known) - 1
  BY <1>1, <1>3, PlugFinite, FS_RemoveElement
<1>7. Cardinality(PendingOps("remove"))' = Cardinality(PendingOps("remove")) + 1
  BY <1>1, <1>5, PlugFinite, FS_AddElement
<1>8. mNumberOfCpus' = mNumberOfCpus
  BY DEF SmmRemoveProcessor
<1> QED BY <1>2, <1>4, <1>6, <1>7, <1>8, PlugFinite DEF PlugInv, CpusAccountedFor, Known

\* SmmCpuUpdate settles the pending operations at the end of the run.
LEMMA UpdatePlug ==
  ASSUME TypeOK, PlugInv, SmmCpuUpdate
  PROVE  PlugInv'
<1>1. PendingOps("add")' = {} /\ PendingOps("remove")' = {} /\ Known' = Known /\ OpsAgree'
  BY DEF SmmCpuUpdate, PendingOps, Known, OpsAgree
<1>2. mNumberOfCpus' = Cardinality(Known)
  BY DEF SmmCpuUpdate, PlugInv, CpusAccountedFor, Known
<1>3. Cardinality(Known') = Cardinality(Known) /\ Cardinality(Known) \in Nat
  BY <1>1, PlugFinite
<1>4. Cardinality(PendingOps("add")') = 0 /\ Cardinality(PendingOps("remove")') = 0
  BY <1>1, FS_EmptySet
<1> QED BY <1>1, <1>2, <1>3, <1>4 DEF PlugInv, CpusAccountedFor, Known

\* A switch request and an enable bit leave the count alone.
LEMMA SwitchPlug ==
  ASSUME TypeOK, PlugInv, NEW c \in CPU, NEW d \in CPU, SmmSwitchBsp(c, d)
  PROVE  PlugInv'
<1>1. PendingOps("add")' = PendingOps("add") /\ PendingOps("remove")' = PendingOps("remove")
  BY DEF SmmSwitchBsp, PendingOps, TypeOK, PlugType
<1>2. OpsAgree' /\ Known' = Known /\ mNumberOfCpus' = mNumberOfCpus
  BY DEF SmmSwitchBsp, PlugInv, OpsAgree, Known, TypeOK, PlugType
<1> QED BY <1>1, <1>2 DEF PlugInv, CpusAccountedFor, Known

\* Every other step leaves the three variables as they are.
LEMMA FramePlug ==
  ASSUME PlugInv, UNCHANGED <<mNumberOfCpus, ProcessorId, Operation>>
  PROVE  PlugInv'
BY DEF PlugInv, OpsAgree, CpusAccountedFor, PendingOps

LEMMA NextPlug ==
  ASSUME TypeOK, PlugInv, "reuse" \notin Services, [Next]_vars
  PROVE  PlugInv'
<1>1. ASSUME NEW c \in CPU, EntryStep(c) \/ EnterSmm(c) PROVE PlugInv'
  BY <1>1, FramePlug
  DEF EntryStep, SampleBsp, CheckIn, BecomeBsp, BecomeAp, LeaveSmm, EnterSmm, plugVars
<1>2. ASSUME NEW c \in CPU, ApStep(c) PROVE PlugInv'
  BY <1>2, FramePlug
  DEF ApStep, ApSeesBsp, ApTimeout1, ApTimeout2, ApGiveUp, ApPresent, ApArrive, ApSave, ApSet,
      ApWake, ApCheck, ApRun, ApLeave, ApRestore, ApReady, ApReset, ApDone, plugVars
<1>3. ASSUME NEW c \in CPU, BspStep(c) PROVE PlugInv'
  <2>1. CASE BspReset(c)
    BY <2>1, UpdatePlug DEF BspReset
  <2> QED BY <1>3, <2>1, FramePlug
  DEF BspStep, BspEnter, BspClear, BspArrival, BspInSync, BspLock, WaitForAllAPs, BspReady,
      BspSet, BspAllSet, BspCoreEntry, BspCoreReturn, BspDrain, BspAllPresent, BspExit,
      BspNotify, BspSetMode, BspRestore, BspAllRestored, BspUnelect, BspOpen, BspResync, plugVars
<1>4. ASSUME NEW c \in CPU, ServiceStep(c) PROVE PlugInv'
  BY <1>4, FramePlug, AddPlug, RemovePlug, SwitchPlug
  DEF ServiceStep, SmmStartupThisAp, SmmBlockingStartupThisAp, Unblock, SmmSyncSetMode,
      SmmCheckApArrival, SmmSendSmi, SmmChangeSmmEnabling, plugVars
<1>5. CASE SmiRaise \/ Idle \/ UNCHANGED vars
  BY <1>5, FramePlug DEF SmiRaise, Idle, vars, plugVars
<1> QED BY <1>1, <1>2, <1>3, <1>4, <1>5 DEF Next, CpuStep

\* mNumberOfCpus, which the BSP compares the check-ins with, is the number of
\* processors SMM knows once the operations that are pending have been done,
\* as long as no handler adds a processor to a slot whose removal is pending.
THEOREM CountTracksHotPlug ==
  ASSUME "reuse" \notin Services
  PROVE  Spec => []CpusAccountedFor
<1>1. PlugInv => CpusAccountedFor
  BY DEF PlugInv
<1>2. TypeOK /\ PlugInv /\ [Next]_vars => PlugInv'
  BY NextPlug
<1> QED BY <1>1, <1>2, InitPlug, TypeCorrect, PTL DEF Spec

-----------------------------------------------------------------------------
(***************************************************************************)
(* The barrier protocol: one BSP, a count that is right, semaphores that   *)
(* balance, procedures that run once, the MTRRs, the gate that the         *)
(* rendezvous implements, and the OS stopped while SMI handlers run.       *)
(*                                                                         *)
(* All of it rests on one inductive invariant, RunInv.  Seen from the BSP  *)
(* a run is a sequence of statements of BSPHandler, its stages.  RunInv    *)
(* says for every stage where the APs can be (PhasesAgree), which of them  *)
(* have a signal in their semaphore (TokensFit), which have not answered   *)
(* yet (Owing), and that the signals in the semaphore of the BSP and the   *)
(* ones still owed to it are together the ones it waits for (Balance).     *)
(***************************************************************************)
(* The invariant                                                           *)
\* The processor in BSPHandler, and the statement it executes next.
Leader == IF Lead = {} THEN NoBsp ELSE CHOOSE c \in Lead : TRUE
Stage == IF Lead = {} THEN "none" ELSE pc[Leader]
Gathers == Lead # {} /\ GatherFirst(Leader)

\* Groups of statements: the SMI handlers run; InsideSmm is set; the BSP has
\* not left SmmWaitForApArrival; the Present flag is set; MyBsp is the BSP; a
\* processor that has checked in and is not the BSP.
HandlersPc == {"bsp_entry", "bsp_core", "bsp_block", "bsp_drain"}
InsidePc == {"bsp_clear", "bsp_arrival", "bsp_insync", "bsp_lock", "wait_ready", "wait_saved",
             "wait_set", "wait_present", "bsp_exit"} \cup HandlersPc
GatherPc == {"bsp_enter", "bsp_clear", "bsp_arrival", "bsp_insync", "bsp_lock"}
PresentPc == {"ap_arrive", "ap_save", "ap_set", "ap_loop", "ap_check", "ap_run", "ap_leave",
              "ap_restore", "ap_ready", "ap_reset"}
             \cup (LeadPc \ {"bsp_enter", "bsp_clear", "wait_reset", "bsp_open"})
FollowPc == {"ap_arrive", "ap_save", "ap_set", "ap_loop", "ap_check", "ap_run", "ap_leave",
             "ap_restore", "ap_ready", "ap_reset", "ap_done"}
ArrivalPc == {"route", "ap_wait1", "ap_wait2"}
MemberPc == {"route"} \cup ApPc

\* Counter is locked: in the traditional flow before the handlers, in the
\* relaxed flow after them (MpService.c 525, 619).
Shut(s, g) == s \in ClosedPc \/ (g /\ s \in HandlersPc)

\* The end of the run: EffectiveSyncMode may be that of the next run (648-651).
Settled(s) == s \in {"bsp_restore", "wait_restored", "bsp_reset", "wait_reset", "bsp_open"}

\* What the shared flags say of where the processors are: the Present flags,
\* InsideSmm, AllCpusInSync and the lock on Counter (485, 495, 524-525, 618-619,
\* 639, 690, 699-709, 800, 939).
FlagsMean ==
  /\ \A c \in CPU : Present[c] <=> pc[c] \in PresentPc
  /\ InsideSmm <=> Stage \in InsidePc
  /\ AllCpusInSync <=> \/ Shut(Stage, Gathers) \/ Stage = "bsp_lock"
                       \/ \E c \in CPU : pc[c] = "bsp_resync"
  /\ Counter = Locked <=> Shut(Stage, Gathers)

\* The old BSP, which is about to clear AllCpusInSync, is still there when the
\* next run begins, but the next BSP waits for it (708-709).
OneRun ==
  \A c \in CPU : pc[c] = "bsp_resync" =>
    Stage \in {"none", "bsp_enter", "bsp_clear"} /\ \A d \in CPU \ {c} : pc[d] # "bsp_resync"

\* BSP and APs have read the same EffectiveSyncMode, until the BSP sets the one
\* of the next run (648-651, 1337).
ModesAgree ==
  /\ Lead # {} /\ ~Settled(Stage) => SyncMode[Leader] = EffectiveSyncMode
  /\ \A d \in CPU : pc[d] \in ApPc =>
       SyncMode[d] = IF Lead = {} THEN EffectiveSyncMode ELSE SyncMode[Leader]

\* An AP that follows a BSP follows the one of its run (794-795).
Follows ==
  \A d \in CPU : IF pc[d] \in FollowPc THEN MyBsp[d] = Leader
                 ELSE pc[d] # "exitwait" => MyBsp[d] = NoBsp

\* The flow that the BSP is in has the stage: the traditional flow gathers the
\* APs first, and only builds that configure MTRRs wait for them (475-569).
FlowFits(s, g) ==
  /\ s \in {"bsp_arrival", "wait_ready"} => g
  /\ s \in {"wait_saved", "wait_set", "bsp_restore", "wait_restored"} => NeedMtrrs
  /\ s = "wait_present" => ~g

\* Where a processor in the run other than the BSP can be, p, while the BSP is at
\* stage s; g says whether the flow gathers first (468-711, 745-946).
Fits(s, g, p) ==
  /\ s \in {"none", "bsp_enter"} => p \in ArrivalPc \cup {"ap_giveup"}
  /\ s = "bsp_clear" =>
       \/ p \in ArrivalPc \cup {"ap_giveup", "ap_present"}
       \/ g /\ p \in {"ap_arrive", IF NeedMtrrs THEN "ap_save" ELSE "ap_loop"}
       \/ ~g /\ p = "ap_loop"
  /\ g /\ s \in {"bsp_arrival", "bsp_insync", "bsp_lock", "wait_ready"} =>
       \/ p \in ArrivalPc \cup {"ap_present", "ap_arrive"}
       \/ p = IF NeedMtrrs THEN "ap_save" ELSE "ap_loop"
  /\ s = "wait_saved" => p \in {"ap_save", "ap_set"}
  /\ s = "wait_set" => p \in {"ap_set", "ap_loop"}
  /\ s \in HandlersPc => p \in {"ap_loop", "ap_check", "ap_run"} \/ (~g /\ p \in ArrivalPc \cup {"ap_present"})
  /\ ~g /\ s \in {"bsp_insync", "bsp_lock", "wait_present"} =>
       p \in ArrivalPc \cup {"ap_present", "ap_loop"}
  /\ s \in {"bsp_exit", "bsp_notify"} => p = "ap_loop"
  /\ s = "wait_done" => \/ p \in {"ap_loop", "ap_check"}
                        \/ NeedMtrrs /\ p \in {"ap_leave", "ap_restore"}
                        \/ ~NeedMtrrs /\ p \in {"ap_ready", "ap_reset"}
  /\ s = "bsp_restore" => p = "ap_restore"
  /\ s = "wait_restored" => p \in {"ap_restore", "ap_ready", "ap_reset"}
  /\ s = "bsp_reset" => p = "ap_reset"
  /\ s = "wait_reset" => p \in {"ap_reset", "ap_done"}
  /\ s # "bsp_open"

\* BSP and APs are in the same phase of the run.
PhasesAgree ==
  /\ FlowFits(Stage, Gathers)
  /\ \A d \in CPU : pc[d] \in MemberPc => Fits(Stage, Gathers, pc[d])

\* The BSP has signalled the AP and the AP has not taken the signal; o is the
\* number of procedures it has to run.
Token(s, p, o) ==
  \/ s = "wait_saved" /\ p = "ap_save"
  \/ s = "wait_set" /\ p = "ap_set"
  \/ p = "ap_loop" /\ (s = "wait_done" \/ o = 1)
  \/ s = "wait_restored" /\ p = "ap_restore"
  \/ s = "wait_reset" /\ p = "ap_reset"

\* The semaphore of an AP holds that signal and no other one: WaitForSemaphore
\* never takes a signal that was meant for a later statement (796-936).
TokensFit ==
  \A d \in CPU : pc[d] \notin LeadPc =>
    Run[d] = IF Token(Stage, pc[d], owed[d]) THEN 1 ELSE 0

\* A procedure is outstanding only for an AP that waits for one or runs it, its
\* Busy lock is held exactly as long, and an AP that wakes up without one has
\* been woken to leave (590-594, 846-857, 1165-1180).
TasksFit ==
  \A d \in CPU :
    /\ owed[d] \in {0, 1}
    /\ owed[d] = 1 => /\ pc[d] \in {"ap_loop", "ap_check", "ap_run"}
                      /\ Stage \in {"bsp_core", "bsp_block", "bsp_drain"}
    /\ pc[d] \in MemberPc => (Busy[d] <=> owed[d] = 1)
    /\ pc[d] = "ap_run" => owed[d] = 1
    /\ pc[d] = "ap_check" => owed[d] = 1 \/ Stage = "wait_done"

\* The processor at p has yet to signal the BSP at stage s, before the BSP goes on
\* or once it waits for all APs.
Owes(s, g, p) ==
  \/ g /\ s \in GatherPc \cup {"wait_ready"} /\ p \in ArrivalPc \cup {"ap_giveup", "ap_present", "ap_arrive"}
  \/ s = "wait_saved" /\ p = "ap_save"
  \/ s = "wait_set" /\ p = "ap_set"
  \/ s = "wait_done" /\ p \in {"ap_loop", "ap_check", "ap_leave", "ap_ready"}
  \/ s = "wait_restored" /\ p \in {"ap_restore", "ap_ready"}
  \/ s = "wait_reset" /\ p \in {"ap_reset", "ap_done"}
Owing == {d \in CPU : Owes(Stage, Gathers, pc[d])}

\* Check-ins and signals are accounted for: Counter and ApCount are the
\* processors in the run, and what the BSP waits for is what is in its semaphore
\* and what is owed to it (248-254, 520-531, 1288).
Balance ==
  /\ CounterCounts
  /\ Shut(Stage, Gathers) /\ Stage \notin {"wait_reset", "bsp_open"} => ApCount + 1 = Cardinality(Counted)
  /\ Stage \in WaitPc => NumberOfAPs <= Cardinality(CPU)
  /\ Lead # {} =>
       IF Stage \in WaitPc THEN NumberOfAPs = Run[Leader] + Cardinality(Owing)
       ELSE IF Stage \in GatherPc /\ Gathers
         THEN Run[Leader] + Cardinality(Owing) + 1 = Cardinality(Counted)
       ELSE Run[Leader] = 0

\* The inductive invariant.
RunInv == /\ SingleBsp /\ OneRun /\ FlagsMean /\ ModesAgree /\ Follows
          /\ PhasesAgree /\ TokensFit /\ TasksFit /\ Balance

-----------------------------------------------------------------------------
(* Lemmas on the run and on a step of one of its processors                *)
USE DEF Goto, Step

\* The processor in BSPHandler is the leader, its statement the stage.
LEMMA LeaderIs ==
  ASSUME SingleBsp, NEW c \in CPU, pc[c] \in LeadPc
  PROVE  Lead = {c} /\ Leader = c /\ Stage = pc[c] /\ (Gathers <=> GatherFirst(c))
<1>1. Lead = {c}
  BY DEF SingleBsp, Lead
<1>2. Leader = c
  BY <1>1 DEF Leader
<1> QED BY <1>1, <1>2 DEF Stage, Gathers

\* There is none between two runs.
LEMMA NobodyLeads ==
  ASSUME Lead = {}
  PROVE  Leader = NoBsp /\ Stage = "none" /\ ~Gathers
BY DEF Leader, Stage, Gathers

\* A stage is a statement of BSPHandler.
LEMMA StageType ==
  ASSUME SingleBsp, TypeOK
  PROVE  /\ Stage \in LeadPc => Leader \in CPU /\ Lead = {Leader} /\ pc[Leader] = Stage /\ Lead # {}
         /\ Stage \in LeadPc \/ Stage = "none"
         /\ Stage = "none" <=> Lead = {}
<1>1. CASE Lead = {}
  BY <1>1, NobodyLeads DEF LeadPc, BspPc
<1>2. CASE Lead # {}
  <2>1. PICK c \in CPU : pc[c] \in LeadPc
    BY <1>2 DEF Lead
  <2>2. "none" \notin LeadPc
    BY DEF LeadPc, BspPc
  <2> QED BY <2>1, <2>2, <1>2, LeaderIs
<1> QED BY <1>1, <1>2

\* One processor moves: how two sets that differ in it compare.
LEMMA OneMoves ==
  ASSUME NEW S \in SUBSET CPU, NEW T \in SUBSET CPU, NEW c \in CPU,
         \A d \in CPU \ {c} : d \in S <=> d \in T
  PROVE  /\ Cardinality(S) \in Nat /\ Cardinality(T) \in Nat
         /\ Cardinality(T) = Cardinality(S) + (IF c \in T THEN 1 ELSE 0) - (IF c \in S THEN 1 ELSE 0)
<1>1. IsFiniteSet(S) /\ Cardinality(S) \in Nat /\ Cardinality(T) \in Nat
  BY FS_Subset, FS_CardinalityType, CpuAssumption
<1>2. CASE c \in S /\ c \notin T
  <2>1. T = S \ {c}
    BY <1>2
  <2>2. Cardinality(T) = Cardinality(S) - 1
    BY <1>1, <1>2, <2>1, FS_RemoveElement
  <2> QED BY <1>1, <1>2, <2>2
<1>3. CASE c \notin S /\ c \in T
  <2>1. T = S \cup {c}
    BY <1>3
  <2>2. Cardinality(T) = Cardinality(S) + 1
    BY <1>1, <1>3, <2>1, FS_AddElement
  <2> QED BY <1>1, <1>3, <2>2
<1>4. CASE c \in S <=> c \in T
  <2>1. T = S
    BY <1>4
  <2> QED BY <1>1, <1>4, <2>1
<1> QED BY <1>2, <1>3, <1>4

\* A processor moves that is not the leader before or afterwards.
LEMMA OtherMoves ==
  ASSUME TypeOK, SingleBsp, NEW c \in CPU, NEW q, pc[c] \notin LeadPc, q \notin LeadPc,
         pc' = [pc EXCEPT ![c] = q], \A d \in Lead : SyncMode'[d] = SyncMode[d]
  PROVE  /\ Lead' = Lead /\ Leader' = Leader /\ Stage' = Stage /\ Gathers' = Gathers
         /\ pc'[c] = q /\ \A d \in CPU \ {c} : pc'[d] = pc[d]
         /\ Cardinality(Counted) \in Nat /\ Cardinality(Counted') \in Nat
         /\ Cardinality(Counted') = Cardinality(Counted)
              + (IF q \in CountedPc THEN 1 ELSE 0) - (IF pc[c] \in CountedPc THEN 1 ELSE 0)
         /\ Cardinality(Owing) \in Nat /\ Cardinality(Owing') \in Nat
         /\ Cardinality(Owing') = Cardinality(Owing)
              + (IF Owes(Stage, Gathers, q) THEN 1 ELSE 0) - (IF Owes(Stage, Gathers, pc[c]) THEN 1 ELSE 0)
<1>1. pc'[c] = q /\ \A d \in CPU \ {c} : pc'[d] = pc[d]
  BY DEF TypeOK, FrameType
<1>2. Lead' = Lead
  BY <1>1 DEF Lead
<1>3. Leader' = Leader
  BY <1>2 DEF Leader
<1>4. Stage' = Stage
  <2>1. CASE Lead = {}
    BY <1>2, <2>1 DEF Stage
  <2>2. CASE Lead # {}
    <3>1. PICK b \in CPU : pc[b] \in LeadPc
      BY <2>2 DEF Lead
    <3>2. Leader = b /\ b # c
      BY <3>1, LeaderIs
    <3> QED BY <1>1, <1>2, <1>3, <3>2 DEF Stage
  <2> QED BY <2>1, <2>2
<1>5. Gathers' = Gathers
  <2>1. CASE Lead = {}
    BY <1>2, <2>1 DEF Gathers
  <2>2. CASE Lead # {}
    <3>1. Leader \in Lead
      BY <2>2, StageType DEF Lead
    <3> QED BY <1>2, <1>3, <3>1 DEF Gathers, GatherFirst
  <2> QED BY <2>1, <2>2
<1>6. /\ Counted \in SUBSET CPU /\ Counted' \in SUBSET CPU
      /\ \A d \in CPU \ {c} : d \in Counted <=> d \in Counted'
      /\ c \in Counted <=> pc[c] \in CountedPc
      /\ c \in Counted' <=> q \in CountedPc
  BY <1>1 DEF Counted
<1>7. /\ Owing \in SUBSET CPU /\ Owing' \in SUBSET CPU
      /\ \A d \in CPU \ {c} : d \in Owing <=> d \in Owing'
      /\ c \in Owing <=> Owes(Stage, Gathers, pc[c])
      /\ c \in Owing' <=> Owes(Stage, Gathers, q)
  BY <1>1, <1>4, <1>5 DEF Owing
<1>8. /\ Cardinality(Counted) \in Nat /\ Cardinality(Counted') \in Nat
      /\ Cardinality(Counted') = Cardinality(Counted)
           + (IF c \in Counted' THEN 1 ELSE 0) - (IF c \in Counted THEN 1 ELSE 0)
  BY <1>6, OneMoves
<1>9. /\ Cardinality(Owing) \in Nat /\ Cardinality(Owing') \in Nat
      /\ Cardinality(Owing') = Cardinality(Owing)
           + (IF c \in Owing' THEN 1 ELSE 0) - (IF c \in Owing THEN 1 ELSE 0)
  BY <1>7, OneMoves
<1> QED BY <1>1, <1>2, <1>3, <1>4, <1>5, <1>6, <1>7, <1>8, <1>9

\* What a step of a processor in the run, the leader apart, must respect.
LEMMA MemberMoves ==
  ASSUME Inv, RunInv, NEW c \in CPU, NEW q \in ApPc \cup {"exitwait"},
         pc[c] \in MemberPc, pc' = [pc EXCEPT ![c] = q],
         UNCHANGED <<InsideSmm, AllCpusInSync, EffectiveSyncMode, ApCount, NumberOfAPs>>,
         \A d \in CPU \ {c} : /\ SyncMode'[d] = SyncMode[d] /\ MyBsp'[d] = MyBsp[d]
                              /\ Present'[d] = Present[d]
                              /\ owed'[d] = owed[d] /\ Busy'[d] = Busy[d]
                              /\ d # Leader => Run'[d] = Run[d],
         SyncMode'[c] = IF pc[c] = "route" THEN EffectiveSyncMode ELSE SyncMode[c],
         q # "exitwait" => /\ MyBsp'[c] = IF q \in FollowPc THEN Leader ELSE NoBsp
                           /\ Fits(Stage, Gathers, q)
                           /\ Busy'[c] <=> owed'[c] = 1,
         Present'[c] <=> q \in PresentPc,
         Run'[c] = IF Token(Stage, q, owed'[c]) THEN 1 ELSE 0,
         owed'[c] = 0 \/ (owed'[c] = 1 /\ owed[c] = 1 /\ q \in {"ap_loop", "ap_check", "ap_run"}),
         q = "ap_run" => owed'[c] = 1,
         q = "ap_check" => owed'[c] = 1 \/ Stage = "wait_done",
         Owes(Stage, Gathers, q) => Owes(Stage, Gathers, pc[c]),
         LET signals == Owes(Stage, Gathers, pc[c]) /\ ~Owes(Stage, Gathers, q) /\ pc[c] # "ap_giveup"
         IN  Leader \in CPU => Run'[Leader] = Run[Leader] + (IF signals THEN 1 ELSE 0),
         Counter' = (IF pc[c] = "ap_giveup" THEN Counter - 1 ELSE Counter),
         q = "exitwait" <=> pc[c] \in {"ap_giveup", "ap_done"}
  PROVE  RunInv'
<1>1. /\ pc[c] \notin LeadPc /\ q \notin LeadPc /\ pc[c] # "bsp_resync" /\ q # "bsp_resync"
      /\ pc[c] \in CountedPc /\ (q \in CountedPc <=> q # "exitwait")
      /\ q \in MemberPc <=> q # "exitwait"
  BY DEF ApPc, MemberPc, LeadPc, BspPc, CountedPc
<1>2. TypeOK /\ SingleBsp
  BY DEF Inv, RunInv
<1>3. Fits(Stage, Gathers, pc[c]) /\ FlowFits(Stage, Gathers)
  BY DEF RunInv, PhasesAgree
<1>4. \A d \in Lead : SyncMode'[d] = SyncMode[d]
  BY <1>1 DEF Lead
<1>5. /\ Lead' = Lead /\ Leader' = Leader /\ Stage' = Stage /\ Gathers' = Gathers
      /\ pc'[c] = q /\ \A d \in CPU \ {c} : pc'[d] = pc[d]
  BY <1>1, <1>2, <1>4, OtherMoves
<1>6. /\ Cardinality(Counted) \in Nat /\ Cardinality(Counted') \in Nat
      /\ Cardinality(Counted') = Cardinality(Counted) - (IF q = "exitwait" THEN 1 ELSE 0)
      /\ Cardinality(Owing) \in Nat /\ Cardinality(Owing') \in Nat
      /\ Cardinality(Owing') = Cardinality(Owing)
           + (IF Owes(Stage, Gathers, q) THEN 1 ELSE 0) - (IF Owes(Stage, Gathers, pc[c]) THEN 1 ELSE 0)
  <2>1. /\ Cardinality(Counted) \in Nat /\ Cardinality(Counted') \in Nat
        /\ Cardinality(Counted') = Cardinality(Counted)
             + (IF q \in CountedPc THEN 1 ELSE 0) - (IF pc[c] \in CountedPc THEN 1 ELSE 0)
    BY <1>1, <1>2, <1>4, OtherMoves
  <2>2. Cardinality(Counted') = Cardinality(Counted) - (IF q = "exitwait" THEN 1 ELSE 0)
    BY <1>1, <2>1
  <2>3. /\ Cardinality(Owing) \in Nat /\ Cardinality(Owing') \in Nat
        /\ Cardinality(Owing') = Cardinality(Owing)
             + (IF Owes(Stage, Gathers, q) THEN 1 ELSE 0) - (IF Owes(Stage, Gathers, pc[c]) THEN 1 ELSE 0)
    BY <1>1, <1>2, <1>4, OtherMoves
  <2> QED BY <2>1, <2>2, <2>3
<1>7. /\ Leader \in CPU <=> Lead # {}
      /\ Stage \in LeadPc \cup {"none"} /\ (Stage = "none" <=> Lead = {})
      /\ Lead # {} => pc[Leader] = Stage /\ Leader # c
  <2>1. NoBsp \notin CPU
    BY CpuAssumption
  <2> QED BY <1>1, <1>2, <2>1, StageType, NobodyLeads
<1>8. SingleBsp' /\ OneRun'
  BY <1>1, <1>5 DEF RunInv, SingleBsp, OneRun
<1>9. FlagsMean'
  <2>1. Counter' = Locked <=> Counter = Locked
    <3>1. CASE pc[c] = "ap_giveup"
      <4>1. Stage \in {"none", "bsp_enter", "bsp_clear"}
        BY <3>1, <1>3, <1>7 DEF Fits, FlowFits, LeadPc, BspPc, ArrivalPc, HandlersPc
      <4>2. Counter # Locked /\ Counter \in 0..Locked
        BY <4>1, <1>2 DEF RunInv, FlagsMean, Shut, ClosedPc, HandlersPc, TypeOK, SyncType
      <4> QED BY <3>1, <4>2, LockedAssumption
    <3> QED BY <3>1
  <2>2. \A d \in CPU : Present'[d] <=> pc'[d] \in PresentPc
    BY <1>5 DEF RunInv, FlagsMean
  <2>3. (\E d \in CPU : pc'[d] = "bsp_resync") <=> (\E d \in CPU : pc[d] = "bsp_resync")
    BY <1>1, <1>5
  <2> QED BY <1>5, <2>1, <2>2, <2>3 DEF RunInv, FlagsMean
<1>10. ModesAgree'
  <2>1. pc[c] = "route" => ~Settled(Stage)
    BY <1>3 DEF Fits, Settled
  <2> QED BY <1>1, <1>5, <1>7, <2>1 DEF RunInv, ModesAgree, MemberPc
<1>11. Follows'
  <2> SUFFICES ASSUME NEW d \in CPU
               PROVE  IF pc'[d] \in FollowPc THEN MyBsp'[d] = Leader
                      ELSE pc'[d] # "exitwait" => MyBsp'[d] = NoBsp
    BY <1>5 DEF Follows
  <2>1. CASE d = c
    <3>1. "exitwait" \notin FollowPc
      BY DEF FollowPc
    <3> QED BY <2>1, <3>1, <1>5
  <2>2. CASE d # c
    BY <2>2, <1>5 DEF RunInv, Follows
  <2> QED BY <2>1, <2>2
<1>12. PhasesAgree'
  BY <1>1, <1>5 DEF RunInv, PhasesAgree
<1>13. TokensFit'
  <2> SUFFICES ASSUME NEW d \in CPU, pc'[d] \notin LeadPc
               PROVE  Run'[d] = IF Token(Stage', pc'[d], owed'[d]) THEN 1 ELSE 0
    BY DEF TokensFit
  <2>1. CASE d = c
    BY <1>5, <2>1
  <2>2. CASE d # c
    BY <1>5, <1>7, <2>2 DEF RunInv, TokensFit
  <2> QED BY <2>1, <2>2
<1>14. TasksFit'
  BY <1>1, <1>5 DEF RunInv, TasksFit
<1>15. Balance'
  <2>1. CounterCounts'
    <3>1. CASE pc[c] = "ap_giveup"
      <4>1. Stage \in {"none", "bsp_enter", "bsp_clear"}
        BY <3>1, <1>3, <1>7 DEF Fits, FlowFits, LeadPc, BspPc, ArrivalPc, HandlersPc
      <4>2. Counter # Locked
        BY <4>1, <1>2 DEF RunInv, FlagsMean, Shut, ClosedPc, HandlersPc
      <4> QED BY <3>1, <4>2, <1>6 DEF RunInv, Balance, CounterCounts
    <3>2. CASE pc[c] = "ap_done"
      <4>1. Stage = "wait_reset"
        BY <3>2, <1>3, <1>7 DEF Fits, FlowFits, LeadPc, BspPc, ArrivalPc, HandlersPc
      <4>2. Counter = Locked
        BY <4>1 DEF RunInv, FlagsMean, Shut, ClosedPc
      <4> QED BY <3>2, <4>2 DEF CounterCounts
    <3>3. CASE q # "exitwait"
      BY <3>3, <1>6 DEF RunInv, Balance, CounterCounts
    <3> QED BY <3>1, <3>2, <3>3
  <2>2. Shut(Stage, Gathers) /\ Stage \notin {"wait_reset", "bsp_open"} => q # "exitwait"
    BY <1>3 DEF Fits, FlowFits, Shut, ClosedPc, HandlersPc, ArrivalPc
  <2>3. (Shut(Stage, Gathers) /\ Stage \notin {"wait_reset", "bsp_open"} => ApCount + 1 = Cardinality(Counted))'
    BY <1>5, <1>6, <2>2 DEF RunInv, Balance
  <2>4. (Stage \in WaitPc => NumberOfAPs <= Cardinality(CPU))'
    BY <1>5 DEF RunInv, Balance
  <2>5. ASSUME Lead # {}
        PROVE  IF Stage \in WaitPc THEN NumberOfAPs = Run'[Leader] + Cardinality(Owing')
               ELSE IF Stage \in GatherPc /\ Gathers
                 THEN Run'[Leader] + Cardinality(Owing') + 1 = Cardinality(Counted')
               ELSE Run'[Leader] = 0
    <3>1. Run[Leader] \in Nat
      BY <2>5, <1>2, <1>7 DEF TypeOK, BlockType
    <3>2. CASE Stage \in WaitPc
      <4>1. pc[c] # "ap_giveup"
        BY <3>2, <1>3 DEF Fits, FlowFits, WaitPc, ArrivalPc
      <4> QED BY <2>5, <3>1, <3>2, <4>1, <1>6, <1>7 DEF RunInv, Balance
    <3>3. CASE Stage \in GatherPc /\ Gathers
      <4>1. Stage \notin WaitPc /\ pc[c] # "ap_done"
        BY <3>3, <1>3 DEF Fits, FlowFits, WaitPc, ArrivalPc, GatherPc
      <4>2. pc[c] = "ap_giveup" => Owes(Stage, Gathers, pc[c]) /\ ~Owes(Stage, Gathers, q)
        BY <3>3, <1>1 DEF Owes, GatherPc, ArrivalPc
      <4>3. Run[Leader] + Cardinality(Owing) + 1 = Cardinality(Counted)
        BY <2>5, <3>3, <4>1 DEF RunInv, Balance
      <4>4. Run'[Leader] + Cardinality(Owing') + 1 = Cardinality(Counted')
        <5>1. CASE pc[c] = "ap_giveup"
          BY <5>1, <3>1, <4>2, <4>3, <1>6, <1>7, <2>5
        <5>2. CASE pc[c] # "ap_giveup"
          BY <5>2, <3>1, <4>1, <4>3, <1>6, <1>7, <2>5
        <5> QED BY <5>1, <5>2
      <4> QED BY <3>3, <4>1, <4>4
    <3>4. CASE Stage \notin WaitPc /\ ~(Stage \in GatherPc /\ Gathers)
      <4>1. Owes(Stage, Gathers, pc[c]) /\ ~Owes(Stage, Gathers, q) => pc[c] = "ap_giveup"
        BY <3>4, <1>3 DEF FlowFits, Owes, WaitPc
      <4> QED BY <2>5, <3>1, <3>4, <4>1, <1>7 DEF RunInv, Balance
    <3> QED BY <3>2, <3>3, <3>4
  <2> QED BY <1>5, <2>1, <2>3, <2>4, <2>5 DEF Balance
<1> QED BY <1>8, <1>9, <1>10, <1>11, <1>12, <1>13, <1>14, <1>15 DEF RunInv

\* What is known of a processor in the run when it moves.
LEMMA MemberFacts ==
  ASSUME Inv, RunInv, NEW c \in CPU, pc[c] \in MemberPc
  PROVE  /\ Fits(Stage, Gathers, pc[c]) /\ FlowFits(Stage, Gathers)
         /\ pc[c] \notin LeadPc /\ Run[c] = (IF Token(Stage, pc[c], owed[c]) THEN 1 ELSE 0)
         /\ Stage \in LeadPc \cup {"none"} /\ (Stage \in LeadPc => Leader \in CPU /\ Leader # c)
         /\ InsideSmm <=> Stage \in InsidePc
         /\ Present[c] <=> pc[c] \in PresentPc
         /\ MyBsp[c] = IF pc[c] \in FollowPc THEN Leader ELSE NoBsp
         /\ owed[c] \in {0, 1} /\ (Busy[c] <=> owed[c] = 1)
         /\ owed[c] = 1 => /\ pc[c] \in {"ap_loop", "ap_check", "ap_run"}
                           /\ Stage \in {"bsp_core", "bsp_block", "bsp_drain"}
<1>1. pc[c] \notin LeadPc /\ pc[c] # "exitwait"
  BY DEF MemberPc, ApPc, LeadPc, BspPc
<1>2. Stage \in LeadPc \cup {"none"} /\ (Stage \in LeadPc => Leader \in CPU /\ Leader # c)
  BY <1>1, StageType DEF Inv, RunInv
<1>3. Fits(Stage, Gathers, pc[c]) /\ FlowFits(Stage, Gathers)
  BY DEF RunInv, PhasesAgree
<1>4. Run[c] = IF Token(Stage, pc[c], owed[c]) THEN 1 ELSE 0
  BY <1>1 DEF RunInv, TokensFit
<1>5. (InsideSmm <=> Stage \in InsidePc) /\ (Present[c] <=> pc[c] \in PresentPc)
  BY DEF RunInv, FlagsMean
<1>6. MyBsp[c] = IF pc[c] \in FollowPc THEN Leader ELSE NoBsp
  BY <1>1 DEF RunInv, Follows
<1>7. /\ owed[c] \in {0, 1} /\ (Busy[c] <=> owed[c] = 1)
      /\ owed[c] = 1 => /\ pc[c] \in {"ap_loop", "ap_check", "ap_run"}
                        /\ Stage \in {"bsp_core", "bsp_block", "bsp_drain"}
  BY DEF RunInv, TasksFit
<1> QED BY <1>1, <1>2, <1>3, <1>4, <1>5, <1>6, <1>7

\* Who owes a signal finds room for it in the semaphore of the BSP.
LEMMA SignalRoom ==
  ASSUME Inv, RunInv, Owing # {}
  PROVE  Leader \in CPU /\ Run[Leader] \in Nat /\ Released(Run[Leader]) = Run[Leader] + 1
<1>1. PICK d \in CPU : Owes(Stage, Gathers, pc[d])
  BY DEF Owing
<1>2. Stage \in WaitPc \/ (Stage \in GatherPc /\ Gathers)
  BY <1>1 DEF Owes, WaitPc
<1>3. Stage \in LeadPc
  BY <1>2 DEF WaitPc, GatherPc, LeadPc, BspPc
<1>4. Leader \in CPU /\ Lead # {}
  BY <1>3, StageType DEF Inv, RunInv
<1>5. Run[Leader] \in 0..Locked
  BY <1>4 DEF Inv, TypeOK, BlockType
<1>6. Cardinality(Owing) \in Nat /\ Cardinality(Counted) \in Nat /\ Cardinality(CPU) \in Nat
      /\ Cardinality(Counted) <= Cardinality(CPU)
  BY CpuAssumption, FS_Subset, FS_CardinalityType DEF Owing, Counted
<1>7. Run[Leader] <= Cardinality(CPU)
  <2>1. CASE Stage \in WaitPc
    BY <2>1, <1>4, <1>5, <1>6 DEF RunInv, Balance
  <2>2. CASE Stage \notin WaitPc
    BY <2>2, <1>2, <1>4, <1>5, <1>6 DEF RunInv, Balance
  <2> QED BY <2>1, <2>2
<1>8. Run[Leader] # Locked
  BY <1>5, <1>6, <1>7, LockedAssumption
<1> QED BY <1>4, <1>5, <1>8 DEF Released

\* What is taken from a semaphore that is not empty.
LEMMA DecIs ==
  ASSUME NEW v \in 1..Locked
  PROVE  Dec(v) = v - 1
<1>1. v + Locked = (v - 1) + (Locked + 1) /\ v - 1 \in 0..Locked
  BY LockedAssumption
<1>2. (v + Locked) % (Locked + 1) = v - 1
  BY <1>1, LockedAssumption
<1> QED BY <1>2 DEF Dec

\* WaitForSemaphore takes the one signal there is.
LEMMA OneIsTaken == Dec(1) = 0
<1>1. Cardinality(CPU) \in Nat
  BY CpuAssumption, FS_CardinalityType
<1>2. 1 \in 1..Locked
  BY <1>1, LockedAssumption
<1> QED BY <1>2, DecIs

-----------------------------------------------------------------------------
(* The steps of the APs                                                    *)
\* An AP's last look at InsideSmm, its timeouts and its wakeup by the BSP.
LEMMA ApWaits ==
  ASSUME Inv, RunInv, NEW c \in CPU,
         ApSeesBsp(c) \/ ApTimeout1(c) \/ ApTimeout2(c) \/ ApGiveUp(c)
  PROVE  RunInv'
<1> DEFINE p == pc[c]
           q == pc'[c]
<1>1. /\ p \in {"ap_wait1", "ap_wait2", "ap_giveup"}
      /\ q \in {"ap_present", "ap_wait2", "ap_giveup", "exitwait"}
      /\ pc' = [pc EXCEPT ![c] = q]
      /\ q = "exitwait" <=> p = "ap_giveup"
      /\ p # "ap_giveup" => (q = "ap_present" <=> InsideSmm)
      /\ UNCHANGED <<InsideSmm, AllCpusInSync, EffectiveSyncMode, ApCount, NumberOfAPs,
                     SyncMode, MyBsp, Present, owed, Busy, Run>>
      /\ p # "ap_giveup" => Counter' = Counter
      /\ p = "ap_giveup" => Counter # 0 /\ Counter' = Dec(Counter)
  BY DEF ApSeesBsp, ApTimeout1, ApTimeout2, ApGiveUp, runVars, modeVars, frameVars, bspVars,
         Inv, TypeOK, FrameType
<1>2. p \in MemberPc
  BY <1>1 DEF MemberPc, ApPc
<1>3. /\ Fits(Stage, Gathers, p) /\ FlowFits(Stage, Gathers)
      /\ Run[c] = (IF Token(Stage, p, owed[c]) THEN 1 ELSE 0)
      /\ InsideSmm <=> Stage \in InsidePc
      /\ Present[c] <=> p \in PresentPc
      /\ MyBsp[c] = IF p \in FollowPc THEN Leader ELSE NoBsp
      /\ owed[c] = 0 /\ ~Busy[c]
      /\ Stage \in LeadPc \cup {"none"}
      /\ Leader \in CPU => Run[Leader] \in 0..Locked
  BY <1>1, <1>2, MemberFacts DEF Inv, TypeOK, BlockType
<1>4. p = "ap_giveup" => Counter' = Counter - 1
  <2>1. Counter \in 0..Locked
    BY DEF Inv, TypeOK, SyncType
  <2> QED BY <1>1, <2>1, DecIs
<1> HIDE DEF p, q
<1>5. ~Token(Stage, p, owed[c]) /\ ~Token(Stage, q, owed[c])
  BY <1>1, <1>3 DEF Token
<1>6. q # "exitwait" => Fits(Stage, Gathers, q)
  BY <1>1, <1>3 DEF Fits, FlowFits, ArrivalPc, InsidePc, HandlersPc, LeadPc, BspPc
<1>7. p \notin PresentPc /\ q \notin PresentPc /\ p \notin FollowPc /\ q \notin FollowPc
  BY <1>1 DEF PresentPc, FollowPc, LeadPc, BspPc
<1>8. /\ q # "exitwait" => (Owes(Stage, Gathers, p) <=> Owes(Stage, Gathers, q))
      /\ ~Owes(Stage, Gathers, "exitwait")
  BY <1>1 DEF Owes, ArrivalPc
<1>9. q \in ApPc \cup {"exitwait"}
  BY <1>1 DEF ApPc
<1> QED BY <1>1, <1>2, <1>3, <1>4, <1>5, <1>6, <1>7, <1>8, <1>9, MemberMoves DEF p, q

\* An AP sets its Present flag, looks at InsideSmm after a wakeup, runs the procedure.
LEMMA ApFollows ==
  ASSUME Inv, RunInv, NEW c \in CPU, ApPresent(c) \/ ApCheck(c) \/ ApRun(c)
  PROVE  RunInv'
<1> DEFINE p == pc[c]
           q == pc'[c]
<1>1. /\ \/ p = "ap_present" /\ q = (IF GatherFirst(c) THEN "ap_arrive" ELSE "ap_loop")
         \/ p = "ap_check" /\ q = (IF InsideSmm THEN "ap_run"
                                   ELSE IF NeedMtrrs THEN "ap_leave" ELSE "ap_ready")
         \/ p = "ap_run" /\ q = "ap_loop"
      /\ pc' = [pc EXCEPT ![c] = q]
      /\ p = "ap_present" => MyBsp'[c] = BspIndex /\ Present'[c]
      /\ p # "ap_present" => UNCHANGED <<MyBsp, Present>>
      /\ p # "ap_run" => UNCHANGED <<owed, Busy>>
      /\ p = "ap_run" => owed'[c] = owed[c] - 1 /\ ~Busy'[c]
      /\ UNCHANGED <<InsideSmm, AllCpusInSync, EffectiveSyncMode, ApCount, NumberOfAPs,
                     SyncMode, Run, Counter>>
      /\ \A d \in CPU \ {c} : /\ MyBsp'[d] = MyBsp[d] /\ Present'[d] = Present[d]
                              /\ owed'[d] = owed[d] /\ Busy'[d] = Busy[d]
  BY DEF ApPresent, ApCheck, ApRun, runVars, modeVars, frameVars, bspVars,
         Inv, TypeOK, FrameType, BlockType, TaskType
<1>2. p \in MemberPc
  BY <1>1 DEF MemberPc, ApPc
<1>3. /\ Fits(Stage, Gathers, p) /\ FlowFits(Stage, Gathers)
      /\ Run[c] = (IF Token(Stage, p, owed[c]) THEN 1 ELSE 0)
      /\ InsideSmm <=> Stage \in InsidePc
      /\ Present[c] <=> p \in PresentPc
      /\ MyBsp[c] = IF p \in FollowPc THEN Leader ELSE NoBsp
      /\ owed[c] \in {0, 1} /\ (Busy[c] <=> owed[c] = 1)
      /\ Stage \in LeadPc \cup {"none"}
      /\ Stage \in LeadPc => Leader \in CPU
  BY <1>1, <1>2, MemberFacts
<1>4. /\ p = "ap_run" => owed[c] = 1
      /\ p = "ap_check" => owed[c] = 1 \/ Stage = "wait_done"
  BY DEF RunInv, TasksFit
<1>5. p = "ap_present" => BspIndex = Leader /\ (GatherFirst(c) <=> Gathers) /\ owed[c] = 0
  <2> HAVE p = "ap_present"
  <2>1. Stage \in OwnerPc
    BY <1>1, <1>3 DEF Fits, OwnerPc, LeadPc, BspPc, ArrivalPc
  <2>2. Leader \in CPU /\ pc[Leader] = Stage /\ Lead # {}
    BY <2>1, StageType DEF Inv, RunInv, OwnerPc, LeadPc
  <2>3. BspIndex = Leader
    BY <2>1, <2>2 DEF Inv, BspOwnsRun
  <2>4. SyncMode[c] = SyncMode[Leader]
    BY <2>2 DEF RunInv, ModesAgree, ApPc
  <2>5. owed[c] = 0
    BY <1>3 DEF RunInv, TasksFit
  <2> QED BY <2>2, <2>3, <2>4, <2>5 DEF Gathers, GatherFirst
<1> HIDE DEF p, q
<1>6. /\ owed'[c] = 0 \/ (owed'[c] = 1 /\ owed[c] = 1 /\ q \in {"ap_loop", "ap_check", "ap_run"})
      /\ q = "ap_run" => owed'[c] = 1
      /\ q # "ap_check"
      /\ Busy'[c] <=> owed'[c] = 1
  <2>1. CASE p = "ap_present"
    BY <2>1, <1>1, <1>3, <1>5
  <2>2. CASE p = "ap_check"
    <3>1. CASE InsideSmm
      <4>1. owed[c] = 1
        BY <2>2, <3>1, <1>3, <1>4 DEF InsidePc, HandlersPc
      <4> QED BY <2>2, <3>1, <4>1, <1>1, <1>3
    <3>2. CASE ~InsideSmm
      <4>1. owed[c] = 0
        <5>1. Stage \notin {"bsp_core", "bsp_block", "bsp_drain"}
          BY <3>2, <1>3 DEF InsidePc, HandlersPc
        <5> QED BY <5>1, <1>3 DEF RunInv, TasksFit
      <4> QED BY <2>2, <3>2, <4>1, <1>1, <1>3
    <3> QED BY <3>1, <3>2
  <2>3. CASE p = "ap_run"
    BY <2>3, <1>1, <1>4
  <2> QED BY <1>1, <2>1, <2>2, <2>3
<1>7. Fits(Stage, Gathers, q)
  BY <1>1, <1>3, <1>4, <1>5 DEF Fits, FlowFits, ArrivalPc, InsidePc, HandlersPc, LeadPc, BspPc, GatherFirst
<1>8. ~Token(Stage, p, owed[c]) /\ ~Token(Stage, q, owed'[c])
  BY <1>1, <1>3, <1>5, <1>6 DEF Token, Fits, ArrivalPc, InsidePc, HandlersPc
<1>9. /\ Present'[c] <=> q \in PresentPc
      /\ MyBsp'[c] = IF q \in FollowPc THEN Leader ELSE NoBsp
  BY <1>1, <1>3, <1>5 DEF PresentPc, FollowPc
<1>10. Owes(Stage, Gathers, p) <=> Owes(Stage, Gathers, q)
  BY <1>1, <1>3, <1>5 DEF Owes, Fits, FlowFits, ArrivalPc, GatherPc, HandlersPc, InsidePc
<1>11. q \in ApPc /\ q # "exitwait" /\ p \notin {"ap_giveup", "ap_done", "route"}
  BY <1>1 DEF ApPc
<1>12. Leader \in CPU => Run[Leader] \in 0..Locked
  BY DEF Inv, TypeOK, BlockType
<1> QED BY <1>12, <1>1, <1>2, <1>3, <1>6, <1>7, <1>8, <1>9, <1>10, <1>11, MemberMoves DEF p, q

\* An AP takes its own signal, or signals the BSP, or does one and then the other.
LEMMA ApSignals ==
  ASSUME Inv, RunInv, NEW c \in CPU,
         \/ ApArrive(c) \/ ApSave(c) \/ ApSet(c) \/ ApWake(c)
         \/ ApLeave(c) \/ ApRestore(c) \/ ApReady(c) \/ ApReset(c) \/ ApDone(c)
  PROVE  RunInv'
<1> DEFINE p == pc[c]
           q == pc'[c]
           takes == p \in {"ap_save", "ap_set", "ap_loop", "ap_restore", "ap_reset"}
           signals == p \in {"ap_arrive", "ap_save", "ap_set", "ap_leave", "ap_ready", "ap_done"}
           taken == IF takes THEN [Run EXCEPT ![c] = Dec(@)] ELSE Run
<1>1. /\ \/ p = "ap_arrive" /\ q = (IF NeedMtrrs THEN "ap_save" ELSE "ap_loop")
         \/ p = "ap_save" /\ q = "ap_set"
         \/ p = "ap_set" /\ q = "ap_loop"
         \/ p = "ap_loop" /\ q = "ap_check"
         \/ p = "ap_leave" /\ q = "ap_restore"
         \/ p = "ap_restore" /\ q = "ap_ready"
         \/ p = "ap_ready" /\ q = "ap_reset"
         \/ p = "ap_reset" /\ q = "ap_done"
         \/ p = "ap_done" /\ q = "exitwait"
      /\ pc' = [pc EXCEPT ![c] = q]
      /\ UNCHANGED <<InsideSmm, AllCpusInSync, EffectiveSyncMode, ApCount, NumberOfAPs,
                     SyncMode, MyBsp, owed, Busy, Counter>>
      /\ p # "ap_reset" => UNCHANGED Present
      /\ p = "ap_reset" => ~Present'[c]
      /\ \A d \in CPU \ {c} : Present'[d] = Present[d]
  BY DEF ApArrive, ApSave, ApSet, ApWake, ApLeave, ApRestore, ApReady, ApReset, ApDone,
         runVars, modeVars, frameVars, bspVars, Inv, TypeOK, FrameType, BlockType
<1>2. /\ takes => Run[c] > 0
      /\ Run' = IF signals THEN [taken EXCEPT ![MyBsp[c]] = Released(@)] ELSE taken
  BY DEF ApArrive, ApSave, ApSet, ApWake, ApLeave, ApRestore, ApReady, ApReset, ApDone,
         TakeOwn, SignalBsp, TakeAndSignal
<1>3. p \in MemberPc
  BY <1>1 DEF MemberPc, ApPc
<1>4. /\ Fits(Stage, Gathers, p) /\ FlowFits(Stage, Gathers)
      /\ Run[c] = (IF Token(Stage, p, owed[c]) THEN 1 ELSE 0)
      /\ Present[c] <=> p \in PresentPc
      /\ MyBsp[c] = IF p \in FollowPc THEN Leader ELSE NoBsp
      /\ owed[c] \in {0, 1} /\ (Busy[c] <=> owed[c] = 1)
      /\ owed[c] = 1 => /\ p \in {"ap_loop", "ap_check", "ap_run"}
                        /\ Stage \in {"bsp_core", "bsp_block", "bsp_drain"}
      /\ Stage \in LeadPc \cup {"none"}
      /\ Stage \in LeadPc => Leader \in CPU /\ Leader # c
  BY <1>1, <1>3, MemberFacts
<1>5. Run \in [CPU -> 0..Locked]
  BY DEF Inv, TypeOK, BlockType
<1> HIDE DEF p, q
<1>6. Stage \in LeadPc /\ Leader \in CPU /\ Leader # c /\ MyBsp[c] = Leader
  <2>1. p \in FollowPc
    BY <1>1 DEF FollowPc
  <2>2. Stage # "none"
    BY <1>1, <1>4 DEF Fits, ArrivalPc
  <2> QED BY <1>4, <2>1, <2>2
<1>7. takes => Token(Stage, p, owed[c]) /\ Dec(Run[c]) = 0
  BY <1>2, <1>4, OneIsTaken
<1>8. signals => Owes(Stage, Gathers, p)
  BY <1>1, <1>2, <1>4, <1>6, <1>7 DEF Owes, Token, Fits, FlowFits, ArrivalPc, GatherPc, HandlersPc, LeadPc, BspPc
<1>9. Owes(Stage, Gathers, p) /\ ~Owes(Stage, Gathers, q) <=> signals
  BY <1>1, <1>2, <1>4, <1>6, <1>7, <1>8 DEF Owes, Token, Fits, FlowFits, ArrivalPc, GatherPc, HandlersPc, LeadPc, BspPc
<1>10. Owes(Stage, Gathers, q) => Owes(Stage, Gathers, p)
  BY <1>1, <1>2, <1>4, <1>6, <1>7 DEF Owes, Token, Fits, FlowFits, ArrivalPc, GatherPc, HandlersPc, LeadPc, BspPc
<1>11. signals => Run[Leader] \in Nat /\ Released(Run[Leader]) = Run[Leader] + 1
  BY <1>8, SignalRoom DEF Owing, p
<1>12. /\ Run'[c] = (IF takes THEN 0 ELSE Run[c])
       /\ Run'[Leader] = Run[Leader] + (IF signals THEN 1 ELSE 0)
       /\ \A d \in CPU \ {c} : d # Leader => Run'[d] = Run[d]
  BY <1>2, <1>5, <1>6, <1>7, <1>11
<1>13. q # "exitwait" => Fits(Stage, Gathers, q)
  BY <1>1, <1>2, <1>4, <1>6, <1>7, <1>8 DEF Owes, Token, Fits, FlowFits, ArrivalPc, GatherPc, HandlersPc, LeadPc, BspPc
<1>14. Run'[c] = IF Token(Stage, q, owed[c]) THEN 1 ELSE 0
  BY <1>1, <1>4, <1>6, <1>7, <1>8, <1>12 DEF Owes, Token, Fits, FlowFits, ArrivalPc, GatherPc, HandlersPc, LeadPc, BspPc
<1>15. /\ Present'[c] <=> q \in PresentPc
       /\ q # "exitwait" => MyBsp'[c] = IF q \in FollowPc THEN Leader ELSE NoBsp
  BY <1>1, <1>4, <1>6 DEF PresentPc, FollowPc, LeadPc, BspPc
<1>16. /\ owed[c] = 0 \/ q = "ap_check"
       /\ q = "ap_check" => owed[c] = 1 \/ Stage = "wait_done"
       /\ q # "ap_run" /\ q \in ApPc \cup {"exitwait"} /\ p # "ap_giveup" /\ p # "route"
       /\ q = "exitwait" <=> p \in {"ap_giveup", "ap_done"}
  BY <1>1, <1>4, <1>7 DEF Token, ApPc
<1> HIDE DEF takes, signals, taken
<1> QED BY <1>1, <1>3, <1>4, <1>6, <1>9, <1>10, <1>12, <1>13, <1>14, <1>15, <1>16, MemberMoves DEF p, q

-----------------------------------------------------------------------------
(* The steps of the BSP                                                    *)
\* What a step of the BSP must respect.
LEMMA LeaderMoves ==
  ASSUME Inv, RunInv, NEW c \in CPU, NEW q \in LeadPc,
         pc[c] \in LeadPc, pc' = [pc EXCEPT ![c] = q],
         UNCHANGED <<SyncMode, MyBsp, owed>>,
         EffectiveSyncMode' = EffectiveSyncMode \/ Settled(q),
         Settled(pc[c]) => Settled(q),
         \A d \in CPU \ {c} : Busy'[d] = Busy[d] /\ Present'[d] = Present[d],
         Present'[c] <=> q \in PresentPc,
         InsideSmm' <=> q \in InsidePc,
         AllCpusInSync' <=> \/ Shut(q, Gathers) \/ q = "bsp_lock"
                            \/ \E d \in CPU : pc[d] = "bsp_resync",
         Counter' = Locked <=> Shut(q, Gathers),
         Counter' \in {Counter, Locked},
         FlowFits(q, Gathers),
         \A d \in CPU :
           /\ pc[d] \in MemberPc => Fits(q, Gathers, pc[d])
           /\ pc[d] = "bsp_resync" => q \in {"bsp_enter", "bsp_clear"}
           /\ pc[d] \notin LeadPc => Run'[d] = IF Token(q, pc[d], owed[d]) THEN 1 ELSE 0
           /\ owed[d] = 1 => q \in {"bsp_core", "bsp_block", "bsp_drain"}
           /\ pc[d] = "ap_check" => owed[d] = 1 \/ q = "wait_done",
         Shut(q, Gathers) /\ q \notin {"wait_reset", "bsp_open"} => ApCount' + 1 = Cardinality(Counted),
         q \in WaitPc => NumberOfAPs' <= Cardinality(CPU),
         LET signals == Cardinality({d \in CPU : Owes(q, Gathers, pc[d])})
         IN  IF q \in WaitPc THEN NumberOfAPs' = Run'[c] + signals
             ELSE IF q \in GatherPc /\ Gathers THEN Run'[c] + signals + 1 = Cardinality(Counted)
             ELSE Run'[c] = 0
  PROVE  RunInv'
<1>1. TypeOK /\ SingleBsp
  BY DEF Inv, RunInv
<1>2. pc'[c] = q /\ \A d \in CPU \ {c} : pc'[d] = pc[d]
  BY <1>1 DEF TypeOK, FrameType
<1>3. Lead = {c} /\ Leader = c /\ Stage = pc[c] /\ (Gathers <=> GatherFirst(c))
  BY <1>1, LeaderIs
<1>4. Lead' = {c} /\ Leader' = c
  <2>1. Lead' = {c}
    BY <1>2, <1>3 DEF Lead
  <2> QED BY <2>1 DEF Leader
<1>5. Stage' = q /\ Gathers' = Gathers
  <2>1. Stage' = q
    BY <1>2, <1>4 DEF Stage
  <2>2. Gathers' = GatherFirst(c) /\ Gathers = GatherFirst(c)
    BY <1>3, <1>4 DEF Gathers, GatherFirst
  <2> QED BY <2>1, <2>2
<1>6. /\ pc[c] \notin MemberPc /\ q \notin MemberPc /\ pc[c] \in CountedPc /\ q \in CountedPc
      /\ pc[c] # "bsp_resync" /\ q # "bsp_resync" /\ pc[c] \notin FollowPc /\ q \notin FollowPc
      /\ pc[c] # "exitwait" /\ q # "exitwait" /\ pc[c] \notin ApPc /\ q \notin ApPc
  BY DEF LeadPc, BspPc, MemberPc, ApPc, CountedPc, FollowPc
<1>7. Counted' = Counted
  BY <1>2, <1>6 DEF Counted
<1>8. Owing' = {d \in CPU : Owes(q, Gathers, pc[d])}
  <2>1. ~Owes(q, Gathers, q) /\ ~Owes(q, Gathers, pc[c])
    BY DEF Owes, LeadPc, BspPc, ArrivalPc
  <2> QED BY <1>2, <1>5, <2>1 DEF Owing
<1>9. SingleBsp' /\ OneRun'
  <2>1. SingleBsp'
    BY <1>4 DEF SingleBsp
  <2>2. OneRun'
    BY <1>2, <1>5, <1>6 DEF RunInv, OneRun
  <2> QED BY <2>1, <2>2
<1>10. FlagsMean'
  <2>1. (\E d \in CPU : pc'[d] = "bsp_resync") <=> (\E d \in CPU : pc[d] = "bsp_resync")
    BY <1>2, <1>6
  <2>2. \A d \in CPU : Present'[d] <=> pc'[d] \in PresentPc
    BY <1>2 DEF RunInv, FlagsMean
  <2> QED BY <1>5, <2>1, <2>2 DEF FlagsMean
<1>11. ModesAgree'
  BY <1>2, <1>3, <1>4, <1>5, <1>6 DEF RunInv, ModesAgree
<1>12. Follows'
  BY <1>2, <1>3, <1>4, <1>6 DEF RunInv, Follows
<1>13. PhasesAgree'
  BY <1>2, <1>5, <1>6 DEF PhasesAgree
<1>14. TokensFit'
  BY <1>2, <1>5 DEF TokensFit
<1>15. TasksFit'
  <2> SUFFICES ASSUME NEW d \in CPU
               PROVE  /\ owed'[d] \in {0, 1}
                      /\ owed'[d] = 1 => /\ pc'[d] \in {"ap_loop", "ap_check", "ap_run"}
                                         /\ Stage' \in {"bsp_core", "bsp_block", "bsp_drain"}
                      /\ pc'[d] \in MemberPc => (Busy'[d] <=> owed'[d] = 1)
                      /\ pc'[d] = "ap_run" => owed'[d] = 1
                      /\ pc'[d] = "ap_check" => owed'[d] = 1 \/ Stage' = "wait_done"
    BY DEF TasksFit
  <2>1. CASE d = c
    BY <2>1, <1>2, <1>5, <1>6 DEF RunInv, TasksFit, MemberPc, ApPc
  <2>2. CASE d # c
    BY <2>2, <1>2, <1>5 DEF RunInv, TasksFit
  <2> QED BY <2>1, <2>2
<1>16. Balance'
  <2>1. CounterCounts'
    BY <1>7 DEF RunInv, Balance, CounterCounts
  <2>2. (Stage \in WaitPc => NumberOfAPs <= Cardinality(CPU))'
    BY <1>5
  <2>3. (Shut(Stage, Gathers) /\ Stage \notin {"wait_reset", "bsp_open"} => ApCount + 1 = Cardinality(Counted))'
    BY <1>5, <1>7
  <2>4. (IF Stage \in WaitPc THEN NumberOfAPs = Run[Leader] + Cardinality(Owing)
         ELSE IF Stage \in GatherPc /\ Gathers
           THEN Run[Leader] + Cardinality(Owing) + 1 = Cardinality(Counted)
         ELSE Run[Leader] = 0)'
    BY <1>4, <1>5, <1>7, <1>8
  <2> QED BY <2>1, <2>2, <2>3, <2>4 DEF Balance
<1> QED BY <1>9, <1>10, <1>11, <1>12, <1>13, <1>14, <1>15, <1>16 DEF RunInv

\* What is known of the BSP when it moves.
LEMMA LeaderFacts ==
  ASSUME Inv, RunInv, NEW c \in CPU, pc[c] \in LeadPc
  PROVE  /\ Leader = c /\ Lead = {c} /\ Stage = pc[c] /\ (Gathers <=> GatherFirst(c))
         /\ FlowFits(pc[c], Gathers)
         /\ \A d \in CPU :
              /\ pc[d] \in MemberPc => /\ Fits(pc[c], Gathers, pc[d])
                                       /\ Busy[d] <=> owed[d] = 1
              /\ pc[d] \notin LeadPc => Run[d] = IF Token(pc[c], pc[d], owed[d]) THEN 1 ELSE 0
              /\ pc[d] = "bsp_resync" => pc[c] \in {"bsp_enter", "bsp_clear"}
              /\ owed[d] = 1 => /\ pc[d] \in {"ap_loop", "ap_check", "ap_run"}
                                /\ pc[c] \in {"bsp_core", "bsp_block", "bsp_drain"}
              /\ owed[d] \in {0, 1}
              /\ pc[d] = "ap_check" => owed[d] = 1 \/ pc[c] = "wait_done"
              /\ pc[d] = "ap_run" => owed[d] = 1
              /\ Present[d] <=> pc[d] \in PresentPc
              /\ Run[d] \in 0..Locked
         /\ InsideSmm <=> pc[c] \in InsidePc
         /\ AllCpusInSync <=> \/ Shut(pc[c], Gathers) \/ pc[c] = "bsp_lock"
                              \/ \E d \in CPU : pc[d] = "bsp_resync"
         /\ Counter = Locked <=> Shut(pc[c], Gathers)
         /\ pc[c] \in OwnerPc => BspIndex = c
<1>1. Lead = {c} /\ Leader = c /\ Stage = pc[c] /\ (Gathers <=> GatherFirst(c))
  BY LeaderIs DEF RunInv
<1>2. /\ FlowFits(pc[c], Gathers)
      /\ \A d \in CPU : pc[d] \in MemberPc => Fits(pc[c], Gathers, pc[d])
  BY <1>1 DEF RunInv, PhasesAgree
<1>3. \A d \in CPU : pc[d] \notin LeadPc => Run[d] = IF Token(pc[c], pc[d], owed[d]) THEN 1 ELSE 0
  BY <1>1 DEF RunInv, TokensFit
<1>4. \A d \in CPU : pc[d] = "bsp_resync" => pc[c] \in {"bsp_enter", "bsp_clear"}
  <2>1. pc[c] # "none"
    BY DEF LeadPc, BspPc
  <2> QED BY <1>1, <2>1 DEF RunInv, OneRun
<1>5. \A d \in CPU : /\ owed[d] = 1 => /\ pc[d] \in {"ap_loop", "ap_check", "ap_run"}
                                       /\ pc[c] \in {"bsp_core", "bsp_block", "bsp_drain"}
                     /\ owed[d] \in {0, 1}
                     /\ pc[d] \in MemberPc => (Busy[d] <=> owed[d] = 1)
                     /\ pc[d] = "ap_check" => owed[d] = 1 \/ pc[c] = "wait_done"
                     /\ pc[d] = "ap_run" => owed[d] = 1
  BY <1>1 DEF RunInv, TasksFit
<1>6. /\ \A d \in CPU : Present[d] <=> pc[d] \in PresentPc
      /\ InsideSmm <=> pc[c] \in InsidePc
      /\ AllCpusInSync <=> \/ Shut(pc[c], Gathers) \/ pc[c] = "bsp_lock"
                           \/ \E d \in CPU : pc[d] = "bsp_resync"
      /\ Counter = Locked <=> Shut(pc[c], Gathers)
  BY <1>1 DEF RunInv, FlagsMean
<1>7. pc[c] \in OwnerPc => BspIndex = c
  BY DEF Inv, BspOwnsRun
<1>8. \A d \in CPU : Run[d] \in 0..Locked
  BY DEF Inv, TypeOK, BlockType
<1> QED BY <1>1, <1>2, <1>3, <1>4, <1>5, <1>6, <1>7, <1>8

\* The BSP announces itself, waits for arrivals and closes the waiting room.
LEMMA BspGathers ==
  ASSUME Inv, RunInv, PromptWindows, NEW c \in CPU,
         BspEnter(c) \/ BspClear(c) \/ BspArrival(c) \/ BspInSync(c)
  PROVE  RunInv'
<1> DEFINE p == pc[c]
           q == pc'[c]
<1>1. /\ \/ p = "bsp_enter" /\ q = "bsp_clear" /\ InsideSmm'
         \/ /\ p = "bsp_clear" /\ q = (IF GatherFirst(c) THEN "bsp_arrival" ELSE "bsp_entry")
            /\ \A d \in CPU : pc[d] \notin {"ap_giveup", "bsp_resync"}
         \/ p = "bsp_arrival" /\ q = "bsp_insync"
         \/ p = "bsp_insync" /\ q = "bsp_lock"
      /\ pc' = [pc EXCEPT ![c] = q]
      /\ UNCHANGED <<EffectiveSyncMode, ApCount, NumberOfAPs, SyncMode, MyBsp, owed, Busy, Run, Counter>>
      /\ p # "bsp_enter" => UNCHANGED InsideSmm
      /\ AllCpusInSync' = IF p = "bsp_insync" THEN TRUE ELSE AllCpusInSync
      /\ Present'[c] = IF p = "bsp_clear" THEN TRUE ELSE Present[c]
      /\ \A d \in CPU \ {c} : Present'[d] = Present[d]
  BY DEF BspEnter, BspClear, BspArrival, BspInSync, runVars, modeVars, frameVars, bspVars,
         Inv, TypeOK, FrameType, BlockType, Window
<1>2. p \in LeadPc /\ q \in LeadPc
  BY <1>1 DEF LeadPc, BspPc
<1>3. Leader = c /\ Stage = p /\ (Gathers <=> GatherFirst(c)) /\ Lead # {} /\ Gathers \in BOOLEAN
  BY <1>2, LeaderFacts DEF Gathers
<1>4. FlowFits(p, Gathers) /\ (InsideSmm <=> p \in InsidePc)
  BY <1>2, LeaderFacts
<1>5. /\ AllCpusInSync <=> \/ Shut(p, Gathers) \/ p = "bsp_lock"
                           \/ \E d \in CPU : pc[d] = "bsp_resync"
      /\ Counter = Locked <=> Shut(p, Gathers)
  BY <1>2, LeaderFacts
<1>6. \A d \in CPU :
        /\ pc[d] \in MemberPc => Fits(p, Gathers, pc[d])
        /\ pc[d] \notin LeadPc => Run[d] = IF Token(p, pc[d], owed[d]) THEN 1 ELSE 0
        /\ pc[d] = "bsp_resync" => p \in {"bsp_enter", "bsp_clear"}
        /\ owed[d] = 1 => p \in {"bsp_core", "bsp_block", "bsp_drain"}
        /\ pc[d] = "ap_check" => owed[d] = 1 \/ p = "wait_done"
        /\ Present[d] <=> pc[d] \in PresentPc
  BY <1>2, LeaderFacts
<1>7. IF Gathers THEN Run[c] + Cardinality(Owing) + 1 = Cardinality(Counted) ELSE Run[c] = 0
  BY <1>1, <1>3 DEF RunInv, Balance, WaitPc, GatherPc
<1> HIDE DEF p, q
<1>8. FlowFits(q, Gathers) /\ ~Settled(p) /\ ~Settled(q) /\ ~Shut(p, Gathers) /\ ~Shut(q, Gathers)
  BY <1>1, <1>3, <1>4 DEF FlowFits, Settled, Shut, ClosedPc, HandlersPc
<1>9. /\ InsideSmm' <=> q \in InsidePc
      /\ Present'[c] <=> q \in PresentPc
  BY <1>1, <1>4, <1>6, <1>3 DEF InsidePc, PresentPc, HandlersPc, LeadPc, BspPc, p
<1>10. AllCpusInSync' <=> \/ Shut(q, Gathers) \/ q = "bsp_lock"
                          \/ \E d \in CPU : pc[d] = "bsp_resync"
  BY <1>1, <1>5, <1>8
<1>11. \A d \in CPU :
        /\ pc[d] \in MemberPc => Fits(q, Gathers, pc[d])
        /\ pc[d] = "bsp_resync" => q \in {"bsp_enter", "bsp_clear"}
        /\ pc[d] \notin LeadPc => Run'[d] = IF Token(q, pc[d], owed[d]) THEN 1 ELSE 0
        /\ owed[d] = 1 => q \in {"bsp_core", "bsp_block", "bsp_drain"}
        /\ pc[d] = "ap_check" => owed[d] = 1 \/ q = "wait_done"
  <2> SUFFICES ASSUME NEW d \in CPU
               PROVE  /\ pc[d] \in MemberPc => Fits(q, Gathers, pc[d])
                      /\ pc[d] = "bsp_resync" => q \in {"bsp_enter", "bsp_clear"}
                      /\ Token(q, pc[d], owed[d]) <=> Token(p, pc[d], owed[d])
                      /\ owed[d] = 1 => q \in {"bsp_core", "bsp_block", "bsp_drain"}
                      /\ pc[d] = "ap_check" => owed[d] = 1 \/ q = "wait_done"
    BY <1>1, <1>6
  <2>1. pc[d] \in MemberPc => Fits(q, Gathers, pc[d])
    <3>1. CASE p = "bsp_enter"
      BY <3>1, <1>1, <1>6 DEF Fits, ArrivalPc, HandlersPc
    <3>2. CASE p = "bsp_clear" /\ Gathers
      BY <3>2, <1>1, <1>3, <1>6 DEF Fits, ArrivalPc, HandlersPc
    <3>3. CASE p = "bsp_clear" /\ ~Gathers
      BY <3>3, <1>1, <1>3, <1>6 DEF Fits, ArrivalPc, HandlersPc
    <3>4. CASE p = "bsp_arrival"
      BY <3>4, <1>1, <1>4, <1>6 DEF Fits, FlowFits, ArrivalPc, HandlersPc
    <3>5. CASE p = "bsp_insync"
      BY <3>5, <1>1, <1>6 DEF Fits, ArrivalPc, HandlersPc
    <3> QED BY <3>1, <3>2, <3>3, <3>4, <3>5, <1>1
  <2>2. Token(q, pc[d], owed[d]) <=> Token(p, pc[d], owed[d])
    BY <1>1 DEF Token
  <2> QED BY <1>1, <1>6, <2>1, <2>2
<1>12. /\ q \notin WaitPc
       /\ q \in GatherPc <=> (Gathers \/ q # "bsp_entry")
       /\ Gathers => q \in GatherPc
  BY <1>1, <1>3 DEF WaitPc, GatherPc
<1>13. Gathers => Owing = {d \in CPU : Owes(q, Gathers, pc[d])}
  BY <1>1, <1>3, <1>12 DEF Owing, Owes, GatherPc
<1>14. /\ pc[c] \in LeadPc /\ q \in LeadPc /\ pc' = [pc EXCEPT ![c] = q]
       /\ UNCHANGED <<SyncMode, MyBsp, owed>>
       /\ EffectiveSyncMode' = EffectiveSyncMode \/ Settled(q)
       /\ Settled(pc[c]) => Settled(q)
       /\ \A d \in CPU \ {c} : Busy'[d] = Busy[d] /\ Present'[d] = Present[d]
       /\ Counter' = Locked <=> Shut(q, Gathers)
       /\ Counter' \in {Counter, Locked}
  <2>1. pc[c] = p
    BY DEF p
  <2> QED BY <1>1, <1>2, <1>5, <1>8, <2>1
<1>15. Shut(q, Gathers) /\ q \notin {"wait_reset", "bsp_open"} => ApCount' + 1 = Cardinality(Counted)
  BY <1>8
<1>16. LET signals == Cardinality({d \in CPU : Owes(q, Gathers, pc[d])})
       IN  IF q \in WaitPc THEN NumberOfAPs' = Run'[c] + signals
           ELSE IF q \in GatherPc /\ Gathers THEN Run'[c] + signals + 1 = Cardinality(Counted)
           ELSE Run'[c] = 0
  BY <1>1, <1>7, <1>12, <1>13
<1>17. q \in WaitPc => NumberOfAPs' <= Cardinality(CPU)
  BY <1>12
<1>18. FlowFits(q, Gathers)
  BY <1>8
<1> QED BY <1>9, <1>10, <1>11, <1>14, <1>15, <1>16, <1>17, <1>18, LeaderMoves

\* The BSP locks Counter: every other processor it has counted is an AP.
LEMMA BspCloses ==
  ASSUME Inv, RunInv, NEW c \in CPU, BspLock(c)
  PROVE  RunInv'
<1> DEFINE q == IF GatherFirst(c) THEN "wait_ready" ELSE "wait_present"
<1>1. /\ pc[c] = "bsp_lock" /\ pc' = [pc EXCEPT ![c] = q]
      /\ Counter' = Locked /\ ApCount' = Dec(Counter) /\ NumberOfAPs' = Dec(Counter)
      /\ UNCHANGED <<EffectiveSyncMode, SyncMode, MyBsp, owed, Busy, Run, Present, InsideSmm, AllCpusInSync>>
  BY DEF BspLock, runVars, modeVars, frameVars
<1>2. pc[c] \in LeadPc /\ q \in LeadPc
  BY <1>1 DEF LeadPc, BspPc
<1>3. /\ Leader = c /\ Stage = "bsp_lock" /\ (Gathers <=> GatherFirst(c)) /\ Lead # {}
      /\ InsideSmm /\ AllCpusInSync /\ Counter # Locked /\ Present[c]
  BY <1>1, <1>2, LeaderFacts DEF InsidePc, HandlersPc, Shut, ClosedPc, PresentPc, LeadPc, BspPc
<1>4. \A d \in CPU :
        /\ pc[d] \in MemberPc => Fits("bsp_lock", Gathers, pc[d])
        /\ pc[d] \notin LeadPc => Run[d] = IF Token("bsp_lock", pc[d], owed[d]) THEN 1 ELSE 0
        /\ pc[d] # "bsp_resync" /\ owed[d] # 1 /\ pc[d] # "ap_check"
  BY <1>1, <1>2, LeaderFacts
<1>5. /\ Cardinality(Counted) \in Nat /\ Cardinality(Counted) > 0
      /\ Cardinality(Counted) <= Cardinality(CPU) /\ Cardinality(CPU) \in Nat
  <2>1. Counted \subseteq CPU /\ c \in Counted
    BY <1>1 DEF Counted, CountedPc, BspPc
  <2> QED BY <2>1, CpuAssumption, FS_Subset, FS_CardinalityType, FS_EmptySet
<1>6. Dec(Counter) = Cardinality(Counted) - 1
  <2>1. Counter = Cardinality(Counted)
    BY <1>3 DEF RunInv, Balance, CounterCounts
  <2> QED BY <2>1, <1>5, DecIs, LockedAssumption
<1>7. Owing = {d \in CPU : Owes("bsp_lock", Gathers, pc[d])} /\ Cardinality(Owing) \in Nat
      /\ Run[c] \in Nat
  BY <1>3, CpuAssumption, FS_Subset, FS_CardinalityType DEF Owing, Inv, TypeOK, BlockType
<1>8. IF Gathers THEN Run[c] + Cardinality(Owing) + 1 = Cardinality(Counted) ELSE Run[c] = 0
  BY <1>3 DEF RunInv, Balance, WaitPc, GatherPc
<1>9. Gathers => q = "wait_ready" /\ Owing = {d \in CPU : Owes(q, Gathers, pc[d])}
  BY <1>3, <1>7 DEF Owes, GatherPc
<1>10. ~Gathers => q = "wait_present"
  BY <1>3
<1>11. \A d \in CPU : pc[d] \in MemberPc => Fits(q, Gathers, pc[d])
  BY <1>4, <1>9, <1>10 DEF Fits, HandlersPc, ArrivalPc
<1>12. \A d \in CPU : ~Token("bsp_lock", pc[d], owed[d]) /\ ~Token(q, pc[d], owed[d])
  BY <1>4 DEF Token
<1>13. /\ FlowFits(q, Gathers) /\ Shut(q, Gathers) /\ q \in InsidePc /\ q \in PresentPc
       /\ ~Settled("bsp_lock") /\ q \notin {"wait_reset", "bsp_open"}
       /\ q \in WaitPc <=> Gathers
       /\ ~(q \in GatherPc)
  BY <1>3 DEF FlowFits, Shut, ClosedPc, InsidePc, PresentPc, LeadPc, BspPc, Settled, WaitPc, GatherPc
<1> HIDE DEF q
<1>14. /\ EffectiveSyncMode' = EffectiveSyncMode
       /\ Settled(pc[c]) => Settled(q)
       /\ \A d \in CPU \ {c} : Busy'[d] = Busy[d] /\ Present'[d] = Present[d]
       /\ Present'[c] <=> q \in PresentPc
       /\ InsideSmm' <=> q \in InsidePc
       /\ AllCpusInSync' <=> \/ Shut(q, Gathers) \/ q = "bsp_lock"
                             \/ \E d \in CPU : pc[d] = "bsp_resync"
       /\ Counter' = Locked <=> Shut(q, Gathers)
       /\ ApCount' + 1 = Cardinality(Counted) /\ NumberOfAPs' <= Cardinality(CPU)
  BY <1>1, <1>3, <1>5, <1>6, <1>13
<1>15. \A d \in CPU :
         /\ pc[d] \in MemberPc => Fits(q, Gathers, pc[d])
         /\ pc[d] = "bsp_resync" => q \in {"bsp_enter", "bsp_clear"}
         /\ pc[d] \notin LeadPc => Run'[d] = IF Token(q, pc[d], owed[d]) THEN 1 ELSE 0
         /\ owed[d] = 1 => q \in {"bsp_core", "bsp_block", "bsp_drain"}
         /\ pc[d] = "ap_check" => owed[d] = 1 \/ q = "wait_done"
  BY <1>1, <1>4, <1>11, <1>12
<1>16. IF q \in WaitPc THEN NumberOfAPs' = Run'[c] + Cardinality({d \in CPU : Owes(q, Gathers, pc[d])})
       ELSE Run'[c] = 0
  <2>1. CASE Gathers
    <3>1. NumberOfAPs' = Cardinality(Counted) - 1 /\ Run'[c] = Run[c]
      BY <1>1, <1>6
    <3>2. Run[c] + Cardinality(Owing) = Cardinality(Counted) - 1
      BY <2>1, <1>5, <1>7, <1>8
    <3>3. Cardinality(Owing) = Cardinality({d \in CPU : Owes(q, Gathers, pc[d])})
      BY <2>1, <1>9
    <3> QED BY <2>1, <3>1, <3>2, <3>3, <1>13
  <2>2. CASE ~Gathers
    BY <2>2, <1>1, <1>8, <1>13
  <2> QED BY <2>1, <2>2
<1> QED BY <1>1, <1>2, <1>13, <1>14, <1>15, <1>16, LeaderMoves

\* The BSP takes the signals that have come in.
LEMMA BspTakes ==
  ASSUME Inv, RunInv, NEW c \in CPU, WaitForAllAPs(c)
  PROVE  RunInv'
<1> DEFINE q == pc[c]
<1>1. /\ q \in WaitPc /\ q \in LeadPc /\ q \in OwnerPc
      /\ q \notin {"bsp_enter", "bsp_clear", "bsp_core", "bsp_block", "bsp_drain"}
  BY DEF WaitForAllAPs, WaitPc, LeadPc, OwnerPc, BspPc
<1>2. pc \in [CPU -> PcValues] /\ Run \in [CPU -> 0..Locked] /\ NumberOfAPs \in Int
  BY DEF Inv, TypeOK, FrameType, BlockType, BspType
<1>3. /\ Leader = c /\ Stage = q /\ Lead # {} /\ BspIndex = c
      /\ FlowFits(q, Gathers)
      /\ Present[c] <=> q \in PresentPc
      /\ InsideSmm <=> q \in InsidePc
      /\ AllCpusInSync <=> \/ Shut(q, Gathers) \/ q = "bsp_lock" \/ \E d \in CPU : pc[d] = "bsp_resync"
      /\ Counter = Locked <=> Shut(q, Gathers)
      /\ \A d \in CPU :
           /\ pc[d] \in MemberPc => Fits(q, Gathers, pc[d])
           /\ pc[d] = "bsp_resync" => q \in {"bsp_enter", "bsp_clear"}
           /\ pc[d] \notin LeadPc => Run[d] = IF Token(q, pc[d], owed[d]) THEN 1 ELSE 0
           /\ owed[d] = 1 => q \in {"bsp_core", "bsp_block", "bsp_drain"}
           /\ pc[d] = "ap_check" => owed[d] = 1 \/ q = "wait_done"
  BY <1>1, LeaderFacts
<1>4. /\ pc' = pc /\ NumberOfAPs' = NumberOfAPs - Run[c] /\ Run' = [Run EXCEPT ![c] = 0]
      /\ UNCHANGED <<SyncMode, MyBsp, owed, EffectiveSyncMode, Busy, Present, InsideSmm, AllCpusInSync,
                     Counter, ApCount>>
  BY <1>3 DEF WaitForAllAPs, runVars, modeVars, frameVars
<1>5. Cardinality(Owing) \in Nat /\ Owing = {d \in CPU : Owes(q, Gathers, pc[d])}
  BY <1>3, CpuAssumption, FS_Subset, FS_CardinalityType DEF Owing
<1>6. /\ NumberOfAPs = Run[c] + Cardinality(Owing) /\ NumberOfAPs <= Cardinality(CPU)
      /\ Shut(q, Gathers) /\ q \notin {"wait_reset", "bsp_open"} => ApCount + 1 = Cardinality(Counted)
  BY <1>1, <1>3 DEF RunInv, Balance
<1>7. /\ NumberOfAPs' = Run'[c] + Cardinality({d \in CPU : Owes(q, Gathers, pc[d])})
      /\ NumberOfAPs' <= Cardinality(CPU)
  <2>1. Cardinality(CPU) \in Nat
    BY CpuAssumption, FS_CardinalityType
  <2>2. NumberOfAPs' = Cardinality(Owing) /\ Run'[c] = 0
    BY <1>2, <1>4, <1>5, <1>6
  <2> QED BY <2>1, <2>2, <1>2, <1>5, <1>6
<1>8. /\ pc' = [pc EXCEPT ![c] = q] /\ pc[c] = q
      /\ \A d \in CPU : pc[d] \notin LeadPc => Run'[d] = Run[d]
  BY <1>1, <1>2, <1>4
<1> HIDE DEF q
<1>9. /\ EffectiveSyncMode' = EffectiveSyncMode
      /\ Settled(pc[c]) => Settled(q)
      /\ \A d \in CPU \ {c} : Busy'[d] = Busy[d] /\ Present'[d] = Present[d]
      /\ Present'[c] <=> q \in PresentPc
      /\ InsideSmm' <=> q \in InsidePc
      /\ AllCpusInSync' <=> \/ Shut(q, Gathers) \/ q = "bsp_lock"
                            \/ \E d \in CPU : pc[d] = "bsp_resync"
      /\ Counter' = Locked <=> Shut(q, Gathers)
      /\ Shut(q, Gathers) /\ q \notin {"wait_reset", "bsp_open"} => ApCount' + 1 = Cardinality(Counted)
  BY <1>3, <1>4, <1>6, <1>8
<1>10. \A d \in CPU :
         /\ pc[d] \in MemberPc => Fits(q, Gathers, pc[d])
         /\ pc[d] = "bsp_resync" => q \in {"bsp_enter", "bsp_clear"}
         /\ pc[d] \notin LeadPc => Run'[d] = IF Token(q, pc[d], owed[d]) THEN 1 ELSE 0
         /\ owed[d] = 1 => q \in {"bsp_core", "bsp_block", "bsp_drain"}
         /\ pc[d] = "ap_check" => owed[d] = 1 \/ q = "wait_done"
  BY <1>3, <1>8
<1>11. UNCHANGED <<SyncMode, MyBsp, owed>> /\ Counter' = Counter /\ FlowFits(q, Gathers) /\ pc[c] \in LeadPc
  BY <1>1, <1>3, <1>4, <1>8
<1> QED BY <1>1, <1>7, <1>8, <1>9, <1>10, <1>11, LeaderMoves

\* When WaitForAllAPs returns, no AP owes a signal and none is left over.
LEMMA WaitEnds ==
  ASSUME Inv, RunInv, NEW c \in CPU, NEW s \in WaitPc, WaitOver(c, s)
  PROVE  /\ pc[c] = s /\ s \in LeadPc /\ Run[c] = 0
         /\ \A d \in CPU : ~Owes(s, Gathers, pc[d])
<1>1. pc[c] = s /\ s \in LeadPc /\ NumberOfAPs = 0
  BY DEF WaitOver, WaitPc, LeadPc, BspPc
<1>2. Leader = c /\ Stage = s /\ Lead # {} /\ Run[c] \in 0..Locked
  BY <1>1, LeaderFacts
<1>3. 0 = Run[c] + Cardinality(Owing)
  BY <1>1, <1>2 DEF RunInv, Balance
<1>4. IsFiniteSet(Owing) /\ Cardinality(Owing) \in Nat
  BY CpuAssumption, FS_Subset, FS_CardinalityType DEF Owing
<1>5. Run[c] = 0 /\ Cardinality(Owing) = 0
  BY <1>2, <1>3, <1>4, LockedAssumption
<1>6. Owing = {}
  BY <1>4, <1>5, FS_EmptySet
<1> QED BY <1>1, <1>2, <1>5, <1>6 DEF Owing

\* The BSP goes on after a wait without a word to the APs.
LEMMA BspGoesOn ==
  ASSUME Inv, RunInv, NEW c \in CPU,
         \/ BspReady(c) /\ ~NeedMtrrs
         \/ BspAllSet(c) \/ BspSetMode(c) \/ BspAllRestored(c) \/ BspUnelect(c)
  PROVE  RunInv'
<1> DEFINE p == pc[c]
           q == pc'[c]
<1>1. /\ \/ p = "wait_ready" /\ q = "bsp_entry" /\ ~NeedMtrrs
         \/ p = "wait_set" /\ q = "bsp_entry"
         \/ p = "wait_done" /\ q = (IF NeedMtrrs THEN "bsp_restore" ELSE "bsp_reset")
         \/ p = "wait_restored" /\ q = "bsp_reset"
         \/ p = "wait_reset" /\ q = "bsp_open"
      /\ WaitOver(c, p)
      /\ pc' = [pc EXCEPT ![c] = q]
      /\ UNCHANGED <<SyncMode, MyBsp, owed, Busy, Present, InsideSmm, AllCpusInSync, Run, Counter>>
      /\ p # "wait_done" => UNCHANGED EffectiveSyncMode
      /\ p # "wait_reset" => UNCHANGED ApCount
  BY DEF BspReady, BspAllSet, BspSetMode, BspAllRestored, BspUnelect, WaitOver,
         runVars, modeVars, frameVars, bspVars, Inv, TypeOK, FrameType
<1>2. p \in WaitPc /\ p \in LeadPc /\ q \in LeadPc
  BY <1>1 DEF LeadPc, BspPc, WaitPc
<1>3. /\ Leader = c /\ Stage = p /\ Lead # {} /\ FlowFits(p, Gathers) /\ Gathers \in BOOLEAN
      /\ NeedMtrrs => Gathers
      /\ Present[c] <=> p \in PresentPc
      /\ InsideSmm <=> p \in InsidePc
      /\ AllCpusInSync <=> \/ Shut(p, Gathers) \/ p = "bsp_lock" \/ \E d \in CPU : pc[d] = "bsp_resync"
      /\ Counter = Locked <=> Shut(p, Gathers)
      /\ \A d \in CPU :
           /\ pc[d] \in MemberPc => Fits(p, Gathers, pc[d])
           /\ pc[d] = "bsp_resync" => p \in {"bsp_enter", "bsp_clear"}
           /\ pc[d] \notin LeadPc => Run[d] = IF Token(p, pc[d], owed[d]) THEN 1 ELSE 0
           /\ owed[d] = 1 => p \in {"bsp_core", "bsp_block", "bsp_drain"}
           /\ pc[d] = "ap_check" => owed[d] = 1 \/ p = "wait_done"
  BY <1>2, LeaderFacts DEF Gathers, GatherFirst
<1>4. Run[c] = 0 /\ \A d \in CPU : ~Owes(p, Gathers, pc[d])
  BY <1>1, <1>2, WaitEnds
<1>5. Shut(p, Gathers) /\ p \notin {"wait_reset", "bsp_open"} => ApCount + 1 = Cardinality(Counted)
  BY <1>3 DEF RunInv, Balance
<1> HIDE DEF p, q
<1>6. p \notin {"bsp_core", "bsp_block", "bsp_drain", "bsp_enter", "bsp_clear", "bsp_lock"}
  BY <1>1
<1>7. /\ FlowFits(q, Gathers) /\ Shut(p, Gathers) /\ Shut(q, Gathers)
      /\ q \in InsidePc <=> p \in InsidePc
      /\ q \in PresentPc <=> p \in PresentPc
      /\ p = "wait_done" => Settled(q)
      /\ Settled(p) => Settled(q)
      /\ q \notin WaitPc /\ q \notin GatherPc
      /\ p = "wait_reset" <=> q = "bsp_open"
  BY <1>1, <1>2, <1>3 DEF FlowFits, Shut, ClosedPc, HandlersPc, InsidePc, PresentPc, LeadPc, BspPc, Settled,
                          WaitPc, GatherPc
<1>8. ASSUME NEW d \in CPU
      PROVE  /\ pc[d] \in MemberPc => Fits(q, Gathers, pc[d])
             /\ ~Token(p, pc[d], owed[d]) /\ ~Token(q, pc[d], owed[d])
             /\ pc[d] # "ap_check"
  <2>1. owed[d] # 1
    BY <1>3, <1>6
  <2>2. ~Token(p, pc[d], owed[d]) /\ ~Token(q, pc[d], owed[d]) /\ pc[d] # "ap_check"
    BY <1>1, <1>3, <1>4, <2>1 DEF Token, Owes
  <2>3. ASSUME pc[d] \in MemberPc PROVE Fits(q, Gathers, pc[d])
    <3>1. Fits(p, Gathers, pc[d]) /\ ~Owes(p, Gathers, pc[d])
      BY <1>3, <1>4, <2>3
    <3>2. CASE p = "wait_ready"
      BY <3>1, <3>2, <1>1, <1>3 DEF Fits, FlowFits, Owes, ArrivalPc, HandlersPc, GatherPc
    <3>3. CASE p = "wait_set"
      BY <3>1, <3>3, <1>1 DEF Fits, Owes, ArrivalPc, HandlersPc
    <3>4. CASE p = "wait_done"
      BY <3>1, <3>4, <1>1 DEF Fits, Owes, ArrivalPc, HandlersPc
    <3>5. CASE p = "wait_restored"
      BY <3>1, <3>5, <1>1 DEF Fits, Owes, ArrivalPc, HandlersPc
    <3>6. CASE p = "wait_reset"
      BY <3>1, <3>6, <1>1 DEF Fits, Owes, ArrivalPc, HandlersPc
    <3> QED BY <3>2, <3>3, <3>4, <3>5, <3>6, <1>1
  <2> QED BY <2>2, <2>3
<1>9. /\ EffectiveSyncMode' = EffectiveSyncMode \/ Settled(q)
      /\ Present'[c] <=> q \in PresentPc
      /\ InsideSmm' <=> q \in InsidePc
      /\ AllCpusInSync' <=> \/ Shut(q, Gathers) \/ q = "bsp_lock"
                            \/ \E d \in CPU : pc[d] = "bsp_resync"
      /\ Counter' = Locked <=> Shut(q, Gathers)
      /\ q \notin {"wait_reset", "bsp_open"} => ApCount' + 1 = Cardinality(Counted)
  BY <1>1, <1>3, <1>5, <1>7
<1>10. \A d \in CPU :
         /\ pc[d] \in MemberPc => Fits(q, Gathers, pc[d])
         /\ pc[d] # "bsp_resync" /\ owed[d] # 1 /\ pc[d] # "ap_check"
         /\ pc[d] \notin LeadPc => Run'[d] = IF Token(q, pc[d], owed[d]) THEN 1 ELSE 0
  BY <1>1, <1>3, <1>6, <1>8
<1>11. pc[c] = p /\ Run'[c] = 0
  BY <1>1, <1>4 DEF p
<1> QED BY <1>1, <1>2, <1>7, <1>9, <1>10, <1>11, LeaderMoves

\* The BSP signals all APs and waits for their answers: each of them is at the
\* statement that waits for this signal.
LEMMA BspReleases ==
  ASSUME Inv, RunInv, NEW c \in CPU,
         \/ BspReady(c) /\ NeedMtrrs
         \/ BspSet(c) \/ BspNotify(c) \/ BspRestore(c) \/ BspReset(c)
  PROVE  RunInv'
<1> DEFINE p == pc[c]
           q == pc'[c]
           stop == IF p = "wait_ready" THEN "ap_save" ELSE IF p = "wait_saved" THEN "ap_set"
                   ELSE IF p = "bsp_notify" THEN "ap_loop" ELSE IF p = "bsp_restore" THEN "ap_restore"
                   ELSE "ap_reset"
<1>1. /\ \/ p = "wait_ready" /\ q = "wait_saved" /\ WaitOver(c, p) /\ NeedMtrrs
         \/ p = "wait_saved" /\ q = "wait_set" /\ WaitOver(c, p)
         \/ p = "bsp_notify" /\ q = "wait_done"
         \/ p = "bsp_restore" /\ q = "wait_restored"
         \/ p = "bsp_reset" /\ q = "wait_reset"
      /\ pc' = [pc EXCEPT ![c] = q]
      /\ UNCHANGED <<EffectiveSyncMode, SyncMode, MyBsp, owed, Busy, InsideSmm, AllCpusInSync, Counter, ApCount>>
      /\ NumberOfAPs' = ApCount /\ ReleaseAllAPs
      /\ Present'[c] = (IF p = "bsp_reset" THEN FALSE ELSE Present[c])
      /\ \A d \in CPU \ {c} : Present'[d] = Present[d]
  BY DEF BspReady, BspSet, BspNotify, BspRestore, BspReset, WaitOver, SmmCpuUpdate,
         runVars, modeVars, frameVars, bspVars, Inv, TypeOK, FrameType, BlockType
<1>2. p \in LeadPc /\ q \in LeadPc /\ p \in OwnerPc
  BY <1>1 DEF LeadPc, BspPc, OwnerPc
<1>3. /\ Leader = c /\ Lead = {c} /\ Stage = p /\ FlowFits(p, Gathers) /\ Gathers \in BOOLEAN
      /\ NeedMtrrs => Gathers
      /\ BspIndex = c
      /\ Present[c] <=> p \in PresentPc
      /\ InsideSmm <=> p \in InsidePc
      /\ AllCpusInSync <=> \/ Shut(p, Gathers) \/ p = "bsp_lock" \/ \E d \in CPU : pc[d] = "bsp_resync"
      /\ Counter = Locked <=> Shut(p, Gathers)
      /\ \A d \in CPU :
           /\ pc[d] \in MemberPc => Fits(p, Gathers, pc[d])
           /\ pc[d] = "bsp_resync" => p \in {"bsp_enter", "bsp_clear"}
           /\ pc[d] \notin LeadPc => Run[d] = IF Token(p, pc[d], owed[d]) THEN 1 ELSE 0
           /\ owed[d] = 1 => p \in {"bsp_core", "bsp_block", "bsp_drain"}
           /\ Present[d] <=> pc[d] \in PresentPc
           /\ Run[d] \in 0..Locked
  BY <1>2, LeaderFacts DEF Gathers, GatherFirst
<1>4. p \in WaitPc => \A d \in CPU : ~Owes(p, Gathers, pc[d])
  BY <1>1, WaitEnds DEF WaitPc
<1>5. Run[c] = 0
  <2>1. CASE p \in WaitPc
    BY <1>1, <2>1, WaitEnds DEF WaitPc
  <2>2. CASE p \notin WaitPc
    <3>1. p \notin GatherPc
      BY <1>1 DEF GatherPc
    <3> QED BY <1>3, <2>2, <3>1 DEF RunInv, Balance
  <2> QED BY <2>1, <2>2
<1>6. Shut(p, Gathers) /\ p \notin {"wait_reset", "bsp_open"} => ApCount + 1 = Cardinality(Counted)
  BY <1>3 DEF RunInv, Balance
<1>7. \A d \in CPU : Run'[d] = IF d # c /\ Present[d] THEN Released(Run[d]) ELSE Run[d]
  BY <1>1, <1>3 DEF ReleaseAllAPs
<1>8. pc[c] = p /\ c \in Counted
  BY <1>2 DEF p, Counted, CountedPc, LeadPc
<1> HIDE DEF p, q, stop
<1>9. /\ p \notin {"bsp_core", "bsp_block", "bsp_drain", "bsp_enter", "bsp_clear", "bsp_lock", "wait_reset", "bsp_open"}
      /\ FlowFits(q, Gathers) /\ Shut(p, Gathers) /\ Shut(q, Gathers)
      /\ q \in InsidePc <=> p \in InsidePc
      /\ q \in PresentPc <=> (p \in PresentPc /\ p # "bsp_reset")
      /\ Settled(p) => Settled(q)
      /\ q \in WaitPc
      /\ q \notin {"bsp_lock", "bsp_open", "bsp_enter", "bsp_clear"}
  BY <1>1, <1>3 DEF FlowFits, Shut, ClosedPc, HandlersPc, InsidePc, PresentPc, LeadPc, BspPc, Settled, WaitPc
<1>10. ASSUME NEW d \in CPU, pc[d] \in MemberPc
       PROVE  pc[d] = stop
  <2>1. Fits(p, Gathers, pc[d])
    BY <1>3, <1>10
  <2>2. CASE p = "wait_ready"
    BY <2>1, <2>2, <1>1, <1>3, <1>4 DEF Fits, FlowFits, Owes, ArrivalPc, GatherPc, WaitPc, stop
  <2>3. CASE p = "wait_saved"
    BY <2>1, <2>3, <1>4 DEF Fits, Owes, WaitPc, stop
  <2>4. CASE p \in {"bsp_notify", "bsp_restore", "bsp_reset"}
    BY <2>1, <2>4 DEF Fits, stop
  <2> QED BY <2>2, <2>3, <2>4, <1>1
<1>11. /\ stop \in PresentPc /\ stop \notin LeadPc /\ stop \in MemberPc /\ stop # "ap_check" /\ stop # "bsp_resync"
       /\ Fits(q, Gathers, stop) /\ Owes(q, Gathers, stop)
       /\ \A o \in {0, 1} : Token(q, stop, o)
       /\ ~Token(p, stop, 0)
  BY <1>1, <1>3 DEF stop, PresentPc, LeadPc, BspPc, MemberPc, ApPc, Fits, FlowFits, Owes, Token, HandlersPc
<1>12. ASSUME NEW d \in CPU
       PROVE  /\ pc[d] \in MemberPc => Fits(q, Gathers, pc[d])
              /\ pc[d] # "bsp_resync" /\ owed[d] # 1 /\ pc[d] # "ap_check"
              /\ Owes(q, Gathers, pc[d]) <=> pc[d] \in MemberPc
              /\ pc[d] \notin LeadPc => Run'[d] = IF Token(q, pc[d], owed[d]) THEN 1 ELSE 0
  <2>1. owed[d] = 0 /\ pc[d] # "bsp_resync"
    BY <1>3, <1>9 DEF RunInv, TasksFit
  <2>2. CASE pc[d] \in MemberPc
    <3>1. pc[d] = stop /\ d # c /\ Present[d]
      BY <1>2, <1>3, <1>8, <1>10, <1>11, <2>2
    <3>2. Run[d] = 0
      BY <1>3, <1>11, <2>1, <3>1
    <3>3. Run'[d] = 1
      BY <1>7, <3>1, <3>2, LockedAssumption, CpuAssumption, FS_CardinalityType DEF Released
    <3> QED BY <1>11, <2>1, <3>1, <3>3
  <2>3. CASE pc[d] \notin MemberPc
    <3>1. ~Owes(q, Gathers, pc[d]) /\ ~Token(p, pc[d], owed[d]) /\ ~Token(q, pc[d], owed[d])
      BY <2>3 DEF Owes, Token, MemberPc, ApPc, ArrivalPc
    <3>2. pc[d] \notin LeadPc => ~Present[d]
      BY <1>3, <2>3 DEF PresentPc, MemberPc, ApPc
    <3>3. pc[d] # "ap_check"
      BY <2>3 DEF MemberPc, ApPc
    <3> QED BY <1>3, <1>7, <2>1, <2>3, <3>1, <3>2, <3>3
  <2> QED BY <2>2, <2>3
<1>13. NumberOfAPs' = Run'[c] + Cardinality({d \in CPU : Owes(q, Gathers, pc[d])})
  <2>1. {d \in CPU : Owes(q, Gathers, pc[d])} = Counted \ {c}
    <3>1. \A d \in CPU : pc[d] \in CountedPc <=> pc[d] \in MemberPc \/ d = c
      <4>1. \A d \in CPU : pc[d] \in LeadPc <=> d = c
        BY <1>3 DEF Lead
      <4>2. \A s : s \in CountedPc <=> s \in MemberPc \/ s \in LeadPc
        BY DEF CountedPc, MemberPc, LeadPc
      <4> QED BY <4>1, <4>2
    <3>2. c \notin {d \in CPU : Owes(q, Gathers, pc[d])}
      <4>1. pc[c] \notin MemberPc
        BY <1>2, <1>8 DEF LeadPc, BspPc, MemberPc, ApPc
      <4> QED BY <4>1, <1>12
    <3> QED BY <1>12, <3>1, <3>2 DEF Counted
  <2>2. IsFiniteSet(Counted) /\ Cardinality(Counted) \in Nat
    BY CpuAssumption, FS_Subset, FS_CardinalityType DEF Counted
  <2>3. Cardinality(Counted \ {c}) = Cardinality(Counted) - 1
    BY <1>8, <2>2, FS_RemoveElement
  <2>4. NumberOfAPs' = Cardinality(Counted) - 1
    <3>1. ApCount \in 0..Locked
      BY DEF Inv, TypeOK, BspType
    <3> QED BY <1>1, <1>6, <1>9, <2>2, <3>1, LockedAssumption
  <2>5. Run'[c] = 0
    BY <1>5, <1>7
  <2>6. Cardinality({d \in CPU : Owes(q, Gathers, pc[d])}) = Cardinality(Counted) - 1
    BY <2>1, <2>3
  <2> QED BY <2>2, <2>4, <2>5, <2>6
<1>14. NumberOfAPs' <= Cardinality(CPU)
  <2>1. Cardinality(Counted) <= Cardinality(CPU) /\ Cardinality(Counted) \in Nat /\ Cardinality(CPU) \in Nat
    BY CpuAssumption, FS_Subset, FS_CardinalityType DEF Counted
  <2>2. ApCount \in 0..Locked
    BY DEF Inv, TypeOK, BspType
  <2> QED BY <1>1, <1>6, <1>9, <2>1, <2>2, LockedAssumption
<1>15. /\ EffectiveSyncMode' = EffectiveSyncMode
       /\ Settled(pc[c]) => Settled(q)
       /\ \A d \in CPU \ {c} : Busy'[d] = Busy[d] /\ Present'[d] = Present[d]
       /\ Present'[c] <=> q \in PresentPc
       /\ InsideSmm' <=> q \in InsidePc
       /\ AllCpusInSync' <=> \/ Shut(q, Gathers) \/ q = "bsp_lock"
                             \/ \E d \in CPU : pc[d] = "bsp_resync"
       /\ Counter' = Locked <=> Shut(q, Gathers)
       /\ ApCount' + 1 = Cardinality(Counted)
  BY <1>1, <1>3, <1>6, <1>8, <1>9
<1>16. \A d \in CPU :
         /\ pc[d] \in MemberPc => Fits(q, Gathers, pc[d])
         /\ pc[d] = "bsp_resync" => q \in {"bsp_enter", "bsp_clear"}
         /\ pc[d] \notin LeadPc => Run'[d] = IF Token(q, pc[d], owed[d]) THEN 1 ELSE 0
         /\ owed[d] = 1 => q \in {"bsp_core", "bsp_block", "bsp_drain"}
         /\ pc[d] = "ap_check" => owed[d] = 1 \/ q = "wait_done"
  BY <1>12
<1>17. /\ UNCHANGED <<SyncMode, MyBsp, owed>> /\ Counter' = Counter /\ FlowFits(q, Gathers)
       /\ pc[c] \in LeadPc /\ q \in LeadPc /\ pc' = [pc EXCEPT ![c] = q] /\ q \in WaitPc
  BY <1>1, <1>2, <1>8, <1>9
<1> QED BY <1>13, <1>14, <1>15, <1>16, <1>17, LeaderMoves

\* The BSP runs the SMI handlers and drains the APs, and in the relaxed flow
\* waits for the Present flag of all it has counted; then it leaves SMM.
LEMMA BspHandles ==
  ASSUME Inv, RunInv, NEW c \in CPU,
         \/ BspCoreEntry(c) \/ BspCoreReturn(c) \/ Unblock(c)
         \/ BspDrain(c) \/ BspAllPresent(c) \/ BspExit(c)
  PROVE  RunInv'
<1> DEFINE p == pc[c]
           q == pc'[c]
<1>1. /\ \/ p = "bsp_entry" /\ q = "bsp_core"
         \/ p = "bsp_core" /\ q = "bsp_drain"
         \/ p = "bsp_block" /\ q = "bsp_core"
         \/ /\ p = "bsp_drain" /\ q = (IF GatherFirst(c) THEN "bsp_exit" ELSE "bsp_insync")
            /\ \A d \in CPU \ {c} : Present[d] => ~Busy[d]
         \/ p = "wait_present" /\ q = "bsp_exit" /\ Cardinality({d \in CPU : Present[d]}) > ApCount
         \/ p = "bsp_exit" /\ q = "bsp_notify"
      /\ pc' = [pc EXCEPT ![c] = q]
      /\ UNCHANGED <<EffectiveSyncMode, SyncMode, MyBsp, owed, Present, AllCpusInSync, Run, Counter, ApCount>>
      /\ InsideSmm' = (IF p = "bsp_exit" THEN FALSE ELSE InsideSmm)
      /\ \A d \in CPU \ {c} : Busy'[d] = Busy[d]
  BY DEF BspCoreEntry, BspCoreReturn, Unblock, BspDrain, BspAllPresent, BspExit,
         runVars, modeVars, frameVars, bspVars, Inv, TypeOK, FrameType, BlockType
<1>2. p \in LeadPc /\ q \in LeadPc
  BY <1>1 DEF LeadPc, BspPc
<1>3. /\ Leader = c /\ Lead = {c} /\ Stage = p /\ FlowFits(p, Gathers) /\ Gathers \in BOOLEAN
      /\ Gathers <=> GatherFirst(c)
      /\ Present[c] <=> p \in PresentPc
      /\ InsideSmm <=> p \in InsidePc
      /\ AllCpusInSync <=> \/ Shut(p, Gathers) \/ p = "bsp_lock" \/ \E d \in CPU : pc[d] = "bsp_resync"
      /\ Counter = Locked <=> Shut(p, Gathers)
      /\ \A d \in CPU :
           /\ pc[d] \in MemberPc => /\ Fits(p, Gathers, pc[d])
                                    /\ Busy[d] <=> owed[d] = 1
           /\ pc[d] = "bsp_resync" => p \in {"bsp_enter", "bsp_clear"}
           /\ pc[d] \notin LeadPc => Run[d] = IF Token(p, pc[d], owed[d]) THEN 1 ELSE 0
           /\ owed[d] = 1 => /\ pc[d] \in {"ap_loop", "ap_check", "ap_run"}
                             /\ p \in {"bsp_core", "bsp_block", "bsp_drain"}
           /\ pc[d] = "ap_check" => owed[d] = 1 \/ p = "wait_done"
           /\ pc[d] = "ap_run" => owed[d] = 1
           /\ Present[d] <=> pc[d] \in PresentPc
  BY <1>2, LeaderFacts DEF Gathers
<1>4. Run[c] = 0
  <2>1. p \notin WaitPc /\ p \notin GatherPc
    BY <1>1 DEF GatherPc, WaitPc
  <2> QED BY <1>3, <2>1 DEF RunInv, Balance
<1>5. Shut(p, Gathers) /\ p \notin {"wait_reset", "bsp_open"} => ApCount + 1 = Cardinality(Counted)
  BY <1>3 DEF RunInv, Balance
<1>6. pc[c] = p
  BY DEF p
<1> HIDE DEF p, q
<1>7. /\ FlowFits(q, Gathers)
      /\ Shut(p, Gathers) <=> Shut(q, Gathers)
      /\ q \in InsidePc <=> (p \in InsidePc /\ p # "bsp_exit")
      /\ q \in PresentPc /\ p \in PresentPc
      /\ ~Settled(p)
      /\ q \notin WaitPc /\ (q \in GatherPc => ~Gathers)
      /\ p \notin {"bsp_lock", "bsp_enter", "bsp_clear", "wait_reset", "bsp_open", "wait_done"}
      /\ q # "bsp_lock"
  BY <1>1, <1>3 DEF FlowFits, Shut, ClosedPc, HandlersPc, InsidePc, PresentPc, LeadPc, BspPc, Settled,
                    WaitPc, GatherPc
\* The wait for busy APs leaves none that has a procedure to run.
<1>8. ASSUME p = "bsp_drain", NEW d \in CPU
      PROVE  owed[d] # 1 /\ pc[d] # "ap_check" /\ pc[d] # "ap_run"
  <2>1. ASSUME owed[d] = 1 PROVE FALSE
    <3>1. pc[d] \in PresentPc /\ pc[d] \in MemberPc /\ pc[d] \notin LeadPc
      BY <1>3, <2>1 DEF PresentPc, MemberPc, ApPc, LeadPc, BspPc
    <3>2. d # c /\ Present[d] /\ Busy[d]
      BY <1>2, <1>3, <1>6, <2>1, <3>1
    <3> QED BY <1>1, <1>8, <3>2
  <2> QED BY <1>3, <1>8, <2>1
\* All that were counted have set their Present flag.
<1>9. ASSUME p = "wait_present", NEW d \in CPU, pc[d] \in MemberPc
      PROVE  pc[d] = "ap_loop"
  <2> DEFINE here == {e \in CPU : Present[e]}
  <2>1. here \subseteq Counted
    BY <1>3 DEF PresentPc, CountedPc, Counted, ApPc, LeadPc, BspPc
  <2>2. IsFiniteSet(Counted) /\ Cardinality(here) <= Cardinality(Counted)
        /\ Cardinality(here) \in Nat /\ Cardinality(Counted) \in Nat
        /\ (Cardinality(here) = Cardinality(Counted) => here = Counted)
    BY <2>1, CpuAssumption, FS_Subset, FS_CardinalityType DEF Counted
  <2>3. Cardinality(here) > ApCount /\ ApCount + 1 = Cardinality(Counted)
    BY <1>1, <1>5, <1>9 DEF Shut, ClosedPc
  <2>4. ApCount \in 0..Locked
    BY DEF Inv, TypeOK, BspType
  <2>5. Cardinality(here) = Cardinality(Counted)
    <3> HIDE DEF here
    <3> QED BY <2>2, <2>3, <2>4, LockedAssumption
  <2>6. d \in Counted
    BY <1>9 DEF Counted, CountedPc, MemberPc
  <2>7. pc[d] \in PresentPc
    BY <1>3, <2>2, <2>5, <2>6
  <2>8. Fits("wait_present", FALSE, pc[d])
    BY <1>3, <1>9 DEF FlowFits
  <2> QED BY <2>7, <2>8 DEF Fits, PresentPc, ArrivalPc, LeadPc, BspPc
<1>10. ASSUME NEW d \in CPU, pc[d] \in MemberPc
       PROVE  Fits(q, Gathers, pc[d])
  <2>1. Fits(p, Gathers, pc[d])
    BY <1>3, <1>10
  <2>2. CASE p \in {"bsp_entry", "bsp_core", "bsp_block"}
    BY <2>1, <2>2, <1>1 DEF Fits, HandlersPc
  <2>3. CASE p = "bsp_drain"
    <3>1. pc[d] = "ap_loop" \/ (~Gathers /\ pc[d] \in ArrivalPc \cup {"ap_present"})
      BY <2>1, <2>3, <1>8 DEF Fits, HandlersPc
    <3> QED BY <2>3, <3>1, <1>1, <1>3 DEF Fits, HandlersPc, ArrivalPc
  <2>4. CASE p = "wait_present"
    BY <2>4, <1>1, <1>9, <1>10 DEF Fits, HandlersPc
  <2>5. CASE p = "bsp_exit"
    BY <2>1, <2>5, <1>1 DEF Fits, HandlersPc
  <2> QED BY <2>2, <2>3, <2>4, <2>5, <1>1
<1>11. \A d \in CPU : Token(q, pc[d], owed[d]) <=> Token(p, pc[d], owed[d])
  BY <1>1 DEF Token
<1>12. \A d \in CPU :
         /\ owed[d] = 1 => q \in {"bsp_core", "bsp_block", "bsp_drain"}
         /\ pc[d] = "ap_check" => owed[d] = 1 \/ q = "wait_done"
  BY <1>1, <1>3, <1>7, <1>8
<1>13. /\ EffectiveSyncMode' = EffectiveSyncMode
       /\ ~Settled(pc[c])
       /\ \A d \in CPU \ {c} : Busy'[d] = Busy[d] /\ Present'[d] = Present[d]
       /\ Present'[c] <=> q \in PresentPc
       /\ InsideSmm' <=> q \in InsidePc
       /\ AllCpusInSync' <=> \/ Shut(q, Gathers) \/ q = "bsp_lock"
                             \/ \E d \in CPU : pc[d] = "bsp_resync"
       /\ Counter' = Locked <=> Shut(q, Gathers)
       /\ Shut(q, Gathers) => ApCount' + 1 = Cardinality(Counted)
       /\ Run'[c] = 0
  BY <1>1, <1>3, <1>4, <1>5, <1>6, <1>7
<1>14. \A d \in CPU :
         /\ pc[d] \in MemberPc => Fits(q, Gathers, pc[d])
         /\ pc[d] = "bsp_resync" => q \in {"bsp_enter", "bsp_clear"}
         /\ pc[d] \notin LeadPc => Run'[d] = IF Token(q, pc[d], owed[d]) THEN 1 ELSE 0
         /\ owed[d] = 1 => q \in {"bsp_core", "bsp_block", "bsp_drain"}
         /\ pc[d] = "ap_check" => owed[d] = 1 \/ q = "wait_done"
  BY <1>1, <1>3, <1>7, <1>10, <1>11, <1>12
<1>15. /\ UNCHANGED <<SyncMode, MyBsp, owed>> /\ Counter' = Counter /\ FlowFits(q, Gathers)
       /\ pc[c] \in LeadPc /\ q \in LeadPc /\ pc' = [pc EXCEPT ![c] = q]
       /\ q \notin WaitPc /\ (q \in GatherPc => ~Gathers)
  BY <1>1, <1>2, <1>6, <1>7
<1> QED BY <1>13, <1>14, <1>15, LeaderMoves

\* The last processor of a run lets the others check in again.
LEMMA BspOpens ==
  ASSUME Inv, RunInv, NEW c \in CPU, BspOpen(c)
  PROVE  RunInv'
<1>1. /\ pc[c] = "bsp_open" /\ pc'[c] = "bsp_resync" /\ \A d \in CPU \ {c} : pc'[d] = pc[d]
      /\ Counter' = 0
      /\ UNCHANGED <<InsideSmm, AllCpusInSync, EffectiveSyncMode, Run, Busy, Present, SyncMode, MyBsp, owed>>
  BY DEF BspOpen, runVars, modeVars, frameVars, bspVars, Inv, TypeOK, FrameType
<1>2. pc[c] \in LeadPc
  BY <1>1 DEF LeadPc, BspPc
<1>3. /\ Lead = {c} /\ Stage = "bsp_open"
      /\ \A d \in CPU : /\ pc[d] \notin MemberPc /\ pc[d] # "bsp_resync" /\ owed[d] = 0
                        /\ pc[d] \notin LeadPc => Run[d] = 0
                        /\ Present[d] <=> pc[d] \in PresentPc
      /\ ~InsideSmm /\ AllCpusInSync
  <2>1. /\ Lead = {c} /\ Stage = "bsp_open"
        /\ InsideSmm <=> "bsp_open" \in InsidePc
        /\ AllCpusInSync <=> \/ Shut("bsp_open", Gathers) \/ "bsp_open" = "bsp_lock"
                             \/ \E d \in CPU : pc[d] = "bsp_resync"
        /\ \A d \in CPU :
             /\ pc[d] \in MemberPc => Fits("bsp_open", Gathers, pc[d])
             /\ pc[d] = "bsp_resync" => "bsp_open" \in {"bsp_enter", "bsp_clear"}
             /\ pc[d] \notin LeadPc => Run[d] = IF Token("bsp_open", pc[d], owed[d]) THEN 1 ELSE 0
             /\ owed[d] = 1 => "bsp_open" \in {"bsp_core", "bsp_block", "bsp_drain"}
             /\ owed[d] \in {0, 1}
             /\ Present[d] <=> pc[d] \in PresentPc
    BY <1>1, <1>2, LeaderFacts
  <2>2. "bsp_open" \notin InsidePc /\ Shut("bsp_open", Gathers)
    BY DEF InsidePc, HandlersPc, Shut, ClosedPc
  <2>3. \A d \in CPU : pc[d] \notin MemberPc
    BY <2>1 DEF Fits
  <2>4. \A d \in CPU : ~Token("bsp_open", pc[d], owed[d])
    BY <2>3 DEF Token, MemberPc, ApPc
  <2> QED BY <2>1, <2>2, <2>3, <2>4
<1>4. Run[c] = 0 /\ MyBsp[c] = NoBsp
  <2>1. Leader = c /\ Lead # {}
    BY <1>2, LeaderFacts
  <2>2. Run[c] = 0
    BY <1>3, <2>1 DEF RunInv, Balance, WaitPc, GatherPc
  <2>3. MyBsp[c] = NoBsp
    BY <1>1 DEF RunInv, Follows, FollowPc
  <2> QED BY <2>2, <2>3
<1>5. \A d \in CPU : pc'[d] \notin MemberPc /\ pc'[d] \notin LeadPc /\ pc'[d] \notin CountedPc
  <2>1. \A d \in CPU \ {c} : pc[d] \notin LeadPc
    BY <1>3 DEF Lead
  <2>2. /\ "bsp_resync" \notin MemberPc /\ "bsp_resync" \notin LeadPc /\ "bsp_resync" \notin CountedPc
        /\ \A s : s \in CountedPc => s \in MemberPc \/ s \in LeadPc
    BY DEF MemberPc, ApPc, LeadPc, BspPc, CountedPc
  <2> QED BY <1>1, <1>3, <2>1, <2>2
<1>6. Lead' = {} /\ Counted' = {}
  BY <1>5 DEF Lead, Counted
<1>7. Leader' = NoBsp /\ Stage' = "none" /\ ~Gathers'
  BY <1>6 DEF Leader, Stage, Gathers
<1>8. SingleBsp' /\ OneRun'
  <2>1. SingleBsp'
    BY <1>6 DEF SingleBsp
  <2> QED BY <1>1, <1>3, <1>7, <2>1 DEF OneRun
<1>9. FlagsMean'
  <2>1. "none" \notin InsidePc /\ (\A g : ~Shut("none", g)) /\ Counter' # Locked
    BY <1>1, LockedAssumption, CpuAssumption, FS_CardinalityType DEF InsidePc, HandlersPc, Shut, ClosedPc
  <2>2. \A d \in CPU : Present'[d] <=> pc'[d] \in PresentPc
    BY <1>1, <1>3 DEF PresentPc, LeadPc, BspPc
  <2> QED BY <1>1, <1>3, <1>7, <2>1, <2>2 DEF FlagsMean
<1>10. ModesAgree' /\ PhasesAgree'
  BY <1>5, <1>6, <1>7 DEF ModesAgree, PhasesAgree, FlowFits, MemberPc
<1>11. Follows'
  <2>1. \A d \in CPU : pc'[d] \notin FollowPc
    BY <1>5 DEF FollowPc, MemberPc, ApPc
  <2> QED BY <1>1, <1>4, <2>1 DEF RunInv, Follows
<1>12. TokensFit' /\ TasksFit'
  <2>1. \A d \in CPU : ~Token("none", pc'[d], owed[d])
    BY <1>3, <1>5 DEF Token, MemberPc, ApPc
  <2>2. \A d \in CPU : Run[d] = 0
    BY <1>3, <1>4 DEF Lead
  <2>3. \A d \in CPU : pc'[d] \notin {"ap_run", "ap_check"}
    BY <1>5 DEF MemberPc, ApPc
  <2> QED BY <1>1, <1>3, <1>5, <1>7, <2>1, <2>2, <2>3 DEF TokensFit, TasksFit
<1>13. Balance'
  <2>1. Cardinality(Counted') = 0
    BY <1>6, FS_EmptySet
  <2>2. (\A g : ~Shut("none", g)) /\ "none" \notin WaitPc
    BY DEF Shut, ClosedPc, HandlersPc, WaitPc
  <2> QED BY <1>1, <1>6, <1>7, <2>1, <2>2 DEF Balance, CounterCounts
<1> QED BY <1>8, <1>9, <1>10, <1>11, <1>12, <1>13 DEF RunInv

\* Statements outside the run.
OutsidePc == {"normal", "sampled", "checkin", "quit", "exitwait"}

\* A step of a processor that is in no run.
LEMMA OutsiderMoves ==
  ASSUME Inv, RunInv, NEW c \in CPU, NEW q \in OutsidePc,
         pc[c] \in OutsidePc \cup {"bsp_resync"}, pc' = [pc EXCEPT ![c] = q],
         UNCHANGED <<InsideSmm, EffectiveSyncMode, ApCount, NumberOfAPs, Counter, Run, Present, owed, Busy>>,
         AllCpusInSync' = (IF pc[c] = "bsp_resync" THEN FALSE ELSE AllCpusInSync),
         \A d \in CPU \ {c} : SyncMode'[d] = SyncMode[d] /\ MyBsp'[d] = MyBsp[d],
         q # "exitwait" => MyBsp'[c] = NoBsp
  PROVE  RunInv'
<1> DEFINE p == pc[c]
<1>1. /\ p \notin LeadPc /\ q \notin LeadPc /\ p \notin MemberPc /\ q \notin MemberPc
      /\ p \notin CountedPc /\ q \notin CountedPc /\ p \notin PresentPc /\ q \notin PresentPc
      /\ p \notin FollowPc /\ q \notin FollowPc /\ q # "bsp_resync"
      /\ q \notin {"ap_loop", "ap_check", "ap_run"}
      /\ p \notin {"ap_loop", "ap_check", "ap_run"}
      /\ q \notin ApPc
      /\ \A s, g : ~Owes(s, g, p) /\ ~Owes(s, g, q)
      /\ \A s, o : ~Token(s, p, o) /\ ~Token(s, q, o)
  BY DEF OutsidePc, LeadPc, BspPc, MemberPc, ApPc, CountedPc, PresentPc, FollowPc, Owes, Token, ArrivalPc
<1>2. TypeOK /\ SingleBsp
  BY DEF Inv, RunInv
<1>3. \A d \in Lead : SyncMode'[d] = SyncMode[d]
  BY <1>1 DEF Lead
<1>4. /\ Lead' = Lead /\ Leader' = Leader /\ Stage' = Stage /\ Gathers' = Gathers
      /\ pc'[c] = q /\ \A d \in CPU \ {c} : pc'[d] = pc[d]
  BY <1>1, <1>2, <1>3, OtherMoves
<1>5. Counted' = Counted /\ Owing' = Owing
  BY <1>1, <1>4 DEF Counted, Owing
<1>6. \A d \in CPU : Lead # {} /\ d = Leader => d # c
  BY <1>1, <1>2, StageType DEF Lead
<1> HIDE DEF p
<1>7. SingleBsp' /\ OneRun'
  <2>1. \A d \in CPU : pc'[d] = "bsp_resync" => pc[d] = "bsp_resync" /\ d # c
    BY <1>1, <1>4
  <2>2. SingleBsp'
    BY <1>4 DEF RunInv, SingleBsp
  <2> QED BY <1>1, <1>4, <2>1, <2>2 DEF RunInv, OneRun
<1>8. FlagsMean'
  <2>1. AllCpusInSync' <=> \/ Shut(Stage, Gathers) \/ Stage = "bsp_lock"
                           \/ \E d \in CPU : pc'[d] = "bsp_resync"
    <3>1. CASE pc[c] = "bsp_resync"
      <4>1. Stage \in {"none", "bsp_enter", "bsp_clear"} /\ \A d \in CPU \ {c} : pc[d] # "bsp_resync"
        BY <3>1 DEF RunInv, OneRun
      <4>2. ~Shut(Stage, Gathers) /\ Stage # "bsp_lock"
        BY <4>1 DEF Shut, ClosedPc, HandlersPc
      <4> QED BY <3>1, <4>1, <4>2, <1>1, <1>4
    <3>2. CASE pc[c] # "bsp_resync"
      <4>1. (\E d \in CPU : pc'[d] = "bsp_resync") <=> (\E d \in CPU : pc[d] = "bsp_resync")
        BY <3>2, <1>1, <1>4
      <4> QED BY <3>2, <4>1 DEF RunInv, FlagsMean
    <3> QED BY <3>1, <3>2
  <2>2. \A d \in CPU : Present'[d] <=> pc'[d] \in PresentPc
    BY <1>1, <1>4 DEF RunInv, FlagsMean, p
  <2> QED BY <1>4, <2>1, <2>2 DEF RunInv, FlagsMean
<1>9. ModesAgree'
  BY <1>1, <1>3, <1>4, <1>6, <1>2, StageType DEF RunInv, ModesAgree
<1>10. Follows'
  BY <1>1, <1>4 DEF RunInv, Follows
<1>11. PhasesAgree'
  BY <1>1, <1>4 DEF RunInv, PhasesAgree
<1>12. TokensFit'
  <2> SUFFICES ASSUME NEW d \in CPU, pc'[d] \notin LeadPc
               PROVE  Run'[d] = IF Token(Stage, pc'[d], owed[d]) THEN 1 ELSE 0
    BY <1>4 DEF TokensFit
  <2>1. CASE d = c
    BY <2>1, <1>1, <1>4 DEF RunInv, TokensFit, p
  <2>2. CASE d # c
    BY <2>2, <1>4 DEF RunInv, TokensFit
  <2> QED BY <2>1, <2>2
<1>13. TasksFit'
  <2>1. owed[c] # 1
    BY <1>1 DEF RunInv, TasksFit, p
  <2> QED BY <2>1, <1>1, <1>4 DEF RunInv, TasksFit
<1>14. Balance'
  BY <1>4, <1>5 DEF RunInv, Balance, CounterCounts
<1> QED BY <1>7, <1>8, <1>9, <1>10, <1>11, <1>12, <1>13, <1>14 DEF RunInv

\* A processor enters SMM, samples the flags, is refused or leaves; the old BSP
\* clears AllCpusInSync.
LEMMA OutsideSteps ==
  ASSUME Inv, RunInv, NEW c \in CPU,
         \/ EnterSmm(c) \/ SampleBsp(c) \/ LeaveSmm(c) \/ BspResync(c)
         \/ CheckIn(c) /\ Counter = Locked
  PROVE  RunInv'
<1> DEFINE q == pc'[c]
<1>1. /\ pc[c] \in OutsidePc \cup {"bsp_resync"} /\ q \in OutsidePc
      /\ pc' = [pc EXCEPT ![c] = q]
      /\ UNCHANGED <<InsideSmm, EffectiveSyncMode, ApCount, NumberOfAPs, Counter, Run, Present, owed, Busy>>
      /\ AllCpusInSync' = (IF pc[c] = "bsp_resync" THEN FALSE ELSE AllCpusInSync)
      /\ \A d \in CPU \ {c} : SyncMode'[d] = SyncMode[d] /\ MyBsp'[d] = MyBsp[d]
      /\ \/ MyBsp'[c] = MyBsp[c] /\ pc[c] \in {"normal", "sampled", "checkin"}
         \/ MyBsp'[c] = NoBsp
         \/ q = "exitwait"
  BY DEF EnterSmm, SampleBsp, LeaveSmm, BspResync, CheckIn, Released, OutsidePc, ExitPc,
         runVars, modeVars, frameVars, bspVars, Inv, TypeOK, FrameType
<1>2. pc[c] \in {"normal", "sampled", "checkin"} => MyBsp[c] = NoBsp
  BY DEF RunInv, Follows, FollowPc
<1> HIDE DEF q
<1> QED BY <1>1, <1>2, OutsiderMoves

\* A processor checks in while Counter counts.
LEMMA Joins ==
  ASSUME Inv, RunInv, NEW c \in CPU, CheckIn(c), Counter # Locked
  PROVE  RunInv'
<1>1. /\ pc[c] = "checkin" /\ pc' = [pc EXCEPT ![c] = "route"]
      /\ Counter' = Counter + 1 /\ Busy'[c] = FALSE
      /\ \A d \in CPU \ {c} : Busy'[d] = Busy[d]
      /\ UNCHANGED <<InsideSmm, AllCpusInSync, EffectiveSyncMode, ApCount, NumberOfAPs, Run, Present, owed,
                     SyncMode, MyBsp>>
  BY DEF CheckIn, Released, runVars, modeVars, frameVars, bspVars, Inv, TypeOK, FrameType, BlockType
<1>2. /\ "checkin" \notin LeadPc /\ "route" \notin LeadPc /\ "route" \in CountedPc /\ "checkin" \notin CountedPc
      /\ "route" \in MemberPc /\ "route" \notin PresentPc /\ "checkin" \notin PresentPc
      /\ "route" \notin FollowPc /\ "checkin" \notin FollowPc /\ "route" \notin ApPc
      /\ \A s, o : ~Token(s, "route", o) /\ ~Token(s, "checkin", o)
      /\ \A s, g : ~Owes(s, g, "checkin")
      /\ \A s, g : Owes(s, g, "route") <=> (g /\ s \in GatherPc \cup {"wait_ready"})
  BY DEF LeadPc, BspPc, CountedPc, MemberPc, PresentPc, FollowPc, ApPc, Token, Owes, ArrivalPc
<1>3. TypeOK /\ SingleBsp
  BY DEF Inv, RunInv
<1>4. /\ Lead' = Lead /\ Leader' = Leader /\ Stage' = Stage /\ Gathers' = Gathers
      /\ pc'[c] = "route" /\ \A d \in CPU \ {c} : pc'[d] = pc[d]
  BY <1>1, <1>2, <1>3, OtherMoves
<1>5. /\ Cardinality(Counted) \in Nat /\ Cardinality(Owing) \in Nat
      /\ Cardinality(Counted') = Cardinality(Counted) + 1
      /\ Cardinality(Owing') = Cardinality(Owing) + (IF Owes(Stage, Gathers, "route") THEN 1 ELSE 0)
  <2>1. /\ Cardinality(Counted) \in Nat /\ Cardinality(Counted') \in Nat
        /\ Cardinality(Counted') = Cardinality(Counted)
              + (IF "route" \in CountedPc THEN 1 ELSE 0) - (IF pc[c] \in CountedPc THEN 1 ELSE 0)
        /\ Cardinality(Owing) \in Nat /\ Cardinality(Owing') \in Nat
        /\ Cardinality(Owing') = Cardinality(Owing)
              + (IF Owes(Stage, Gathers, "route") THEN 1 ELSE 0) - (IF Owes(Stage, Gathers, pc[c]) THEN 1 ELSE 0)
    BY <1>1, <1>2, <1>3, OtherMoves
  <2> QED BY <2>1, <1>1, <1>2
<1>6. ~Shut(Stage, Gathers) /\ Counter = Cardinality(Counted)
  BY DEF RunInv, FlagsMean, Balance, CounterCounts
<1>7. Stage \in LeadPc \cup {"none"} /\ (Stage = "none" <=> Lead = {}) /\ (Lead # {} => Leader # c /\ Leader \in CPU)
  BY <1>1, <1>2, <1>3, StageType
<1>8. Counter' # Locked
  <2>1. Cardinality(Counted) <= Cardinality(CPU) /\ Cardinality(CPU) \in Nat
    BY CpuAssumption, FS_Subset, FS_CardinalityType DEF Counted
  <2> QED BY <1>1, <1>5, <1>6, <2>1, LockedAssumption
<1>9. SingleBsp' /\ OneRun'
  BY <1>1, <1>4 DEF RunInv, SingleBsp, OneRun
<1>10. FlagsMean'
  <2>1. (\E d \in CPU : pc'[d] = "bsp_resync") <=> (\E d \in CPU : pc[d] = "bsp_resync")
    BY <1>1, <1>4
  <2>2. \A d \in CPU : Present'[d] <=> pc'[d] \in PresentPc
    BY <1>1, <1>2, <1>4 DEF RunInv, FlagsMean
  <2> QED BY <1>1, <1>4, <1>6, <1>8, <2>1, <2>2 DEF RunInv, FlagsMean
<1>11. ModesAgree' /\ Follows'
  BY <1>1, <1>2, <1>4 DEF RunInv, ModesAgree, Follows
<1>12. PhasesAgree'
  <2>1. Fits(Stage, Gathers, "route")
    BY <1>6, <1>7 DEF Fits, Shut, ClosedPc, HandlersPc, ArrivalPc, LeadPc, BspPc
  <2> QED BY <1>4, <2>1 DEF RunInv, PhasesAgree
<1>13. TokensFit'
  <2> SUFFICES ASSUME NEW d \in CPU, pc'[d] \notin LeadPc
               PROVE  Run'[d] = IF Token(Stage, pc'[d], owed[d]) THEN 1 ELSE 0
    BY <1>1, <1>4 DEF TokensFit
  <2>1. CASE d = c
    BY <2>1, <1>1, <1>2, <1>4 DEF RunInv, TokensFit
  <2>2. CASE d # c
    BY <2>2, <1>1, <1>4 DEF RunInv, TokensFit
  <2> QED BY <2>1, <2>2
<1>14. TasksFit'
  BY <1>1, <1>4 DEF RunInv, TasksFit
<1>15. Balance'
  <2>1. CounterCounts'
    BY <1>1, <1>5, <1>6 DEF CounterCounts
  <2>2. Lead # {} => IF Stage \in WaitPc THEN NumberOfAPs = Run[Leader] + Cardinality(Owing')
        ELSE IF Stage \in GatherPc /\ Gathers
          THEN Run[Leader] + Cardinality(Owing') + 1 = Cardinality(Counted')
        ELSE Run[Leader] = 0
    <3> SUFFICES ASSUME Lead # {}
                 PROVE  IF Stage \in GatherPc /\ Gathers
                          THEN Run[Leader] + Cardinality(Owing') + 1 = Cardinality(Counted')
                        ELSE Run[Leader] = 0
      BY <1>6 DEF Shut, WaitPc, ClosedPc
    <3>1. Stage \notin WaitPc
      BY <1>6 DEF Shut, WaitPc, ClosedPc
    <3>2. Run[Leader] \in Nat
      BY <1>7 DEF Inv, TypeOK, BlockType
    <3>3. CASE Stage \in GatherPc /\ Gathers
      <4>1. Owes(Stage, Gathers, "route") /\ Run[Leader] + Cardinality(Owing) + 1 = Cardinality(Counted)
        BY <3>1, <3>3, <1>2 DEF RunInv, Balance
      <4> QED BY <3>2, <3>3, <4>1, <1>5
    <3>4. CASE ~(Stage \in GatherPc /\ Gathers)
      BY <3>1, <3>4 DEF RunInv, Balance
    <3> QED BY <3>3, <3>4
  <2> QED BY <1>1, <1>4, <1>6, <2>1, <2>2 DEF RunInv, Balance
<1> QED BY <1>9, <1>10, <1>11, <1>12, <1>13, <1>14, <1>15 DEF RunInv

\* A processor that checks in and is not elected becomes an AP of the run.
LEMMA JoinsAsAp ==
  ASSUME Inv, RunInv, NEW c \in CPU, BecomeAp(c)
  PROVE  RunInv'
<1> DEFINE p == pc[c]
           q == pc'[c]
<1>1. /\ p = "route" /\ q = "ap_wait1" /\ pc' = [pc EXCEPT ![c] = q]
      /\ SyncMode'[c] = EffectiveSyncMode
      /\ \A d \in CPU \ {c} : SyncMode'[d] = SyncMode[d]
      /\ UNCHANGED <<InsideSmm, AllCpusInSync, EffectiveSyncMode, ApCount, NumberOfAPs, MyBsp, Present,
                     owed, Busy, Run, Counter>>
  BY DEF BecomeAp, runVars, modeVars, bspVars, Inv, TypeOK, FrameType
<1>2. p \in MemberPc
  BY <1>1 DEF MemberPc
<1>3. /\ Fits(Stage, Gathers, p)
      /\ Run[c] = (IF Token(Stage, p, owed[c]) THEN 1 ELSE 0)
      /\ Present[c] <=> p \in PresentPc
      /\ MyBsp[c] = IF p \in FollowPc THEN Leader ELSE NoBsp
      /\ owed[c] = 0 /\ ~Busy[c]
      /\ Leader \in CPU => Run[Leader] \in 0..Locked
  BY <1>1, <1>2, MemberFacts DEF Inv, TypeOK, BlockType
<1> HIDE DEF p, q
<1>4. /\ Fits(Stage, Gathers, q)
      /\ ~Token(Stage, p, owed[c]) /\ ~Token(Stage, q, owed[c])
      /\ Owes(Stage, Gathers, p) <=> Owes(Stage, Gathers, q)
  BY <1>1, <1>3 DEF Fits, Token, Owes, ArrivalPc
<1>5. p \notin PresentPc /\ q \notin PresentPc /\ p \notin FollowPc /\ q \notin FollowPc /\ q \in ApPc
  BY <1>1 DEF PresentPc, LeadPc, BspPc, FollowPc, ApPc
<1> QED BY <1>1, <1>2, <1>3, <1>4, <1>5, MemberMoves DEF p, q

\* Who wins the election finds nobody in BSPHandler.
LEMMA NobodyBefore ==
  ASSUME Inv, RunInv, NEW c \in CPU, BecomeBsp(c)
  PROVE  Lead = {}
<1>1. pc[c] = "route" /\ BspElection(c) = c
  BY DEF BecomeBsp
<1> SUFFICES ASSUME NEW b \in CPU, pc[b] \in LeadPc PROVE FALSE
  BY DEF Lead
<1>2. b # c
  BY <1>1 DEF LeadPc, BspPc
<1>3. Fits(pc[b], Gathers, "route")
  <2>1. "route" \in MemberPc
    BY DEF MemberPc
  <2> QED BY <1>1, <2>1, LeaderFacts
<1>4. pc[b] \in OwnerPc
  BY <1>3 DEF Fits, OwnerPc, LeadPc
<1>5. BspIndex = b
  BY <1>4, LeaderFacts
<1> QED BY <1>1, <1>2, <1>5, CpuAssumption, BuildAssumption DEF BspElection, Inv, BspKnown

\* The one that is elected becomes the BSP, and finds the APs that were there
\* before it in their first wait (1343-1399).
LEMMA JoinsAsBsp ==
  ASSUME Inv, RunInv, NEW c \in CPU, BecomeBsp(c)
  PROVE  RunInv'
<1>1. /\ pc[c] = "route" /\ pc'[c] = "bsp_enter" /\ \A d \in CPU \ {c} : pc'[d] = pc[d]
      /\ SyncMode'[c] = EffectiveSyncMode
      /\ \A d \in CPU \ {c} : SyncMode'[d] = SyncMode[d]
      /\ UNCHANGED <<InsideSmm, AllCpusInSync, EffectiveSyncMode, ApCount, NumberOfAPs, MyBsp, Present,
                     owed, Busy, Run, Counter>>
  BY DEF BecomeBsp, runVars, modeVars, bspVars, Inv, TypeOK, FrameType
<1>2. Lead = {} /\ Leader = NoBsp /\ Stage = "none" /\ ~Gathers
  BY NobodyBefore, NobodyLeads
<1>3. /\ "bsp_enter" \in LeadPc /\ "bsp_enter" \notin MemberPc /\ "bsp_enter" \in CountedPc
      /\ "route" \in MemberPc /\ "route" \in CountedPc /\ "route" \notin LeadPc
      /\ "bsp_enter" \notin PresentPc /\ "route" \notin PresentPc
      /\ "bsp_enter" \notin FollowPc /\ "route" \notin FollowPc /\ "bsp_enter" \notin ApPc
      /\ "bsp_enter" \notin InsidePc /\ "none" \notin InsidePc
      /\ "bsp_enter" \notin WaitPc /\ "bsp_enter" \in GatherPc
      /\ \A s : s \in CountedPc <=> s \in MemberPc \/ s \in LeadPc
      /\ \A g : ~Shut("bsp_enter", g) /\ ~Shut("none", g) /\ FlowFits("bsp_enter", g)
  BY DEF LeadPc, BspPc, MemberPc, ApPc, CountedPc, PresentPc, FollowPc, InsidePc, HandlersPc, WaitPc, GatherPc,
         Shut, ClosedPc, FlowFits
<1>4. \A d \in CPU : /\ pc[d] \in MemberPc => pc[d] \in ArrivalPc \cup {"ap_giveup"}
                     /\ pc[d] \notin LeadPc /\ owed[d] = 0 /\ Run[d] = 0
  <2>1. \A d \in CPU : pc[d] \in MemberPc => pc[d] \in ArrivalPc \cup {"ap_giveup"}
    BY <1>2 DEF RunInv, PhasesAgree, Fits
  <2>2. \A d \in CPU : pc[d] \notin LeadPc
    BY <1>2 DEF Lead
  <2>3. \A d \in CPU : owed[d] = 0
    BY <1>2 DEF RunInv, TasksFit
  <2>4. \A d \in CPU : Run[d] = IF Token("none", pc[d], 0) THEN 1 ELSE 0
    BY <1>2, <2>2, <2>3 DEF RunInv, TokensFit
  <2>5. \A d \in CPU : Run[d] = 0
    BY <2>4 DEF Token
  <2> QED BY <2>1, <2>2, <2>3, <2>5
<1>5. Lead' = {c} /\ Leader' = c
  <2>1. Lead' = {c}
    BY <1>1, <1>3, <1>4 DEF Lead
  <2> QED BY <2>1 DEF Leader
<1>6. Stage' = "bsp_enter"
  BY <1>1, <1>5 DEF Stage
<1>7. Counted' = Counted
  BY <1>1, <1>3 DEF Counted
<1>8. SingleBsp' /\ OneRun'
  <2>1. SingleBsp'
    BY <1>5 DEF SingleBsp
  <2>2. OneRun'
    BY <1>1, <1>6 DEF RunInv, OneRun
  <2> QED BY <2>1, <2>2
<1>9. FlagsMean'
  <2>1. (\E d \in CPU : pc'[d] = "bsp_resync") <=> (\E d \in CPU : pc[d] = "bsp_resync")
    BY <1>1
  <2>2. \A d \in CPU : Present'[d] <=> pc'[d] \in PresentPc
    BY <1>1, <1>3 DEF RunInv, FlagsMean
  <2> QED BY <1>1, <1>2, <1>3, <1>6, <2>1, <2>2 DEF RunInv, FlagsMean
<1>10. ModesAgree'
  BY <1>1, <1>2, <1>3, <1>5, <1>6 DEF RunInv, ModesAgree
<1>11. Follows'
  <2>1. \A d \in CPU : pc[d] \notin FollowPc
    BY <1>4 DEF FollowPc, ArrivalPc, MemberPc, ApPc
  <2>2. \A d \in CPU : pc'[d] \notin FollowPc /\ (pc'[d] # "exitwait" => pc[d] # "exitwait")
    BY <1>1, <1>3, <2>1
  <2> QED BY <1>1, <2>1, <2>2 DEF RunInv, Follows
<1>12. PhasesAgree'
  <2>1. \A g : \A p \in ArrivalPc \cup {"ap_giveup"} : Fits("bsp_enter", g, p)
    BY DEF Fits, HandlersPc
  <2> QED BY <1>1, <1>3, <1>4, <1>6, <2>1 DEF PhasesAgree
<1>13. TokensFit'
  <2>1. \A p : ~Token("bsp_enter", p, 0)
    BY DEF Token
  <2> QED BY <1>1, <1>4, <1>6, <2>1 DEF TokensFit
<1>14. TasksFit'
  <2>1. \A d \in CPU : pc'[d] \notin {"ap_run", "ap_check"} /\ (pc'[d] \in MemberPc => pc[d] \in MemberPc)
    BY <1>1, <1>3, <1>4 DEF ArrivalPc, MemberPc, ApPc
  <2> QED BY <1>1, <1>3, <1>4, <1>6, <2>1 DEF RunInv, TasksFit
<1>15. Balance'
  <2>1. Gathers' => Owing' = Counted \ {c}
    <3>1. \A d \in CPU \ {c} : pc[d] \in CountedPc <=> pc[d] \in ArrivalPc \cup {"ap_giveup"}
      BY <1>3, <1>4 DEF ArrivalPc, MemberPc, ApPc
    <3>2. \A p \in ArrivalPc \cup {"ap_giveup"} : Owes("bsp_enter", TRUE, p)
      BY DEF Owes, GatherPc
    <3>3. \A p : Owes("bsp_enter", TRUE, p) => p \in ArrivalPc \cup {"ap_giveup", "ap_present", "ap_arrive"}
      BY DEF Owes
    <3>4. ~Owes("bsp_enter", TRUE, "bsp_enter")
      BY DEF Owes, ArrivalPc
    <3>5. \A d \in CPU : pc[d] \notin {"ap_present", "ap_arrive"}
      BY <1>4 DEF ArrivalPc, MemberPc, ApPc
    <3> QED
      <4> HAVE Gathers'
      <4>1. Gathers' = TRUE
        BY DEF Gathers
      <4>2. Owing' = {d \in CPU : Owes("bsp_enter", TRUE, pc'[d])}
        BY <1>6, <4>1 DEF Owing
      <4>3. \A d \in CPU : Owes("bsp_enter", TRUE, pc'[d]) <=> d \in Counted \ {c}
        BY <1>1, <3>1, <3>2, <3>3, <3>4, <3>5 DEF Counted
      <4> QED BY <4>2, <4>3 DEF Counted
  <2>2. c \in Counted /\ IsFiniteSet(Counted) /\ Cardinality(Counted) \in Nat
    BY <1>1, <1>3, CpuAssumption, FS_Subset, FS_CardinalityType DEF Counted
  <2>3. Cardinality(Counted \ {c}) = Cardinality(Counted) - 1
    BY <2>2, FS_RemoveElement
  <2>4. Gathers' => Cardinality(Owing') = Cardinality(Counted) - 1
    BY <2>1, <2>3
  <2>5. IF Gathers' THEN Run'[c] + Cardinality(Owing') + 1 = Cardinality(Counted) ELSE Run'[c] = 0
    BY <2>2, <2>4, <1>1, <1>4
  <2>6. CounterCounts'
    BY <1>1, <1>7 DEF RunInv, Balance, CounterCounts
  <2> QED BY <2>5, <2>6, <1>1, <1>3, <1>5, <1>6, <1>7 DEF Balance
<1> QED BY <1>8, <1>9, <1>10, <1>11, <1>12, <1>13, <1>14, <1>15 DEF RunInv

\* The BSP hands a procedure to an AP that is waiting for one.
LEMMA BspStartsAp ==
  ASSUME Inv, RunInv, NEW c \in CPU, NEW d \in CPU,
         SmmStartupThisAp(c, d) \/ SmmBlockingStartupThisAp(c, d)
  PROVE  RunInv'
<1> DEFINE q == pc'[c]
<1>1. /\ pc[c] = "bsp_core" /\ q \in {"bsp_core", "bsp_block"} /\ pc'[c] = q /\ \A e \in CPU \ {c} : pc'[e] = pc[e]
      /\ d # c /\ Present[d] /\ ~Busy[d]
      /\ Busy'[d] /\ owed'[d] = owed[d] + 1 /\ Run'[d] = Released(Run[d])
      /\ \A e \in CPU \ {d} : Busy'[e] = Busy[e] /\ owed'[e] = owed[e] /\ Run'[e] = Run[e]
      /\ UNCHANGED <<InsideSmm, AllCpusInSync, EffectiveSyncMode, Counter, Present, SyncMode, MyBsp, ApCount,
                     NumberOfAPs>>
  BY DEF SmmStartupThisAp, SmmBlockingStartupThisAp, StartAp, Calling, runVars, modeVars, frameVars,
         Inv, TypeOK, FrameType, BlockType, TaskType
<1>2. pc[c] \in LeadPc /\ q \in LeadPc
  BY <1>1 DEF LeadPc, BspPc
<1>3. /\ Leader = c /\ Lead = {c} /\ Stage = "bsp_core"
      /\ \A e \in CPU :
           /\ pc[e] \in MemberPc => /\ Fits("bsp_core", Gathers, pc[e])
                                    /\ Busy[e] <=> owed[e] = 1
           /\ pc[e] \notin LeadPc => Run[e] = IF Token("bsp_core", pc[e], owed[e]) THEN 1 ELSE 0
           /\ pc[e] # "bsp_resync"
           /\ owed[e] \in {0, 1}
           /\ pc[e] = "ap_check" => owed[e] = 1
           /\ pc[e] = "ap_run" => owed[e] = 1
           /\ Present[e] <=> pc[e] \in PresentPc
  BY <1>1, <1>2, LeaderFacts
<1> HIDE DEF q
<1>4. pc[d] = "ap_loop" /\ pc[d] \in MemberPc /\ pc[d] \notin LeadPc /\ owed[d] = 0 /\ Run[d] = 0
  <2>1. pc[d] \notin LeadPc /\ pc[d] \in PresentPc
    BY <1>1, <1>3 DEF Lead
  <2>2. pc[d] \in MemberPc
    BY <2>1 DEF PresentPc, MemberPc, ApPc
  <2>3. owed[d] = 0
    BY <1>1, <1>3, <2>2
  <2>4. pc[d] = "ap_loop"
    BY <1>3, <2>1, <2>2, <2>3 DEF Fits, HandlersPc, PresentPc, ArrivalPc, LeadPc, BspPc
  <2>5. Run[d] = 0
    BY <1>3, <2>1, <2>3, <2>4 DEF Token
  <2> QED BY <2>1, <2>2, <2>3, <2>4, <2>5
<1>5. owed'[d] = 1 /\ Run'[d] = 1
  BY <1>1, <1>4, LockedAssumption, CpuAssumption, FS_CardinalityType DEF Released
<1>6. Lead' = {c} /\ Leader' = c /\ Stage' = q /\ Gathers' = Gathers
  <2>1. Lead' = {c}
    BY <1>1, <1>2, <1>3 DEF Lead
  <2>2. Leader' = c
    BY <2>1 DEF Leader
  <2> QED BY <1>1, <1>3, <2>1, <2>2 DEF Stage, Gathers, GatherFirst
<1>7. /\ q \notin MemberPc /\ pc[c] \notin MemberPc /\ q \in CountedPc /\ pc[c] \in CountedPc
      /\ q \in PresentPc /\ pc[c] \in PresentPc /\ q \notin FollowPc /\ pc[c] \notin FollowPc
      /\ q \notin ApPc /\ pc[c] \notin ApPc
      /\ q \in InsidePc /\ pc[c] \in InsidePc
      /\ q # "bsp_resync" /\ q # "bsp_lock"
      /\ ~Settled(q) /\ ~Settled("bsp_core")
      /\ \A g : (Shut(q, g) <=> Shut("bsp_core", g)) /\ FlowFits(q, g)
      /\ q \notin WaitPc /\ "bsp_core" \notin WaitPc /\ q \notin GatherPc /\ "bsp_core" \notin GatherPc
      /\ q \notin {"wait_reset", "bsp_open"}
  BY <1>1, <1>2 DEF LeadPc, BspPc, MemberPc, ApPc, CountedPc, PresentPc, FollowPc, InsidePc, HandlersPc,
                    Settled, Shut, ClosedPc, FlowFits, WaitPc, GatherPc
<1>8. Counted' = Counted
  BY <1>1, <1>7 DEF Counted
<1>9. SingleBsp' /\ OneRun'
  <2>1. SingleBsp'
    BY <1>6 DEF SingleBsp
  <2>2. OneRun'
    BY <1>1, <1>3, <1>7 DEF OneRun
  <2> QED BY <2>1, <2>2
<1>10. FlagsMean'
  <2>1. \A e \in CPU : pc'[e] # "bsp_resync" /\ pc[e] # "bsp_resync"
    BY <1>1, <1>3, <1>7
  <2>2. \A e \in CPU : Present'[e] <=> pc'[e] \in PresentPc
    BY <1>1, <1>3, <1>7
  <2> QED BY <1>1, <1>3, <1>6, <1>7, <2>1, <2>2 DEF RunInv, FlagsMean
<1>11. ModesAgree'
  BY <1>1, <1>3, <1>6, <1>7 DEF RunInv, ModesAgree
<1>12. Follows'
  BY <1>1, <1>3, <1>6, <1>7 DEF RunInv, Follows
<1>13. PhasesAgree'
  <2>1. \A g : \A p : Fits("bsp_core", g, p) => Fits(q, g, p)
    BY <1>1 DEF Fits, HandlersPc
  <2> QED BY <1>1, <1>3, <1>6, <1>7, <2>1 DEF PhasesAgree
<1>14. TokensFit'
  <2> SUFFICES ASSUME NEW e \in CPU, pc'[e] \notin LeadPc
               PROVE  Run'[e] = IF Token(q, pc'[e], owed'[e]) THEN 1 ELSE 0
    BY <1>6 DEF TokensFit
  <2>1. e # c
    BY <1>1, <1>2
  <2>2. \A p, o : Token(q, p, o) <=> Token("bsp_core", p, o)
    BY <1>1 DEF Token
  <2>3. CASE e = d
    BY <2>1, <2>2, <2>3, <1>1, <1>4, <1>5 DEF Token
  <2>4. CASE e # d
    BY <2>1, <2>2, <2>4, <1>1, <1>3
  <2> QED BY <2>3, <2>4
<1>15. TasksFit'
  <2> SUFFICES ASSUME NEW e \in CPU
               PROVE  /\ owed'[e] \in {0, 1}
                      /\ owed'[e] = 1 => /\ pc'[e] \in {"ap_loop", "ap_check", "ap_run"}
                                         /\ q \in {"bsp_core", "bsp_block", "bsp_drain"}
                      /\ pc'[e] \in MemberPc => (Busy'[e] <=> owed'[e] = 1)
                      /\ pc'[e] = "ap_run" => owed'[e] = 1
                      /\ pc'[e] = "ap_check" => owed'[e] = 1 \/ q = "wait_done"
    BY <1>6 DEF TasksFit
  <2>1. CASE e = d
    BY <2>1, <1>1, <1>4, <1>5
  <2>2. CASE e = c
    BY <2>2, <1>1, <1>3, <1>7 DEF RunInv, TasksFit
  <2>3. CASE e # d /\ e # c
    BY <2>3, <1>1, <1>3 DEF RunInv, TasksFit
  <2> QED BY <2>1, <2>2, <2>3
<1>16. Balance'
  BY <1>1, <1>3, <1>6, <1>7, <1>8 DEF RunInv, Balance, CounterCounts
<1> QED BY <1>9, <1>10, <1>11, <1>12, <1>13, <1>14, <1>15, <1>16 DEF RunInv

\* Every other step leaves the rendezvous as it is.
LEMMA FrameRun ==
  ASSUME RunInv,
         UNCHANGED <<Counter, InsideSmm, AllCpusInSync, EffectiveSyncMode, Run, Busy, Present, pc,
                     SyncMode, MyBsp, ApCount, NumberOfAPs, owed>>
  PROVE  RunInv'
<1>1. /\ Lead' = Lead /\ Counted' = Counted
  BY DEF Lead, Counted
<1>2. Leader' = Leader
  BY <1>1 DEF Leader
<1>3. Stage' = Stage /\ Gathers' = Gathers
  BY <1>1, <1>2 DEF Stage, Gathers, GatherFirst
<1>4. Owing' = Owing
  BY <1>3 DEF Owing
<1>5. SingleBsp' /\ OneRun' /\ FlagsMean' /\ ModesAgree' /\ Follows'
  BY <1>1, <1>2, <1>3 DEF RunInv, SingleBsp, OneRun, FlagsMean, ModesAgree, Follows
<1>6. PhasesAgree' /\ TokensFit' /\ TasksFit'
  BY <1>3 DEF RunInv, PhasesAgree, TokensFit, TasksFit
<1>7. Balance'
  BY <1>1, <1>2, <1>3, <1>4 DEF RunInv, Balance, CounterCounts
<1> QED BY <1>5, <1>6, <1>7 DEF RunInv

\* No run has begun.
LEMMA InitRun == Init => RunInv
<1> SUFFICES ASSUME Init PROVE RunInv OBVIOUS
<1>1. /\ \A c \in CPU : pc[c] = "normal" /\ ~Present[c] /\ MyBsp[c] = NoBsp /\ Run[c] = 0
                        /\ owed[c] = 0 /\ ~Busy[c]
      /\ ~InsideSmm /\ ~AllCpusInSync /\ Counter = 0
  BY DEF Init
<1>2. /\ "normal" \notin LeadPc /\ "normal" \notin CountedPc /\ "normal" \notin PresentPc
      /\ "normal" \notin FollowPc /\ "normal" \notin MemberPc /\ "normal" \notin ApPc
      /\ "none" \notin InsidePc /\ "none" \notin WaitPc
      /\ \A g : ~Shut("none", g) /\ FlowFits("none", g)
      /\ \A o : ~Token("none", "normal", o)
  BY DEF LeadPc, BspPc, CountedPc, PresentPc, FollowPc, MemberPc, ApPc, InsidePc, HandlersPc, WaitPc,
         Shut, ClosedPc, FlowFits, Token
<1>3. Lead = {} /\ Counted = {}
  BY <1>1, <1>2 DEF Lead, Counted
<1>4. Leader = NoBsp /\ Stage = "none" /\ ~Gathers
  BY <1>3, NobodyLeads
<1>5. SingleBsp /\ OneRun
  BY <1>1, <1>3 DEF SingleBsp, OneRun
<1>6. FlagsMean
  <2>1. Counter # Locked
    BY <1>1, LockedAssumption, CpuAssumption, FS_CardinalityType
  <2> QED BY <1>1, <1>2, <1>4, <2>1 DEF FlagsMean
<1>7. ModesAgree /\ Follows /\ PhasesAgree /\ TokensFit /\ TasksFit
  BY <1>1, <1>2, <1>3, <1>4 DEF ModesAgree, Follows, PhasesAgree, TokensFit, TasksFit
<1>8. Balance
  <2>1. Cardinality(Counted) = 0
    BY <1>3, FS_EmptySet
  <2> QED BY <1>1, <1>2, <1>3, <1>4, <2>1 DEF Balance, CounterCounts
<1> QED BY <1>5, <1>6, <1>7, <1>8 DEF RunInv

\* Every step keeps the invariant.
LEMMA NextRun ==
  ASSUME PromptWindows, Inv, RunInv, [Next]_vars
  PROVE  RunInv'
<1>1. ASSUME NEW c \in CPU, EntryStep(c) \/ EnterSmm(c) PROVE RunInv'
  BY <1>1, OutsideSteps, Joins, JoinsAsAp, JoinsAsBsp DEF EntryStep
<1>2. ASSUME NEW c \in CPU, ApStep(c) PROVE RunInv'
  BY <1>2, ApWaits, ApFollows, ApSignals DEF ApStep
<1>3. ASSUME NEW c \in CPU, BspStep(c) PROVE RunInv'
  <2>1. CASE BspReady(c)
    BY <2>1, BspGoesOn, BspReleases
  <2> QED BY <1>3, <2>1, BspGathers, BspCloses, BspTakes, BspGoesOn, BspReleases, BspHandles, BspOpens,
          OutsideSteps DEF BspStep
<1>4. ASSUME NEW c \in CPU, ServiceStep(c) PROVE RunInv'
  <2>1. ASSUME NEW d \in CPU, SmmStartupThisAp(c, d) \/ SmmBlockingStartupThisAp(c, d) PROVE RunInv'
    BY <2>1, BspStartsAp
  <2>2. CASE Unblock(c)
    BY <2>2, BspHandles
  <2>3. ASSUME NEW d \in CPU,
               \/ SmmSwitchBsp(c, d) \/ SmmAddProcessor(c, d) \/ SmmRemoveProcessor(c, d)
               \/ \E enable \in BOOLEAN : SmmChangeSmmEnabling(c, d, enable)
        PROVE  RunInv'
    BY <2>3, FrameRun DEF SmmSwitchBsp, SmmAddProcessor, SmmRemoveProcessor, SmmChangeSmmEnabling,
                          runVars, modeVars, frameVars
  <2>4. CASE (\E mode \in Modes : SmmSyncSetMode(c, mode)) \/ SmmCheckApArrival(c) \/ SmmSendSmi(c)
    BY <2>4, FrameRun DEF SmmSyncSetMode, SmmCheckApArrival, SmmSendSmi, runVars, modeVars, frameVars
  <2> QED BY <1>4, <2>1, <2>2, <2>3, <2>4 DEF ServiceStep
<1>5. CASE SmiRaise \/ Idle \/ UNCHANGED vars
  BY <1>5, FrameRun DEF SmiRaise, Idle, vars, runVars, modeVars, frameVars, bspVars
<1> QED BY <1>1, <1>2, <1>3, <1>4, <1>5 DEF Next, CpuStep

\* The invariant holds in every reachable state.
LEMMA Barrier == ASSUME PromptWindows PROVE Spec => [](Inv /\ RunInv)
<1>1. Init => Inv /\ RunInv
  BY InitInv, InitRun
<1>2. Inv /\ RunInv /\ [Next]_vars => (Inv /\ RunInv)'
  BY NextInv, NextRun
<1> QED BY <1>1, <1>2, PTL DEF Spec

\* At most one processor executes BSPHandler at a time, in whatever order they
\* arrive, time out, give up and come back (1343-1399, 699-708).
THEOREM OneBsp == ASSUME PromptWindows PROVE Spec => []SingleBsp
<1>1. RunInv => SingleBsp
  BY DEF RunInv
<1> QED BY <1>1, Barrier, PTL

\* Counter is the number of processors in the run as long as it counts (1288, 779,
\* 786): no check-in is lost, none that was taken back is left.
THEOREM CheckInsCounted == ASSUME PromptWindows PROVE Spec => []CounterCounts
<1>1. RunInv => CounterCounts
  BY DEF RunInv, Balance
<1> QED BY <1>1, Barrier, PTL

\* Nobody joins or leaves a run that has been counted until the BSP stores 0 in
\* Counter, and AllCpusInSync is set as long (524-525, 618-619, 704-709).
THEOREM LockHolds == ASSUME PromptWindows PROVE Spec => []LockedUntilOpened
<1>1. ASSUME Inv, RunInv PROVE LockedUntilOpened
  <2>1. ASSUME NEW c \in CPU, Closed(c) PROVE Counter = Locked
    <3>1. pc[c] \in LeadPc
      BY <2>1 DEF Closed, ClosedPc, LeadPc, BspPc
    <3>2. Shut(pc[c], Gathers)
      BY <1>1, <2>1, <3>1, LeaderFacts DEF Closed, Shut, HandlersPc
    <3> QED BY <1>1, <3>1, <3>2, LeaderFacts
  <2>2. Counter = Locked => AllCpusInSync
    BY <1>1 DEF RunInv, FlagsMean
  <2> QED BY <2>1, <2>2 DEF LockedUntilOpened
<1> QED BY <1>1, Barrier, PTL

\* APs signal the processor that is the BSP and follow its flow (648-651, 794-795,
\* 1337, 1395-1398).
THEOREM OneRunForAll == ASSUME PromptWindows PROVE Spec => []SameRun
<1>1. ASSUME Inv, RunInv PROVE SameRun
  <2> SUFFICES ASSUME NEW d \in CPU, pc[d] \in ApPc
               PROVE  /\ MyBsp[d] # NoBsp => MyBsp[d] = BspIndex /\ d # BspIndex
                      /\ \A c \in Lead : SyncMode[d] = SyncMode[c]
    BY DEF SameRun
  <2>1. pc[d] \in MemberPc /\ pc[d] # "exitwait"
    BY DEF MemberPc, ApPc
  <2>2. /\ Fits(Stage, Gathers, pc[d])
        /\ Stage \in LeadPc \cup {"none"} /\ (Stage \in LeadPc => Leader \in CPU /\ Leader # d)
        /\ MyBsp[d] = IF pc[d] \in FollowPc THEN Leader ELSE NoBsp
    BY <1>1, <2>1, MemberFacts
  <2>3. \A c \in Lead : SyncMode[d] = SyncMode[c]
    <3> SUFFICES ASSUME NEW c \in Lead PROVE SyncMode[d] = SyncMode[c]
      OBVIOUS
    <3>1. Leader = c /\ Lead # {}
      BY <1>1, LeaderIs DEF Lead, RunInv
    <3> QED BY <1>1, <3>1 DEF RunInv, ModesAgree
  <2>4. MyBsp[d] # NoBsp => MyBsp[d] = BspIndex /\ d # BspIndex
    <3> HAVE MyBsp[d] # NoBsp
    <3>1. pc[d] \in FollowPc /\ Stage \in OwnerPc /\ MyBsp[d] = Leader
      BY <2>2 DEF FollowPc, Fits, ArrivalPc, OwnerPc, LeadPc
    <3>2. Stage \in LeadPc /\ pc[Leader] = Stage /\ Leader \in CPU
      BY <1>1, <3>1, StageType DEF Inv, RunInv, OwnerPc, LeadPc
    <3>3. BspIndex = Leader
      BY <1>1, <3>1, <3>2 DEF Inv, BspOwnsRun
    <3> QED BY <2>2, <3>1, <3>2, <3>3
  <2> QED BY <2>3, <2>4
<1> QED BY <1>1, Barrier, PTL

\* WaitForAllAPs never takes more signals than it waits for, so that its counter
\* cannot wrap around, and no semaphore holds one after the run: the assertion
\* CpuData[CpuIndex].Run == 0 (248-254, 1402).
THEOREM SignalsMatch == ASSUME PromptWindows PROVE Spec => []SignalsBalance
<1>1. ASSUME Inv, RunInv PROVE SignalsBalance
  <2> SUFFICES ASSUME NEW c \in CPU
               PROVE  /\ pc[c] \in WaitPc => Run[c] <= NumberOfAPs
                      /\ pc[c] \in {"exitwait", "normal"} => Run[c] = 0
    BY DEF SignalsBalance
  <2>1. ASSUME pc[c] \in WaitPc PROVE Run[c] <= NumberOfAPs
    <3>1. pc[c] \in LeadPc
      BY <2>1 DEF WaitPc, LeadPc, BspPc
    <3>2. Leader = c /\ Stage = pc[c] /\ Lead # {} /\ Run[c] \in 0..Locked
      BY <1>1, <3>1, LeaderFacts
    <3>3. NumberOfAPs = Run[c] + Cardinality(Owing)
      BY <1>1, <2>1, <3>2 DEF RunInv, Balance
    <3>4. Cardinality(Owing) \in Nat
      BY CpuAssumption, FS_Subset, FS_CardinalityType DEF Owing
    <3> QED BY <3>2, <3>3, <3>4, LockedAssumption
  <2>2. ASSUME pc[c] \in {"exitwait", "normal"} PROVE Run[c] = 0
    BY <1>1, <2>2 DEF RunInv, TokensFit, Token, LeadPc, BspPc
  <2> QED BY <2>1, <2>2
<1> QED BY <1>1, Barrier, PTL

\* A procedure that SmmStartupThisAp has handed to an AP runs exactly once and
\* before the APs are told to leave (590-594, 846-857, 1172-1176).
THEOREM EveryProcedureOnce == ASSUME PromptWindows PROVE Spec => []ProceduresRunOnce
<1>1. ASSUME Inv, RunInv PROVE ProceduresRunOnce
  <2>1. ASSUME NEW d \in CPU, pc[d] = "ap_run" PROVE owed[d] = 1 /\ Busy[d]
    BY <1>1, <2>1 DEF RunInv, TasksFit, MemberPc, ApPc
  <2>2. ASSUME NEW c \in CPU, pc[c] \in {"bsp_exit", "bsp_notify", "wait_done"}, NEW d \in CPU
        PROVE  owed[d] = 0
    <3>1. pc[c] \in LeadPc
      BY <2>2 DEF LeadPc, BspPc
    <3>2. owed[d] \in {0, 1} /\ (owed[d] = 1 => pc[c] \in {"bsp_core", "bsp_block", "bsp_drain"})
      BY <1>1, <3>1, LeaderFacts
    <3> QED BY <2>2, <3>2
  <2> QED BY <2>1, <2>2 DEF ProceduresRunOnce
<1> QED BY <1>1, Barrier, PTL

-----------------------------------------------------------------------------
(* The MTRRs                                                               *)

\* BSPHandler while the SMM MTRRs are in place, APHandler while the backup of
\* the OS's is needed.
SmmMtrrPc == HandlersPc \cup {"wait_set", "bsp_exit", "bsp_notify", "wait_done", "bsp_restore"}
SavedPc == {"ap_set", "ap_loop", "ap_check", "ap_run", "ap_leave", "ap_restore", "wait_saved"}
           \cup SmmMtrrPc

\* A build that leaves the MTRRs alone never touches them; in the others they
\* hold SMM's between BspSet and BspRestore, and whoever needs one has a
\* backup of the OS's.
MtrrInv ==
  /\ ~NeedMtrrs => mtrr = "os" /\ \A c \in CPU : savedMtrr[c] = "none"
  /\ mtrr = IF NeedMtrrs /\ \E b \in CPU : pc[b] \in SmmMtrrPc THEN "smm" ELSE "os"
  /\ \A c \in CPU : /\ savedMtrr[c] # "smm"
                    /\ NeedMtrrs /\ pc[c] \in SavedPc => savedMtrr[c] = "os"

\* Only the BSP is ever at such a statement.
LEMMA StageMtrr ==
  ASSUME Inv, RunInv
  PROVE  (\E b \in CPU : pc[b] \in SmmMtrrPc) <=> Stage \in SmmMtrrPc
<1>1. SmmMtrrPc \subseteq LeadPc /\ "none" \notin SmmMtrrPc
  BY DEF SmmMtrrPc, HandlersPc, LeadPc, BspPc
<1>2. ASSUME NEW b \in CPU, pc[b] \in SmmMtrrPc PROVE Stage = pc[b]
  BY <1>1, <1>2, LeaderFacts
<1>3. ASSUME Stage \in SmmMtrrPc PROVE Leader \in CPU /\ pc[Leader] = Stage
  BY <1>1, <1>3, StageType DEF Inv, RunInv
<1> QED BY <1>2, <1>3

\* A step that leaves the MTRRs and the backups alone.
LEMMA MtrrKept ==
  ASSUME Inv, MtrrInv, NEW c \in CPU, NEW q, pc' = [pc EXCEPT ![c] = q], UNCHANGED <<mtrr, savedMtrr>>,
         NeedMtrrs => (q \in SmmMtrrPc <=> pc[c] \in SmmMtrrPc) /\ (q \in SavedPc => pc[c] \in SavedPc)
  PROVE  MtrrInv'
<1>1. pc'[c] = q /\ \A d \in CPU \ {c} : pc'[d] = pc[d]
  BY DEF Inv, TypeOK, FrameType
<1>2. NeedMtrrs => ((\E b \in CPU : pc'[b] \in SmmMtrrPc) <=> (\E b \in CPU : pc[b] \in SmmMtrrPc))
  BY <1>1
<1> QED BY <1>1, <1>2 DEF MtrrInv

\* The steps of the APs, which back up and restore.
LEMMA ApMtrr ==
  ASSUME Inv, RunInv, MtrrInv, NEW c \in CPU, ApStep(c)
  PROVE  MtrrInv'
<1>1. CASE ApSeesBsp(c) \/ ApTimeout1(c) \/ ApTimeout2(c) \/ ApGiveUp(c)
  BY <1>1, MtrrKept DEF ApSeesBsp, ApTimeout1, ApTimeout2, ApGiveUp, mtrrVars, SmmMtrrPc, HandlersPc, SavedPc
<1>2. CASE ApPresent(c) \/ ApArrive(c) \/ ApWake(c) \/ ApCheck(c) \/ ApRun(c)
  BY <1>2, MtrrKept DEF ApPresent, ApArrive, ApWake, ApCheck, ApRun, GatherFirst, mtrrVars,
                        SmmMtrrPc, HandlersPc, SavedPc
<1>3. CASE ApLeave(c) \/ ApReady(c) \/ ApReset(c) \/ ApDone(c)
  BY <1>3, MtrrKept DEF ApLeave, ApReady, ApReset, ApDone, mtrrVars, SmmMtrrPc, HandlersPc, SavedPc
<1>4. CASE ApSave(c) \/ ApSet(c) \/ ApRestore(c)
  <2>1. /\ pc[c] \in {"ap_save", "ap_set", "ap_restore"} /\ pc[c] \in MemberPc /\ pc[c] \notin SmmMtrrPc
        /\ pc'[c] \notin SmmMtrrPc
        /\ \A d \in CPU \ {c} : pc'[d] = pc[d]
        /\ Run[c] > 0
    BY <1>4 DEF ApSave, ApSet, ApRestore, TakeAndSignal, TakeOwn, MemberPc, ApPc, SmmMtrrPc, HandlersPc,
                Inv, TypeOK, FrameType
  <2>2. Token(Stage, pc[c], owed[c]) /\ owed[c] # 1 /\ Fits(Stage, Gathers, pc[c]) /\ FlowFits(Stage, Gathers)
        /\ Stage \in LeadPc \cup {"none"}
    BY <2>1, MemberFacts
  <2>3. /\ pc[c] = "ap_save" => Stage = "wait_saved"
        /\ pc[c] = "ap_set" => Stage = "wait_set"
        /\ pc[c] = "ap_restore" => Stage = "wait_restored"
    BY <2>1, <2>2 DEF Token
  <2>4. NeedMtrrs
    BY <2>1, <2>2, <2>3 DEF FlowFits
  <2>5. mtrr = IF pc[c] = "ap_set" THEN "smm" ELSE "os"
    BY <2>1, <2>3, <2>4, StageMtrr DEF MtrrInv, SmmMtrrPc, HandlersPc
  <2>6. pc[c] = "ap_restore" => savedMtrr[c] = "os"
    BY <2>4 DEF MtrrInv, SavedPc
  <2>7. /\ mtrr' = mtrr
        /\ \A d \in CPU : savedMtrr'[d] = IF d = c /\ pc[c] = "ap_save" THEN "os" ELSE savedMtrr[d]
        /\ pc'[c] = (IF pc[c] = "ap_save" THEN "ap_set" ELSE IF pc[c] = "ap_set" THEN "ap_loop" ELSE "ap_ready")
    BY <1>4, <2>5, <2>6 DEF ApSave, ApSet, ApRestore, Inv, TypeOK, FrameType, TaskType
  <2>8. (\E b \in CPU : pc'[b] \in SmmMtrrPc) <=> (\E b \in CPU : pc[b] \in SmmMtrrPc)
    BY <2>1
  <2>9. \A d \in CPU : /\ savedMtrr'[d] # "smm"
                       /\ pc'[d] \in SavedPc => savedMtrr'[d] = "os"
    <3> TAKE d \in CPU
    <3>1. CASE d = c
      BY <3>1, <2>1, <2>4, <2>7 DEF MtrrInv, SavedPc, SmmMtrrPc, HandlersPc
    <3>2. CASE d # c
      BY <3>2, <2>1, <2>4, <2>7 DEF MtrrInv
    <3> QED BY <3>1, <3>2
  <2> QED BY <2>4, <2>7, <2>8, <2>9 DEF MtrrInv
<1> QED BY <1>1, <1>2, <1>3, <1>4 DEF ApStep

\* The steps of the BSP: it backs up after the last AP and restores before the
\* first (532-569, 653-669).
LEMMA BspMtrr ==
  ASSUME Inv, RunInv, MtrrInv, NEW c \in CPU, BspStep(c)
  PROVE  MtrrInv'
<1>1. CASE BspEnter(c) \/ BspClear(c) \/ BspArrival(c) \/ BspInSync(c) \/ BspLock(c)
  BY <1>1, MtrrKept DEF BspEnter, BspClear, BspArrival, BspInSync, BspLock, GatherFirst, mtrrVars,
                        SmmMtrrPc, HandlersPc, SavedPc
<1>2. CASE WaitForAllAPs(c)
  BY <1>2 DEF WaitForAllAPs, mtrrVars, MtrrInv
<1>3. CASE (BspReady(c) /\ ~NeedMtrrs) \/ BspAllSet(c) \/ BspCoreEntry(c) \/ BspCoreReturn(c) \/ BspDrain(c)
  BY <1>3, MtrrKept DEF BspReady, BspAllSet, BspCoreEntry, BspCoreReturn, BspDrain, WaitOver, GatherFirst, mtrrVars,
                        SmmMtrrPc, HandlersPc, SavedPc
<1>4. CASE BspAllPresent(c)
  <2>1. ~NeedMtrrs
    <3>1. pc[c] = "wait_present" /\ pc[c] \in LeadPc
      BY <1>4 DEF BspAllPresent, LeadPc, BspPc
    <3>2. ~GatherFirst(c)
      BY <3>1, LeaderFacts DEF FlowFits
    <3> QED BY <3>2 DEF GatherFirst
  <2> QED BY <1>4, <2>1, MtrrKept DEF BspAllPresent, mtrrVars
<1>5. CASE BspExit(c) \/ BspNotify(c) \/ BspSetMode(c) \/ BspAllRestored(c)
  BY <1>5, MtrrKept DEF BspExit, BspNotify, BspSetMode, BspAllRestored, WaitOver, mtrrVars,
                        SmmMtrrPc, HandlersPc, SavedPc
<1>6. CASE BspReset(c) \/ BspUnelect(c) \/ BspOpen(c) \/ BspResync(c)
  BY <1>6, MtrrKept DEF BspReset, BspUnelect, BspOpen, BspResync, WaitOver, mtrrVars,
                        SmmMtrrPc, HandlersPc, SavedPc
<1>7. CASE (BspReady(c) /\ NeedMtrrs) \/ BspSet(c) \/ BspRestore(c)
  <2>1. /\ pc[c] \in {"wait_ready", "wait_saved", "bsp_restore"} /\ pc[c] \in LeadPc
        /\ pc'[c] = (IF pc[c] = "wait_ready" THEN "wait_saved"
                     ELSE IF pc[c] = "wait_saved" THEN "wait_set" ELSE "wait_restored")
        /\ \A d \in CPU \ {c} : pc'[d] = pc[d]
    BY <1>7 DEF BspReady, BspSet, BspRestore, WaitOver, LeadPc, BspPc, Inv, TypeOK, FrameType
  <2>2. Stage = pc[c] /\ FlowFits(Stage, Gathers) /\ Lead = {c}
    BY <2>1, LeaderFacts
  <2>3. NeedMtrrs
    BY <1>7, <2>1, <2>2 DEF FlowFits, BspSet, BspRestore, WaitOver
  <2>4. mtrr = IF pc[c] = "bsp_restore" THEN "smm" ELSE "os"
    BY <2>1, <2>2, <2>3, StageMtrr DEF MtrrInv, SmmMtrrPc, HandlersPc
  <2>5. pc[c] = "bsp_restore" => savedMtrr[c] = "os"
    BY <2>3 DEF MtrrInv, SavedPc, SmmMtrrPc
  <2>6. \A d \in CPU \ {c} : pc[d] \notin SmmMtrrPc
    BY <2>2 DEF Lead, SmmMtrrPc, HandlersPc, LeadPc, BspPc
  <2>7. /\ mtrr' = IF pc[c] = "wait_saved" THEN "smm" ELSE "os"
        /\ \A d \in CPU : savedMtrr'[d] = IF d = c /\ pc[c] = "wait_ready" THEN "os" ELSE savedMtrr[d]
    BY <1>7, <2>3, <2>4, <2>5 DEF BspReady, BspSet, BspRestore, WaitOver, Inv, TypeOK, TaskType
  <2>8. (\E b \in CPU : pc'[b] \in SmmMtrrPc) <=> pc[c] = "wait_saved"
    BY <2>1, <2>6 DEF SmmMtrrPc, HandlersPc
  <2>9. \A d \in CPU : /\ savedMtrr'[d] # "smm"
                       /\ pc'[d] \in SavedPc => savedMtrr'[d] = "os"
    <3> TAKE d \in CPU
    <3>1. CASE d = c
      BY <3>1, <2>1, <2>3, <2>7 DEF MtrrInv, SavedPc, SmmMtrrPc, HandlersPc
    <3>2. CASE d # c
      BY <3>2, <2>1, <2>3, <2>7 DEF MtrrInv
    <3> QED BY <3>1, <3>2
  <2> QED BY <2>3, <2>7, <2>8, <2>9 DEF MtrrInv
<1> QED BY <1>1, <1>2, <1>3, <1>4, <1>5, <1>6, <1>7 DEF BspStep

\* Every step keeps MtrrInv.
LEMMA NextMtrr ==
  ASSUME Inv, RunInv, MtrrInv, [Next]_vars
  PROVE  MtrrInv'
<1>1. ASSUME NEW c \in CPU, LeaveSmm(c) PROVE MtrrInv'
  <2>1. /\ pc'[c] = "normal" /\ pc[c] \in ExitPc /\ \A d \in CPU \ {c} : pc'[d] = pc[d]
        /\ mtrr' = mtrr
        /\ \A d \in CPU : savedMtrr'[d] = IF d = c THEN "none" ELSE savedMtrr[d]
    BY <1>1 DEF LeaveSmm, Inv, TypeOK, FrameType, TaskType
  <2>2. (\E b \in CPU : pc'[b] \in SmmMtrrPc) <=> (\E b \in CPU : pc[b] \in SmmMtrrPc)
    BY <2>1 DEF SmmMtrrPc, HandlersPc, ExitPc
  <2>3. "normal" \notin SavedPc
    BY DEF SavedPc, SmmMtrrPc, HandlersPc
  <2> QED BY <2>1, <2>2, <2>3 DEF MtrrInv
<1>2. ASSUME NEW c \in CPU, EnterSmm(c) \/ SampleBsp(c) \/ CheckIn(c) \/ BecomeBsp(c) \/ BecomeAp(c) PROVE MtrrInv'
  BY <1>2, MtrrKept DEF EnterSmm, SampleBsp, CheckIn, BecomeBsp, BecomeAp, mtrrVars,
                        SmmMtrrPc, HandlersPc, SavedPc
<1>3. ASSUME NEW c \in CPU, ServiceStep(c) PROVE MtrrInv'
  <2>1. ASSUME NEW d \in CPU, SmmBlockingStartupThisAp(c, d) PROVE MtrrInv'
    BY <2>1, MtrrKept DEF SmmBlockingStartupThisAp, Calling, mtrrVars, SmmMtrrPc, HandlersPc, SavedPc
  <2>2. CASE Unblock(c)
    BY <2>2, MtrrKept DEF Unblock, mtrrVars, SmmMtrrPc, HandlersPc, SavedPc
  <2>3. ASSUME UNCHANGED <<pc, mtrr, savedMtrr>> PROVE MtrrInv'
    BY <2>3 DEF MtrrInv
  <2> QED BY <1>3, <2>1, <2>2, <2>3
    DEF ServiceStep, SmmStartupThisAp, SmmSwitchBsp, SmmAddProcessor, SmmRemoveProcessor, SmmChangeSmmEnabling,
        SmmSyncSetMode, SmmCheckApArrival, SmmSendSmi, mtrrVars
<1>4. CASE SmiRaise \/ Idle \/ UNCHANGED vars
  BY <1>4 DEF SmiRaise, Idle, vars, mtrrVars, MtrrInv
<1> QED BY <1>1, <1>2, <1>3, <1>4, ApMtrr, BspMtrr DEF Next, CpuStep, EntryStep

\* Nobody backs up the SMM MTRRs as if they were the OS's, handlers and procedures
\* run with the SMM MTRRs, and the OS's are back before the next run can begin
\* (532-569, 653-669, 809-839, 908-924).
THEOREM MtrrsAreSwapped == ASSUME PromptWindows PROVE Spec => []MtrrsSwapped
<1>1. Init => MtrrInv
  BY DEF Init, MtrrInv, SavedPc, SmmMtrrPc, HandlersPc
<1>2. Inv /\ RunInv /\ MtrrInv /\ [Next]_vars => MtrrInv'
  BY NextMtrr
<1>3. ASSUME Inv, RunInv, MtrrInv PROVE MtrrsSwapped
  <2>1. ASSUME NeedMtrrs, NEW c \in CPU, pc[c] \in {"bsp_core", "bsp_block", "ap_run"} PROVE mtrr = "smm"
    <3>1. pc[c] = "ap_run" => owed[c] = 1 /\ Stage \in {"bsp_core", "bsp_block", "bsp_drain"}
      BY <1>3 DEF RunInv, TasksFit
    <3>2. pc[c] # "ap_run" => pc[c] \in SmmMtrrPc
      BY <2>1 DEF SmmMtrrPc, HandlersPc
    <3>3. \E b \in CPU : pc[b] \in SmmMtrrPc
      BY <1>3, <3>1, <3>2, StageMtrr DEF SmmMtrrPc, HandlersPc
    <3> QED BY <1>3, <2>1, <3>3 DEF MtrrInv
  <2>2. ASSUME NeedMtrrs, NEW c \in CPU, pc[c] = "bsp_open" PROVE mtrr = "os"
    <3>1. Stage = "bsp_open"
      BY <1>3, <2>2, LeaderFacts DEF LeadPc, BspPc
    <3> QED BY <1>3, <3>1, StageMtrr DEF MtrrInv, SmmMtrrPc, HandlersPc
  <2> QED BY <1>3, <2>1, <2>2 DEF MtrrsSwapped, MtrrInv
<1> QED BY <1>1, <1>2, <1>3, Barrier, PTL DEF Spec

-----------------------------------------------------------------------------
(* The gate                                                                *)

\* A step that the gate does not see: nobody joins or leaves the run or
\* BSPHandler, and neither the lock nor a dismissal changes.
LEMMA GateKept ==
  ASSUME TypeOK, NEW c \in CPU, NEW q, pc' = [pc EXCEPT ![c] = q],
         q \in CountedPc <=> pc[c] \in CountedPc,
         q \in LeadPc <=> pc[c] \in LeadPc,
         Counter' = Locked <=> Counter = Locked,
         Counter = Locked => InsideSmm' = InsideSmm
  PROVE  UNCHANGED Gate!gateVars
<1>1. pc'[c] = q /\ \A d \in CPU \ {c} : pc'[d] = pc[d]
  BY DEF TypeOK, FrameType
<1>2. Counted' = Counted /\ Lead' = Lead
  BY <1>1 DEF Counted, Lead
<1> QED BY <1>2 DEF Gate!gateVars

\* Checking in joins the members while the gate is open; being elected makes the
\* leader.
LEMMA GateEntry ==
  ASSUME Inv, RunInv, Inv', RunInv', NEW c \in CPU, EnterSmm(c) \/ EntryStep(c)
  PROVE  [Gate!Next]_Gate!gateVars
<1> USE DEF Inv
<1>1. CASE EnterSmm(c) \/ SampleBsp(c) \/ BecomeAp(c) \/ LeaveSmm(c)
  BY <1>1, GateKept DEF EnterSmm, SampleBsp, BecomeAp, LeaveSmm, runVars, CountedPc, LeadPc, BspPc, ApPc, ExitPc
<1>2. CASE CheckIn(c) /\ Counter = Locked
  BY <1>2, GateKept DEF CheckIn, Released, runVars, CountedPc, LeadPc, BspPc, ApPc
<1>3. CASE CheckIn(c) /\ Counter # Locked
  <2>1. /\ pc[c] = "checkin" /\ pc' = [pc EXCEPT ![c] = "route"] /\ UNCHANGED <<SyncMode, InsideSmm>>
        /\ pc[c] \notin LeadPc /\ "route" \notin LeadPc /\ pc[c] \notin CountedPc /\ "route" \in CountedPc
    BY <1>3 DEF CheckIn, runVars, frameVars, LeadPc, BspPc, CountedPc, ApPc
  <2>2. /\ Lead' = Lead /\ Stage' = Stage /\ Gathers' = Gathers
        /\ pc'[c] = "route" /\ \A d \in CPU \ {c} : pc'[d] = pc[d]
    BY <2>1, OtherMoves DEF RunInv
  <2>3. Counter' # Locked
    BY <1>3, <2>2 DEF RunInv, FlagsMean
  <2>4. c \notin Counted /\ Counted' = Counted \cup {c}
    BY <2>1, <2>2 DEF Counted
  <2>5. Gate!Join(c)
    BY <1>3, <2>2, <2>3, <2>4 DEF Gate!Join
  <2> QED BY <2>5 DEF Gate!Next
<1>4. CASE BecomeBsp(c)
  <2>1. pc[c] = "route" /\ pc'[c] = "bsp_enter" /\ (\A d \in CPU \ {c} : pc'[d] = pc[d]) /\ Counter' = Counter
    BY <1>4 DEF BecomeBsp, TypeOK, FrameType
  <2>2. Lead = {}
    BY <1>4, NobodyBefore
  <2>3. Leader = NoBsp /\ Leader' = c
    <3>1. pc'[c] \in LeadPc
      BY <2>1 DEF LeadPc, BspPc
    <3>2. Leader' = c
      <4>1. Lead' = {c}
        BY <2>1, <2>2, <3>1 DEF Lead
      <4> QED BY <4>1 DEF Leader
    <3> QED BY <2>2, <3>2 DEF Leader
  <2>4. Counter # Locked
    <3>1. Stage = "none"
      BY <2>2 DEF Stage
    <3> QED BY <3>1 DEF RunInv, FlagsMean, Shut, ClosedPc, HandlersPc
  <2>5. c \in Counted /\ Counted' = Counted
    BY <2>1 DEF Counted, CountedPc, ApPc, BspPc
  <2>6. Gate!Lead(c)
    BY <2>1, <2>3, <2>4, <2>5 DEF Gate!Lead, Leader
  <2> QED BY <2>6 DEF Gate!Next
<1> QED BY <1>1, <1>2, <1>3, <1>4 DEF EntryStep

\* A member that gives up leaves an open gate, one that is done a gate that has
\* dismissed it.
LEMMA GateAp ==
  ASSUME Inv, RunInv, Inv', RunInv', NEW c \in CPU, ApStep(c)
  PROVE  [Gate!Next]_Gate!gateVars
<1> USE DEF Inv
<1>1. CASE ApSeesBsp(c) \/ ApTimeout1(c) \/ ApTimeout2(c) \/ ApPresent(c) \/ ApArrive(c)
  BY <1>1, GateKept DEF ApSeesBsp, ApTimeout1, ApTimeout2, ApPresent, ApArrive, GatherFirst, runVars,
                        CountedPc, LeadPc, BspPc, ApPc
<1>2. CASE ApSave(c) \/ ApSet(c) \/ ApWake(c) \/ ApCheck(c) \/ ApRun(c)
  BY <1>2, GateKept DEF ApSave, ApSet, ApWake, ApCheck, ApRun, runVars, CountedPc, LeadPc, BspPc, ApPc
<1>3. CASE ApLeave(c) \/ ApRestore(c) \/ ApReady(c) \/ ApReset(c)
  BY <1>3, GateKept DEF ApLeave, ApRestore, ApReady, ApReset, runVars, CountedPc, LeadPc, BspPc, ApPc
<1>4. CASE ApGiveUp(c) \/ ApDone(c)
  <2>1. /\ pc[c] \in {"ap_giveup", "ap_done"} /\ pc' = [pc EXCEPT ![c] = "exitwait"]
        /\ UNCHANGED <<SyncMode, InsideSmm>>
        /\ pc[c] = "ap_done" => Counter' = Counter
    BY <1>4 DEF ApGiveUp, ApDone, runVars, frameVars
  <2>2. /\ pc[c] \in MemberPc /\ pc[c] \notin LeadPc /\ "exitwait" \notin LeadPc
        /\ pc[c] \in CountedPc /\ "exitwait" \notin CountedPc
    BY <2>1 DEF LeadPc, BspPc, CountedPc, ApPc, MemberPc
  <2>3. /\ Lead' = Lead /\ Leader' = Leader /\ Stage' = Stage /\ Gathers' = Gathers
        /\ pc'[c] = "exitwait" /\ \A d \in CPU \ {c} : pc'[d] = pc[d]
    BY <2>1, <2>2, OtherMoves DEF RunInv
  <2>4. c \in Counted /\ Counted' = Counted \ {c}
    BY <2>2, <2>3 DEF Counted
  <2>5. Fits(Stage, Gathers, pc[c]) /\ FlowFits(Stage, Gathers) /\ Stage \in LeadPc \cup {"none"} /\ (InsideSmm <=> Stage \in InsidePc)
    BY <2>2, MemberFacts
  <2>6. c # Leader
    <3>1. NoBsp \notin CPU
      BY CpuAssumption
    <3> QED BY <2>2, <3>1, MemberFacts, NobodyLeads, StageType DEF RunInv
  <2>7. CASE pc[c] = "ap_giveup"
    <3>1. Stage \in {"none", "bsp_enter", "bsp_clear"}
      BY <2>5, <2>7 DEF Fits, FlowFits, LeadPc, BspPc, ArrivalPc, HandlersPc
    <3>2. ~Shut(Stage, Gathers)
      BY <3>1 DEF Shut, ClosedPc, HandlersPc
    <3>3. Counter # Locked /\ Counter' # Locked
      BY <2>3, <3>2 DEF RunInv, FlagsMean
    <3>4. Gate!GiveUp(c)
      BY <2>3, <2>4, <2>6, <3>3 DEF Gate!GiveUp, Leader
    <3> QED BY <3>4 DEF Gate!Next
  <2>8. CASE pc[c] = "ap_done"
    <3>1. Stage = "wait_reset"
      BY <2>5, <2>8 DEF Fits, FlowFits, LeadPc, BspPc, ArrivalPc, HandlersPc
    <3>2. Counter = Locked /\ ~InsideSmm
      BY <2>5, <3>1 DEF RunInv, FlagsMean, Shut, ClosedPc, InsidePc, HandlersPc
    <3>3. Gate!Leave(c)
      BY <2>1, <2>3, <2>4, <2>6, <2>8, <3>2 DEF Gate!Leave, Leader
    <3> QED BY <3>3 DEF Gate!Next
  <2> QED BY <2>1, <2>7, <2>8
<1> QED BY <1>1, <1>2, <1>3, <1>4 DEF ApStep

\* Locking Counter closes the gate, clearing InsideSmm dismisses the members, and
\* storing 0 in Counter opens it again.
LEMMA GateBsp ==
  ASSUME Inv, RunInv, Inv', RunInv', NEW c \in CPU, BspStep(c)
  PROVE  [Gate!Next]_Gate!gateVars
<1> USE DEF Inv
<1>1. CASE BspClear(c) \/ BspArrival(c) \/ BspInSync(c) \/ BspReady(c) \/ BspSet(c) \/ BspAllSet(c)
  BY <1>1, GateKept DEF BspClear, BspArrival, BspInSync, BspReady, BspSet, BspAllSet, WaitOver, GatherFirst, runVars,
                        CountedPc, LeadPc, BspPc, ApPc
<1>2. CASE BspCoreEntry(c) \/ BspCoreReturn(c) \/ BspDrain(c) \/ BspAllPresent(c) \/ BspNotify(c)
  BY <1>2, GateKept DEF BspCoreEntry, BspCoreReturn, BspDrain, BspAllPresent, BspNotify, GatherFirst, runVars,
                        CountedPc, LeadPc, BspPc, ApPc
<1>3. CASE BspSetMode(c) \/ BspRestore(c) \/ BspAllRestored(c) \/ BspReset(c) \/ BspUnelect(c) \/ BspResync(c)
  BY <1>3, GateKept DEF BspSetMode, BspRestore, BspAllRestored, BspReset, BspUnelect, BspResync, WaitOver, runVars,
                        CountedPc, LeadPc, BspPc, ApPc
<1>4. CASE WaitForAllAPs(c)
  BY <1>4 DEF WaitForAllAPs, runVars, Gate!gateVars, Counted, Lead
<1>5. CASE BspEnter(c)
  <2>1. pc[c] = "bsp_enter" /\ pc[c] \in LeadPc
    BY <1>5 DEF BspEnter, LeadPc, BspPc
  <2>2. Stage = "bsp_enter"
    BY <2>1, LeaderFacts
  <2>3. Counter # Locked
    BY <2>2 DEF RunInv, FlagsMean, Shut, ClosedPc, HandlersPc
  <2> QED BY <1>5, <2>3, GateKept DEF BspEnter, CountedPc, LeadPc, BspPc, ApPc
<1>6. CASE BspLock(c) \/ BspExit(c)
  <2>1. /\ pc[c] \in {"bsp_lock", "bsp_exit"} /\ pc[c] \in LeadPc
        /\ pc'[c] \in LeadPc /\ \A d \in CPU \ {c} : pc'[d] = pc[d]
    BY <1>6 DEF BspLock, BspExit, LeadPc, BspPc, TypeOK, FrameType
  <2>2. Stage = pc[c] /\ Leader = c /\ Leader # NoBsp
    BY <2>1, LeaderFacts, CpuAssumption
  <2>3. InsideSmm /\ (Counter = Locked <=> pc[c] = "bsp_exit")
    BY <2>1, <2>2 DEF RunInv, FlagsMean, Shut, ClosedPc, InsidePc, HandlersPc
  <2>4. Counted' = Counted /\ Lead' = Lead
    BY <2>1 DEF Counted, CountedPc, LeadPc, Lead
  <2>5. CASE BspLock(c)
    <3>1. pc[c] = "bsp_lock" /\ Counter' = Locked /\ InsideSmm' = InsideSmm
      BY <2>5 DEF BspLock, runVars
    <3>2. Gate!Close
      BY <2>2, <2>3, <2>4, <3>1 DEF Gate!Close, Leader
    <3> QED BY <3>2 DEF Gate!Next
  <2>6. CASE BspExit(c)
    <3>1. pc[c] = "bsp_exit" /\ Counter' = Counter /\ ~InsideSmm'
      BY <2>6 DEF BspExit
    <3>2. Gate!Dismiss
      BY <2>3, <2>4, <3>1 DEF Gate!Dismiss
    <3> QED BY <3>2 DEF Gate!Next
  <2> QED BY <1>6, <2>5, <2>6
<1>7. CASE BspOpen(c)
  <2>1. /\ pc[c] = "bsp_open" /\ pc[c] \in LeadPc
        /\ pc'[c] = "bsp_resync" /\ \A d \in CPU \ {c} : pc'[d] = pc[d]
    BY <1>7 DEF BspOpen, LeadPc, BspPc, TypeOK, FrameType
  <2>2. Stage = "bsp_open" /\ Leader = c /\ Lead = {c}
    BY <2>1, LeaderFacts
  <2>3. Counter = Locked /\ ~InsideSmm /\ Counter' # Locked
    <3>1. Counter = Locked /\ ~InsideSmm
      BY <2>2 DEF RunInv, FlagsMean, Shut, ClosedPc, InsidePc, HandlersPc
    <3>2. Counter' = 0 /\ Locked # 0
      <4>1. Cardinality(CPU) \in Nat
        BY CpuAssumption, FS_CardinalityType
      <4> QED BY <1>7, <4>1, LockedAssumption DEF BspOpen
    <3> QED BY <3>1, <3>2
  <2>4. \A d \in CPU : pc[d] \notin MemberPc
    BY <2>2 DEF RunInv, PhasesAgree, Fits
  <2>5. Counted = {c} /\ Counted' = {} /\ Lead' = {}
    <3>1. \A p \in CountedPc : p \in MemberPc \/ p \in LeadPc
      BY DEF CountedPc, MemberPc, LeadPc
    <3>2. \A d \in CPU : pc[d] \in CountedPc => d = c
      BY <2>2, <2>4, <3>1 DEF Lead
    <3>3. pc[c] \in CountedPc /\ pc'[c] \notin CountedPc /\ pc'[c] \notin LeadPc
      BY <2>1 DEF CountedPc, LeadPc, BspPc, ApPc
    <3> QED BY <2>1, <2>2, <3>2, <3>3 DEF Counted, Lead
  <2>6. Gate!Reopen
    BY <2>2, <2>3, <2>5 DEF Gate!Reopen, Leader
  <2> QED BY <2>6 DEF Gate!Next
<1> QED BY <1>1, <1>2, <1>3, <1>4, <1>5, <1>6, <1>7 DEF BspStep

\* The services of the SMM CPU protocol do nothing that the gate sees.
LEMMA GateService ==
  ASSUME Inv, NEW c \in CPU, ServiceStep(c)
  PROVE  UNCHANGED Gate!gateVars
<1> USE DEF Inv
<1>1. ASSUME NEW d \in CPU, SmmBlockingStartupThisAp(c, d) PROVE UNCHANGED Gate!gateVars
  BY <1>1, GateKept DEF SmmBlockingStartupThisAp, Calling, runVars, CountedPc, LeadPc, BspPc, ApPc
<1>2. CASE Unblock(c)
  BY <1>2, GateKept DEF Unblock, runVars, CountedPc, LeadPc, BspPc, ApPc
<1>3. ASSUME UNCHANGED <<pc, Counter, InsideSmm>> PROVE UNCHANGED Gate!gateVars
  BY <1>3 DEF Gate!gateVars, Counted, Lead
<1> QED BY <1>1, <1>2, <1>3
  DEF ServiceStep, SmmStartupThisAp, SmmSwitchBsp, SmmAddProcessor, SmmRemoveProcessor, SmmChangeSmmEnabling,
      SmmSyncSetMode, SmmCheckApArrival, SmmSendSmi, runVars

\* The rendezvous implements SmiGate: nobody enters or leaves while the gate is
\* closed, there is one leader at a time, and the leader opens the gate again
\* (468-946, 1236-1426).
THEOREM RendezvousImplementsGate == ASSUME PromptWindows PROVE Spec => ImplementsGate
<1>1. ASSUME Init PROVE Gate!Init
  <2>1. Counter = 0 /\ Locked # 0
    <3>1. Cardinality(CPU) \in Nat
      BY CpuAssumption, FS_CardinalityType
    <3> QED BY <1>1, <3>1, LockedAssumption DEF Init
  <2>2. Counted = {} /\ Lead = {}
    BY <1>1 DEF Init, Counted, Lead, CountedPc, LeadPc, BspPc, ApPc
  <2> QED BY <2>1, <2>2 DEF Gate!Init
<1>2. Inv /\ RunInv /\ (Inv /\ RunInv)' /\ [Next]_vars => [Gate!Next]_Gate!gateVars
  <2> SUFFICES ASSUME Inv, RunInv, Inv', RunInv', [Next]_vars PROVE [Gate!Next]_Gate!gateVars
    OBVIOUS
  <2>1. CASE SmiRaise \/ Idle \/ UNCHANGED vars
    <3>1. UNCHANGED <<pc, Counter, InsideSmm>>
      BY <2>1 DEF SmiRaise, Idle, vars, runVars
    <3>2. UNCHANGED Gate!gateVars
      BY <3>1 DEF Gate!gateVars, Counted, Lead
    <3> QED BY <3>2
  <2>2. ASSUME NEW c \in CPU, EnterSmm(c) \/ CpuStep(c) PROVE [Gate!Next]_Gate!gateVars
    <3>1. CASE EnterSmm(c) \/ EntryStep(c)
      BY <3>1, GateEntry
    <3>2. CASE ApStep(c)
      BY <3>2, GateAp
    <3>3. CASE BspStep(c)
      BY <3>3, GateBsp
    <3>4. CASE ServiceStep(c)
      BY <3>4, GateService
    <3> QED BY <2>2, <3>1, <3>2, <3>3, <3>4 DEF CpuStep
  <2> QED BY <2>1, <2>2 DEF Next
<1> QED BY <1>1, <1>2, Barrier, PTL DEF Spec, Gate!Spec, ImplementsGate

-----------------------------------------------------------------------------
(* The operating system while SMI handlers run                             *)

\* BSPHandler while no operation of the SMM CPU service is pending, and, when
\* it gathers first, from the end of SmmWaitForApArrival to the handlers.
QuietPc == {"none", "bsp_enter", "bsp_clear", "bsp_arrival", "wait_reset", "bsp_open"}
StoppedPc == {"bsp_insync", "bsp_lock", "wait_ready", "wait_saved", "wait_set", "bsp_entry",
              "bsp_core", "bsp_block"}
ArrivingPc == {"sampled", "checkin"}

\* A processor that will not execute normal-mode code before the run ends.
Stopped(d) == \/ smiPending[d] \/ pc[d] \in ArrivingPc \cup CountedPc
              \/ pc[d] = "quit" /\ AllCpusInSync

\* Between two runs and while a run begins no operation of the SMM CPU service is
\* pending; a processor on its way in or in the run is one that SMM knows; and
\* from the end of SmmWaitForApArrival to the handlers all the processors that
\* SMM knows are stopped (332-335, 396-411, 475-531).
StopInv ==
  /\ Stage \in QuietPc => \A d \in CPU : Operation[d] = "none"
  /\ \A d \in CPU : pc[d] \in ArrivingPc => ProcessorId[d]
  /\ Stage \notin {"wait_reset", "bsp_open"} =>
       \A d \in CPU : pc[d] \in CountedPc => ProcessorId[d] \/ Operation[d] = "remove"
  /\ Gathers /\ Stage \in StoppedPc =>
       \A d \in CPU : ProcessorId[d] /\ Operation[d] # "add" => Stopped(d)

\* A processor moves that is not the leader before or afterwards.
LEMMA StopOther ==
  ASSUME Inv, RunInv, StopInv, NEW c \in CPU, NEW q, pc[c] \notin LeadPc, q \notin LeadPc,
         pc' = [pc EXCEPT ![c] = q], \A d \in Lead : SyncMode'[d] = SyncMode[d],
         UNCHANGED <<ProcessorId, Operation>>,
         \A d \in CPU \ {c} : smiPending[d] => smiPending'[d],
         AllCpusInSync' = AllCpusInSync \/ Stage \notin StoppedPc,
         q \in ArrivingPc => ProcessorId[c],
         q \in CountedPc => pc[c] \in CountedPc \cup ArrivingPc,
         Gathers /\ Stage \in StoppedPc /\ Stopped(c) =>
           smiPending'[c] \/ q \in ArrivingPc \cup CountedPc \/ (q = "quit" /\ AllCpusInSync)
  PROVE  StopInv'
<1>1. /\ Stage' = Stage /\ Gathers' = Gathers /\ pc'[c] = q /\ \A d \in CPU \ {c} : pc'[d] = pc[d]
  BY OtherMoves DEF Inv, RunInv
<1>2. Stage' \in QuietPc => \A d \in CPU : Operation'[d] = "none"
  BY <1>1 DEF StopInv
<1>3. \A d \in CPU : pc'[d] \in ArrivingPc => ProcessorId'[d]
  BY <1>1 DEF StopInv
<1>4. Stage' \notin {"wait_reset", "bsp_open"} =>
        \A d \in CPU : pc'[d] \in CountedPc => ProcessorId'[d] \/ Operation'[d] = "remove"
  BY <1>1 DEF StopInv
<1>5. ASSUME Gathers, Stage \in StoppedPc, NEW d \in CPU, ProcessorId'[d] /\ Operation'[d] # "add"
      PROVE  Stopped(d)'
  <2>1. Stopped(d) /\ AllCpusInSync' = AllCpusInSync
    BY <1>5 DEF StopInv
  <2>2. CASE d = c
    BY <1>1, <1>5, <2>1, <2>2 DEF Stopped
  <2>3. CASE d # c
    BY <1>1, <2>1, <2>3 DEF Stopped
  <2> QED BY <2>2, <2>3
<1> QED BY <1>1, <1>2, <1>3, <1>4, <1>5 DEF StopInv

\* The BSP moves on in BSPHandler.
LEMMA StopLeader ==
  ASSUME Inv, RunInv, StopInv, NEW c \in CPU, NEW q \in LeadPc, pc[c] \in LeadPc,
         pc' = [pc EXCEPT ![c] = q], UNCHANGED <<SyncMode, ProcessorId>>,
         AllCpusInSync => AllCpusInSync',
         \A d \in CPU : smiPending[d] => smiPending'[d],
         q \in QuietPc => \/ pc[c] \in QuietPc /\ Operation' = Operation
                          \/ \A d \in CPU : Operation'[d] = "none",
         q \notin {"wait_reset", "bsp_open"} =>
           pc[c] \notin {"wait_reset", "bsp_open"} /\ Operation' = Operation,
         Gathers /\ q \in StoppedPc =>
           \/ pc[c] \in StoppedPc
           \/ \A d \in CPU : ProcessorId[d] => smiPending'[d] \/ pc[d] \in CountedPc
  PROVE  StopInv'
<1>1. Lead = {c} /\ Stage = pc[c] /\ (Gathers <=> GatherFirst(c))
  BY LeaderIs DEF RunInv
<1>2. pc'[c] = q /\ \A d \in CPU \ {c} : pc'[d] = pc[d]
  BY DEF Inv, TypeOK, FrameType
<1>3. Stage' = q /\ Gathers' = Gathers
  <2>1. Lead' = {c}
    BY <1>1, <1>2 DEF Lead
  <2>2. Leader' = c
    BY <2>1 DEF Leader
  <2>3. Stage' = q
    BY <1>2, <2>1, <2>2 DEF Stage
  <2>4. Gathers' = GatherFirst(c) /\ Gathers = GatherFirst(c)
    BY <1>1, <2>1, <2>2 DEF Gathers, GatherFirst
  <2> QED BY <2>3, <2>4
<1>4. /\ pc[c] \in CountedPc /\ q \in CountedPc /\ q \notin ArrivingPc
      /\ q \in StoppedPc => q \notin {"wait_reset", "bsp_open"}
  BY DEF LeadPc, BspPc, CountedPc, ArrivingPc, StoppedPc
<1>5. q \in QuietPc => \A d \in CPU : Operation'[d] = "none"
  BY <1>1 DEF StopInv
<1>6. \A d \in CPU : pc'[d] \in ArrivingPc => ProcessorId'[d]
  BY <1>2, <1>4 DEF StopInv
<1>7. q \notin {"wait_reset", "bsp_open"} =>
        \A d \in CPU : pc'[d] \in CountedPc => ProcessorId'[d] \/ Operation'[d] = "remove"
  BY <1>1, <1>2, <1>4 DEF StopInv
<1>8. ASSUME Gathers, q \in StoppedPc, NEW d \in CPU, ProcessorId'[d] /\ Operation'[d] # "add"
      PROVE  Stopped(d)'
  <2>1. d = c \/ Stopped(d) \/ smiPending'[d] \/ pc[d] \in CountedPc
    BY <1>1, <1>4, <1>8 DEF StopInv
  <2>2. CASE d = c
    BY <1>2, <1>4, <2>2 DEF Stopped
  <2>3. CASE d # c
    BY <1>2, <2>1, <2>3 DEF Stopped
  <2> QED BY <2>2, <2>3
<1> QED BY <1>3, <1>5, <1>6, <1>7, <1>8 DEF StopInv

\* SmmWaitForApArrival: the processors that are not in the run get an SMI, or
\* all that SMM knows are in the run.
LEMMA AllStop ==
  ASSUME Inv, RunInv, PlugInv, StopInv, NEW c \in CPU, pc[c] = "bsp_arrival", SmmWaitForApArrival
  PROVE  \A d \in CPU : /\ ProcessorId[d] => smiPending'[d] \/ pc[d] \in CountedPc
                        /\ smiPending[d] => smiPending'[d]
<1>1. Stage = "bsp_arrival" /\ Counter # Locked
  <2>1. Stage = "bsp_arrival"
    BY LeaderIs DEF RunInv, LeadPc, BspPc
  <2> QED BY <2>1 DEF RunInv, FlagsMean, Shut, ClosedPc, HandlersPc
<1>2. CASE Counter < mNumberOfCpus
  <2>1. \A d \in CPU : smiPending'[d] = (smiPending[d] \/ (~Present[d] /\ ProcessorId[d]))
    BY <1>2 DEF SmmWaitForApArrival, SendSmiIpi
  <2>2. \A d \in CPU : Present[d] => pc[d] \in CountedPc
    BY DEF RunInv, FlagsMean, PresentPc, LeadPc, CountedPc, ApPc, BspPc
  <2> QED BY <2>1, <2>2
<1>3. CASE ~(Counter < mNumberOfCpus)
  <2>1. \A d \in CPU : Operation[d] = "none"
    BY <1>1 DEF StopInv, QuietPc
  <2>2. PendingOps("add") = {} /\ PendingOps("remove") = {}
    BY <2>1 DEF PendingOps
  <2>3. mNumberOfCpus = Cardinality(Known)
    BY <2>2, FS_EmptySet, PlugFinite DEF PlugInv, CpusAccountedFor, Known, Inv, TypeOK, PlugType
  <2>4. Counter = Cardinality(Counted)
    BY <1>1 DEF RunInv, Balance, CounterCounts
  <2>5. Counted \subseteq Known
    BY <1>1, <2>1 DEF StopInv, Counted, Known
  <2>6. Cardinality(Counted) \in Nat /\ Cardinality(Counted) <= Cardinality(Known)
        /\ (Cardinality(Counted) = Cardinality(Known) => Counted = Known)
    BY <2>5, PlugFinite, FS_Subset, FS_CardinalityType
  <2>7. Counted = Known
    BY <1>3, <2>3, <2>4, <2>6, PlugFinite
  <2> QED BY <1>3, <2>7 DEF SmmWaitForApArrival, hwVars, Counted, Known
<1> QED BY <1>2, <1>3

\* Nobody goes back to the OS while AllCpusInSync is set (1288-1296).
LEMMA EntryStop ==
  ASSUME Inv, RunInv, StopInv, NEW c \in CPU, EnterSmm(c) \/ EntryStep(c)
  PROVE  StopInv'
<1> USE DEF ArrivingPc, LeadPc, BspPc, CountedPc, ApPc
<1>1. Gathers /\ Stage \in StoppedPc => InsideSmm
  BY DEF RunInv, FlagsMean, StoppedPc, InsidePc, HandlersPc
<1>2. CASE EnterSmm(c)
  <2>1. /\ pc[c] = "normal" /\ pc' = [pc EXCEPT ![c] = "sampled"] /\ ProcessorId[c]
        /\ UNCHANGED <<SyncMode, ProcessorId, Operation, AllCpusInSync>>
        /\ \A d \in CPU \ {c} : smiPending'[d] = smiPending[d]
    BY <1>2 DEF EnterSmm, CanEnter, runVars, plugVars, Inv, TypeOK, HwType
  <2> QED BY <2>1, StopOther
<1>3. CASE SampleBsp(c)
  <2>1. /\ pc[c] = "sampled" /\ pc' = [pc EXCEPT ![c] = IF InsideSmm \/ ValidSmi[c] THEN "checkin" ELSE "normal"]
        /\ UNCHANGED <<SyncMode, ProcessorId, Operation, AllCpusInSync, smiPending>>
    BY <1>3 DEF SampleBsp, runVars, plugVars, hwVars
  <2>2. ProcessorId[c]
    BY <2>1 DEF StopInv
  <2>3. CASE InsideSmm \/ ValidSmi[c]
    BY <2>1, <2>2, <2>3, StopOther
  <2>4. CASE ~(InsideSmm \/ ValidSmi[c])
    BY <1>1, <2>1, <2>4, StopOther
  <2> QED BY <2>3, <2>4
<1>4. CASE CheckIn(c)
  <2>1. Counter = Locked => AllCpusInSync
    BY DEF RunInv, FlagsMean
  <2> QED BY <1>4, <2>1, StopOther DEF CheckIn, runVars, plugVars, hwVars, frameVars, StopInv
<1>5. CASE BecomeAp(c)
  <2>1. /\ pc[c] = "route" /\ pc' = [pc EXCEPT ![c] = "ap_wait1"]
        /\ UNCHANGED <<ProcessorId, Operation, AllCpusInSync, smiPending>>
        /\ \A d \in CPU \ {c} : SyncMode'[d] = SyncMode[d]
    BY <1>5 DEF BecomeAp, runVars, plugVars, hwVars, Inv, TypeOK, FrameType
  <2>2. \A d \in Lead : SyncMode'[d] = SyncMode[d]
    BY <2>1 DEF Lead
  <2> QED BY <2>1, <2>2, StopOther
<1>6. CASE LeaveSmm(c)
  <2>1. /\ pc[c] \in {"quit", "exitwait"} /\ ~AllCpusInSync /\ pc' = [pc EXCEPT ![c] = "normal"]
        /\ UNCHANGED <<ProcessorId, Operation, AllCpusInSync, smiPending>>
        /\ \A d \in CPU \ {c} : SyncMode'[d] = SyncMode[d]
    BY <1>6 DEF LeaveSmm, ExitPc, runVars, plugVars, hwVars, Inv, TypeOK, FrameType
  <2>2. \A d \in Lead : SyncMode'[d] = SyncMode[d]
    BY <2>1 DEF Lead
  <2>3. Stopped(c) => smiPending'[c]
    BY <2>1 DEF Stopped
  <2> QED BY <2>1, <2>2, <2>3, StopOther
<1>7. CASE BecomeBsp(c)
  <2>1. /\ pc[c] = "route" /\ pc'[c] = "bsp_enter" /\ \A d \in CPU \ {c} : pc'[d] = pc[d]
        /\ UNCHANGED <<ProcessorId, Operation>>
    BY <1>7 DEF BecomeBsp, plugVars, Inv, TypeOK, FrameType
  <2>2. Lead = {}
    BY <1>7, NobodyBefore
  <2>3. Stage = "none"
    BY <2>2 DEF Stage
  <2>4. Stage' = "bsp_enter"
    <3>1. Lead' = {c}
      BY <2>1, <2>2 DEF Lead
    <3>2. Leader' = c
      BY <3>1 DEF Leader
    <3> QED BY <2>1, <3>1, <3>2 DEF Stage
  <2>5. \A d \in CPU : Operation'[d] = "none"
    BY <2>1, <2>3 DEF StopInv, QuietPc
  <2>6. \A d \in CPU : /\ pc'[d] \in ArrivingPc => ProcessorId'[d]
                       /\ pc'[d] \in CountedPc => ProcessorId'[d] \/ Operation'[d] = "remove"
    BY <2>1, <2>3 DEF StopInv
  <2> QED BY <2>4, <2>5, <2>6 DEF StopInv, StoppedPc
<1> QED BY <1>2, <1>3, <1>4, <1>5, <1>6, <1>7 DEF EntryStep

\* Only an AP that gives up and one that is dismissed leave the run, the first
\* before it can be counted, the second after the handlers.
LEMMA ApStop ==
  ASSUME Inv, RunInv, StopInv, NEW c \in CPU, ApStep(c)
  PROVE  StopInv'
<1> USE DEF ArrivingPc, LeadPc, BspPc, CountedPc, ApPc
<1>1. CASE ApSeesBsp(c) \/ ApTimeout1(c) \/ ApTimeout2(c) \/ ApPresent(c) \/ ApArrive(c)
  BY <1>1, StopOther DEF ApSeesBsp, ApTimeout1, ApTimeout2, ApPresent, ApArrive, GatherFirst, SendSmiIpi,
                         hwVars, runVars, plugVars, frameVars
<1>2. CASE ApSave(c) \/ ApSet(c) \/ ApWake(c) \/ ApCheck(c) \/ ApRun(c)
  BY <1>2, StopOther DEF ApSave, ApSet, ApWake, ApCheck, ApRun, hwVars, runVars, plugVars, frameVars
<1>3. CASE ApLeave(c) \/ ApRestore(c) \/ ApReady(c) \/ ApReset(c)
  BY <1>3, StopOther DEF ApLeave, ApRestore, ApReady, ApReset, hwVars, runVars, plugVars, frameVars
<1>4. CASE ApGiveUp(c) \/ ApDone(c)
  <2>1. /\ pc[c] \in {"ap_giveup", "ap_done"} /\ pc' = [pc EXCEPT ![c] = "exitwait"]
        /\ UNCHANGED <<SyncMode, AllCpusInSync, ProcessorId, Operation, smiPending>>
    BY <1>4 DEF ApGiveUp, ApDone, hwVars, runVars, plugVars, frameVars
  <2>2. pc[c] \in MemberPc /\ pc[c] \notin LeadPc /\ "exitwait" \notin LeadPc
    BY <2>1 DEF MemberPc
  <2>3. Fits(Stage, Gathers, pc[c]) /\ FlowFits(Stage, Gathers)
    BY <2>2, MemberFacts
  <2>4. Stage \notin StoppedPc
    BY <2>1, <2>3 DEF Fits, FlowFits, ArrivalPc, HandlersPc, StoppedPc
  <2> QED BY <2>1, <2>2, <2>4, StopOther
<1> QED BY <1>1, <1>2, <1>3, <1>4 DEF ApStep

\* The BSP comes to the handlers by way of SmmWaitForApArrival.
LEMMA BspStop ==
  ASSUME Inv, RunInv, PlugInv, StopInv, NEW c \in CPU, BspStep(c)
  PROVE  StopInv'
<1> USE DEF LeadPc, BspPc, QuietPc, StoppedPc, hwVars, runVars, plugVars, frameVars
<1>1. CASE BspEnter(c) \/ BspClear(c) \/ BspReady(c) \/ BspSet(c) \/ BspAllSet(c) \/ BspCoreEntry(c)
  <2>1. BspClear(c) => GatherFirst(c) \/ ~Gathers
    BY LeaderFacts DEF BspClear
  <2> QED BY <1>1, <2>1, StopLeader DEF BspEnter, BspClear, BspReady, BspSet, BspAllSet, BspCoreEntry, WaitOver, GatherFirst
<1>2. CASE BspArrival(c)
  <2>1. pc[c] = "bsp_arrival" /\ pc' = [pc EXCEPT ![c] = "bsp_insync"] /\ SmmWaitForApArrival
        /\ UNCHANGED <<SyncMode, ProcessorId, Operation, AllCpusInSync>>
    BY <1>2 DEF BspArrival
  <2>2. \A d \in CPU : /\ ProcessorId[d] => smiPending'[d] \/ pc[d] \in CountedPc
                       /\ smiPending[d] => smiPending'[d]
    BY <2>1, AllStop
  <2> QED BY <2>1, <2>2, StopLeader
<1>3. CASE BspInSync(c) \/ BspLock(c)
  BY <1>3, StopLeader DEF BspInSync, BspLock, GatherFirst
<1>4. CASE BspCoreReturn(c) \/ BspDrain(c)
  <2>1. BspDrain(c) => GatherFirst(c) \/ ~Gathers
    BY LeaderFacts DEF BspDrain
  <2> QED BY <1>4, <2>1, StopLeader DEF BspCoreReturn, BspDrain, ClearSmi, GatherFirst
<1>5. CASE BspAllPresent(c) \/ BspExit(c) \/ BspNotify(c) \/ BspSetMode(c) \/ BspRestore(c) \/ BspAllRestored(c)
  BY <1>5, StopLeader DEF BspAllPresent, BspExit, BspNotify, BspSetMode, BspRestore, BspAllRestored, WaitOver
<1>6. CASE BspReset(c) \/ BspUnelect(c)
  BY <1>6, StopLeader DEF BspReset, SmmCpuUpdate, BspUnelect, WaitOver
<1>7. CASE WaitForAllAPs(c)
  BY <1>7 DEF WaitForAllAPs, StopInv, Stage, Gathers, GatherFirst, Leader, Lead, Stopped
<1>8. CASE BspOpen(c)
  <2>1. /\ pc[c] = "bsp_open" /\ pc[c] \in LeadPc
        /\ pc'[c] = "bsp_resync" /\ \A d \in CPU \ {c} : pc'[d] = pc[d]
        /\ UNCHANGED <<ProcessorId, Operation>>
    BY <1>8 DEF BspOpen, Inv, TypeOK, FrameType
  <2>2. Stage = "bsp_open" /\ Lead = {c}
    BY <2>1, LeaderFacts
  <2>3. Stage' = "none"
    <3>1. Lead' = {}
      BY <2>1, <2>2 DEF Lead
    <3> QED BY <3>1 DEF Stage
  <2>4. \A d \in CPU : Operation'[d] = "none"
    BY <2>1, <2>2 DEF StopInv
  <2>5. \A d \in CPU : pc'[d] \in ArrivingPc => ProcessorId'[d]
    BY <2>1 DEF StopInv, ArrivingPc
  <2>6. \A d \in CPU : pc'[d] \notin CountedPc
    <3>1. \A d \in CPU : pc[d] \notin MemberPc
      BY <2>2 DEF RunInv, PhasesAgree, Fits
    <3>2. \A p \in CountedPc : p \in MemberPc \/ p \in LeadPc
      BY DEF CountedPc, MemberPc
    <3>3. pc'[c] \notin CountedPc
      BY <2>1 DEF CountedPc, ApPc
    <3> QED BY <2>1, <2>2, <3>1, <3>2, <3>3 DEF Lead
  <2> QED BY <2>3, <2>4, <2>5, <2>6 DEF StopInv
<1>9. CASE BspResync(c)
  <2>1. Stage \notin StoppedPc
    BY <1>9 DEF BspResync, RunInv, OneRun
  <2> QED BY <1>9, <2>1, StopOther DEF BspResync, CountedPc, ApPc, ArrivingPc
<1> QED BY <1>1, <1>2, <1>3, <1>4, <1>5, <1>6, <1>7, <1>8, <1>9 DEF BspStep

\* The services that add and remove processors mark them, and the marks are
\* resolved before the next run (CpuService.c 293-461).
LEMMA ServiceStop ==
  ASSUME Inv, RunInv, StopInv, NEW c \in CPU, ServiceStep(c)
  PROVE  StopInv'
<1> USE DEF hwVars, runVars, frameVars, Calling
<1>1. ASSUME NEW d \in CPU, SmmBlockingStartupThisAp(c, d) PROVE StopInv'
  BY <1>1, StopLeader DEF SmmBlockingStartupThisAp, plugVars, LeadPc, BspPc, QuietPc, StoppedPc
<1>2. CASE Unblock(c)
  BY <1>2, StopLeader DEF Unblock, plugVars, LeadPc, BspPc, QuietPc, StoppedPc
<1>3. ASSUME UNCHANGED <<pc, SyncMode, AllCpusInSync, ProcessorId, Operation>>,
             \A d \in CPU : smiPending[d] => smiPending'[d]
      PROVE  StopInv'
  BY <1>3 DEF StopInv, Stage, Gathers, GatherFirst, Leader, Lead, Stopped
<1>4. ASSUME NEW d \in CPU, SmmSwitchBsp(c, d) \/ SmmAddProcessor(c, d) \/ SmmRemoveProcessor(c, d)
      PROVE  StopInv'
  <2>1. pc[c] = "bsp_core" /\ UNCHANGED <<pc, SyncMode, AllCpusInSync, smiPending>>
    BY <1>4 DEF SmmSwitchBsp, SmmAddProcessor, SmmRemoveProcessor
  <2>2. Stage = "bsp_core"
    BY <2>1, LeaderIs DEF RunInv, LeadPc, BspPc
  <2>3. Stage' = Stage /\ Gathers' = Gathers
    BY <2>1 DEF Stage, Gathers, GatherFirst, Leader, Lead
  <2>4. /\ \A e \in CPU : Stopped(e)' = Stopped(e)
        /\ \A e \in CPU \ {d} : ProcessorId'[e] = ProcessorId[e] /\ Operation'[e] = Operation[e]
    BY <1>4, <2>1 DEF Stopped, SmmSwitchBsp, SmmAddProcessor, SmmRemoveProcessor, Inv, TypeOK, PlugType
  <2>5. \/ ProcessorId'[d] = ProcessorId[d] /\ Operation[d] = "none" /\ Operation'[d] = "switch"
        \/ ProcessorId'[d] /\ Operation'[d] = "add"
        \/ ~ProcessorId'[d] /\ Operation'[d] = "remove" /\ (Present[d] \/ pc[d] = "normal")
    BY <1>4 DEF SmmSwitchBsp, SmmAddProcessor, SmmRemoveProcessor, Inv, TypeOK, PlugType
  <2>6. Present[d] \/ pc[d] = "normal" => pc[d] \notin ArrivingPc
    BY DEF RunInv, FlagsMean, PresentPc, LeadPc, BspPc, ArrivingPc
  <2>7. \A e \in CPU : /\ pc'[e] \in ArrivingPc => ProcessorId'[e]
                       /\ pc'[e] \in CountedPc => ProcessorId'[e] \/ Operation'[e] = "remove"
                       /\ Gathers /\ ProcessorId'[e] /\ Operation'[e] # "add" => Stopped(e)
    <3> TAKE e \in CPU
    <3>1. CASE e = d
      BY <2>1, <2>2, <2>5, <2>6, <3>1 DEF StopInv, StoppedPc
    <3>2. CASE e # d
      BY <2>1, <2>2, <2>4, <3>2 DEF StopInv, StoppedPc
    <3> QED BY <3>1, <3>2
  <2> QED BY <2>2, <2>3, <2>4, <2>7 DEF StopInv, QuietPc
<1> QED BY <1>1, <1>2, <1>3, <1>4
  DEF ServiceStep, SmmStartupThisAp, SmmSyncSetMode, SmmCheckApArrival, SmmWaitForApArrival, SmmSendSmi,
      SendSmiIpi, SmmChangeSmmEnabling, plugVars

\* Every step keeps StopInv.
LEMMA NextStop ==
  ASSUME Inv, RunInv, PlugInv, StopInv, [Next]_vars
  PROVE  StopInv'
<1>1. CASE SmiRaise \/ Idle \/ UNCHANGED vars
  <2>1. /\ UNCHANGED <<pc, SyncMode, AllCpusInSync, ProcessorId, Operation>>
        /\ \A d \in CPU : smiPending[d] => smiPending'[d]
    BY <1>1 DEF SmiRaise, Idle, vars, hwVars, runVars, frameVars, plugVars
  <2> QED BY <2>1 DEF StopInv, Stage, Gathers, GatherFirst, Leader, Lead, Stopped
<1> QED BY <1>1, EntryStop, ApStop, BspStop, ServiceStop DEF Next, CpuStep

\* In the traditional flow no processor that SMM knows executes normal-mode code
\* without an SMI latched for it while SMI handlers run (332-335, 396-411), as
\* long as no entry of the processor table is used for another processor while
\* its removal is pending.
THEOREM OsIsStopped ==
  ASSUME PromptWindows, "reuse" \notin Services
  PROVE  Spec => []NoOsCodeBesideHandlers
<1>1. Init => StopInv /\ PlugInv
  <2>1. Init => Stage = "none" /\ \A c \in CPU : Operation[c] = "none" /\ pc[c] = "normal"
    BY DEF Init, Stage, Lead, LeadPc, BspPc
  <2> QED BY <2>1, InitPlug DEF StopInv, StoppedPc, ArrivingPc, CountedPc, ApPc, BspPc
<1>2. Inv /\ RunInv /\ PlugInv /\ StopInv /\ [Next]_vars => (PlugInv /\ StopInv)'
  BY NextStop, NextPlug DEF Inv
<1>3. ASSUME Inv, RunInv, StopInv PROVE NoOsCodeBesideHandlers
  <2> SUFFICES ASSUME NEW c \in CPU, pc[c] \in {"bsp_core", "bsp_block"}, SyncMode[c] = "tradition",
                      NEW d \in CPU, ProcessorId[d], Operation[d] # "add", pc[d] = "normal"
               PROVE  smiPending[d]
    BY DEF NoOsCodeBesideHandlers
  <2>1. Stage = pc[c] /\ Gathers
    BY <1>3, LeaderIs DEF RunInv, LeadPc, BspPc, GatherFirst
  <2>2. Stopped(d)
    BY <1>3, <2>1 DEF StopInv, StoppedPc
  <2> QED BY <2>2 DEF Stopped, ArrivingPc, CountedPc, ApPc, BspPc
<1> QED BY <1>1, <1>2, <1>3, Barrier, PTL DEF Spec

-----------------------------------------------------------------------------
(* Nobody is stuck                                                         *)

\* The AP that SmmBlockingStartupThisAp waits for has its procedure before it.
TargetInv ==
  \A c \in CPU : pc[c] = "bsp_block" =>
    target \in CPU \ {c} /\ pc[target] \in {"ap_loop", "ap_check", "ap_run"}

\* Processors move one at a time, and the target cannot leave.
LEMMA TargetKept ==
  ASSUME Inv, RunInv, TargetInv, NEW c \in CPU, UNCHANGED target,
         pc' = [pc EXCEPT ![c] = pc'[c]],
         pc[c] \in {"ap_loop", "ap_check", "ap_run"} =>
           \/ pc'[c] \in {"ap_loop", "ap_check", "ap_run"} \/ ~InsideSmm,
         pc'[c] = "bsp_block" => pc[c] = "bsp_block"
  PROVE  TargetInv'
<1> SUFFICES ASSUME NEW d \in CPU, pc'[d] = "bsp_block"
             PROVE  target \in CPU \ {d} /\ pc'[target] \in {"ap_loop", "ap_check", "ap_run"}
  BY DEF TargetInv
<1>1. pc \in [CPU -> PcValues]
  BY DEF Inv, TypeOK, FrameType
<1>2. pc[d] = "bsp_block"
  BY <1>1
<1>3. target \in CPU \ {d} /\ pc[target] \in {"ap_loop", "ap_check", "ap_run"}
  BY <1>2 DEF TargetInv
<1>4. InsideSmm
  BY <1>2, LeaderFacts DEF InsidePc, HandlersPc, LeadPc, BspPc
<1> QED BY <1>1, <1>3, <1>4

LEMMA NextTarget ==
  ASSUME Inv, RunInv, TargetInv, [Next]_vars
  PROVE  TargetInv'
<1>0. pc \in [CPU -> PcValues]
  BY DEF Inv, TypeOK, FrameType
<1>1. ASSUME NEW c \in CPU, EntryStep(c) \/ EnterSmm(c) PROVE TargetInv'
  <2>1. pc' = [pc EXCEPT ![c] = pc'[c]] /\ pc'[c] # "bsp_block"
    BY <1>0, <1>1 DEF EntryStep, EnterSmm, SampleBsp, CheckIn, BecomeBsp, BecomeAp, LeaveSmm
  <2>2. UNCHANGED target /\ pc[c] \notin {"ap_loop", "ap_check", "ap_run"}
    BY <1>1 DEF EntryStep, EnterSmm, SampleBsp, CheckIn, BecomeBsp, BecomeAp, LeaveSmm, ExitPc, bspVars
  <2> QED BY <2>1, <2>2, TargetKept
<1>2. ASSUME NEW c \in CPU, ApStep(c) PROVE TargetInv'
  <2>1. UNCHANGED target /\ pc' = [pc EXCEPT ![c] = pc'[c]] /\ pc'[c] # "bsp_block"
    BY <1>0, <1>2 DEF ApStep, ApSeesBsp, ApTimeout1, ApTimeout2, ApGiveUp, ApPresent, ApArrive, ApSave, ApSet,
       ApWake, ApCheck, ApRun, ApLeave, ApRestore, ApReady, ApReset, ApDone, bspVars
  <2>2. pc[c] \in {"ap_loop", "ap_check", "ap_run"} =>
          pc'[c] \in {"ap_loop", "ap_check", "ap_run"} \/ ~InsideSmm
    BY <1>0, <1>2 DEF ApStep, ApSeesBsp, ApTimeout1, ApTimeout2, ApGiveUp, ApPresent, ApArrive, ApSave, ApSet,
       ApWake, ApCheck, ApRun, ApLeave, ApRestore, ApReady, ApReset, ApDone
  <2> QED BY <2>1, <2>2, TargetKept
<1>3. ASSUME NEW c \in CPU, BspStep(c) PROVE TargetInv'
  <2>1. UNCHANGED target /\ pc[c] \in BspPc
    BY <1>3 DEF BspStep, BspEnter, BspClear, BspArrival, BspInSync, BspLock, WaitForAllAPs, BspReady,
       BspSet, BspAllSet, BspCoreEntry, BspCoreReturn, BspDrain, BspAllPresent, BspExit, BspNotify,
       BspSetMode, BspRestore, BspAllRestored, BspReset, BspUnelect, BspOpen, BspResync, WaitOver,
       bspVars, BspPc, WaitPc
  <2>2. UNCHANGED pc \/ (pc' = [pc EXCEPT ![c] = pc'[c]] /\ pc'[c] # "bsp_block")
    <3>1. CASE WaitForAllAPs(c)
      BY <3>1 DEF WaitForAllAPs
    <3>2. CASE BspEnter(c) \/ BspClear(c) \/ BspArrival(c) \/ BspInSync(c) \/ BspLock(c)
               \/ BspReady(c) \/ BspSet(c) \/ BspAllSet(c) \/ BspCoreEntry(c) \/ BspCoreReturn(c)
      BY <1>0, <3>2 DEF BspEnter, BspClear, BspArrival, BspInSync, BspLock, BspReady, BspSet,
         BspAllSet, BspCoreEntry, BspCoreReturn
    <3>3. CASE BspDrain(c) \/ BspAllPresent(c) \/ BspExit(c) \/ BspNotify(c) \/ BspSetMode(c)
               \/ BspRestore(c) \/ BspAllRestored(c) \/ BspReset(c) \/ BspUnelect(c) \/ BspOpen(c)
               \/ BspResync(c)
      BY <1>0, <3>3 DEF BspDrain, BspAllPresent, BspExit, BspNotify, BspSetMode, BspRestore,
         BspAllRestored, BspReset, BspUnelect, BspOpen, BspResync
    <3> QED BY <1>3, <3>1, <3>2, <3>3 DEF BspStep
  <2>3. pc[c] \notin {"ap_loop", "ap_check", "ap_run"}
    BY <2>1 DEF BspPc
  <2>4. CASE UNCHANGED pc
    BY <2>1, <2>4 DEF TargetInv
  <2>5. CASE pc' = [pc EXCEPT ![c] = pc'[c]] /\ pc'[c] # "bsp_block"
    BY <2>1, <2>3, <2>5, TargetKept
  <2> QED BY <2>2, <2>4, <2>5
<1>4. ASSUME NEW c \in CPU, ServiceStep(c) PROVE TargetInv'
  <2>1. ASSUME NEW d \in CPU, SmmBlockingStartupThisAp(c, d) PROVE TargetInv'
    <3>1. pc[c] = "bsp_core" /\ d # c /\ Present[d] /\ target' = d /\ pc' = [pc EXCEPT ![c] = "bsp_block"]
      BY <2>1 DEF SmmBlockingStartupThisAp, Calling, StartAp
    <3>2. pc[c] \in LeadPc
      BY <3>1 DEF LeadPc, BspPc
    <3>3. pc[d] \in PresentPc /\ pc[d] \notin LeadPc
      BY <3>1, <3>2, LeaderFacts DEF Lead
    <3>4. pc[d] \in MemberPc
      BY <3>3 DEF PresentPc, MemberPc, ApPc
    <3>5. Fits(pc[c], Gathers, pc[d])
      BY <3>2, <3>4, LeaderFacts
    <3>6. pc[d] \in {"ap_loop", "ap_check", "ap_run"}
      BY <3>1, <3>3, <3>5 DEF Fits, HandlersPc, PresentPc, ArrivalPc
    <3>7. \A e \in CPU : pc'[e] = "bsp_block" => e = c
      <4> SUFFICES ASSUME NEW e \in CPU, e # c, pc'[e] = "bsp_block" PROVE FALSE
        OBVIOUS
      <4>1. pc[e] = "bsp_block"
        BY <3>1
      <4>2. e \in Lead
        BY <4>1 DEF Lead, LeadPc, BspPc
      <4> QED BY <3>2, <4>2, LeaderFacts
    <3> QED BY <3>1, <3>6, <3>7 DEF TargetInv
  <2>2. CASE Unblock(c)
    <3>1. pc[c] = "bsp_block" /\ pc' = [pc EXCEPT ![c] = "bsp_core"]
      BY <2>2 DEF Unblock
    <3>2. pc[c] \in LeadPc
      BY <3>1 DEF LeadPc, BspPc
    <3>3. \A e \in CPU : pc'[e] # "bsp_block"
      <4> SUFFICES ASSUME NEW e \in CPU, pc'[e] = "bsp_block" PROVE FALSE
        OBVIOUS
      <4>1. e # c /\ pc[e] = "bsp_block"
        BY <1>0, <3>1
      <4>2. e \in Lead
        BY <4>1 DEF Lead, LeadPc, BspPc
      <4> QED BY <3>2, <4>1, <4>2, LeaderFacts
    <3> QED BY <3>3 DEF TargetInv
  <2>3. CASE UNCHANGED <<pc, target>>
    BY <2>3 DEF TargetInv
  <2>4. \/ \E d \in CPU : SmmBlockingStartupThisAp(c, d)
        \/ Unblock(c) \/ UNCHANGED <<pc, target>>
    BY <1>4 DEF ServiceStep, SmmStartupThisAp, SmmSwitchBsp, SmmAddProcessor, SmmRemoveProcessor,
       SmmChangeSmmEnabling, SmmSyncSetMode, SmmCheckApArrival, SmmSendSmi
  <2> QED BY <2>1, <2>2, <2>3, <2>4
<1>5. CASE SmiRaise \/ Idle \/ UNCHANGED vars
  BY <1>5 DEF SmiRaise, Idle, vars, bspVars, TargetInv
<1> QED BY <1>1, <1>2, <1>3, <1>4, <1>5 DEF Next, CpuStep

\* Somebody in the run goes on as long as there is one, and the last to leave SMM are
\* let go by the BSP, whatever the number of processors and of those that come late,
\* give up or are hot-plugged (538-541, 786, 1296, 1407).
LEMMA NobodyStuck == ASSUME PromptWindows, Inv, RunInv, TargetInv PROVE SomebodyGoesOn
<1> SUFFICES ASSUME NEW b \in CPU, pc[b] # "normal",
                    \A c \in CPU : pc[c] # "normal" => Blocked(c)
             PROVE  FALSE
  BY DEF SomebodyGoesOn
<1>1. pc \in [CPU -> PcValues] /\ Run \in [CPU -> 0..Locked] /\ NumberOfAPs \in Int
  BY DEF Inv, TypeOK, FrameType, BlockType, BspType
<1>2. \A c \in CPU : pc[c] \in WaitPc \cup ExitPc \cup {"normal", "wait_present", "bsp_clear", "bsp_drain",
         "bsp_block", "ap_save", "ap_set", "ap_loop", "ap_restore", "ap_reset", "ap_giveup"}
  BY DEF Blocked
\* An AP that has a signal goes on.
<1>3. ASSUME NEW d \in CPU, pc[d] \in {"ap_save", "ap_set", "ap_loop", "ap_restore", "ap_reset"},
             Token(Stage, pc[d], owed[d])
      PROVE  FALSE
  <2>1. pc[d] \notin LeadPc
    BY <1>3 DEF LeadPc, BspPc
  <2>2. Run[d] = 1
    BY <1>3, <2>1 DEF RunInv, TokensFit
  <2>3. Blocked(d)
    BY <1>3
  <2>4. Run[d] = 0
    BY <1>3, <2>3, Zenon DEF Blocked, WaitPc, ExitPc
  <2> QED BY <2>2, <2>4
\* A check-in can be taken back as long as Counter counts.
<1>4. ASSUME NEW d \in CPU, pc[d] = "ap_giveup", Counter # Locked PROVE FALSE
  <2>1. Counter = Cardinality(Counted)
    BY <1>4 DEF RunInv, Balance, CounterCounts
  <2>2. d \in Counted
    BY <1>4 DEF Counted, CountedPc, ApPc
  <2>3. Counted # {} /\ IsFiniteSet(Counted)
    BY <2>2, CpuAssumption, FS_Subset DEF Counted
  <2>4. Counter # 0
    BY <2>1, <2>3, FS_EmptySet
  <2> QED BY <1>4, <2>4 DEF Blocked, WaitPc, ExitPc
<1>5. \A d \in CPU : pc[d] # "bsp_resync"
  BY <1>2 DEF WaitPc, ExitPc
\* Without a BSP.
<1>6. CASE Lead = {}
  <2>1. Stage = "none" /\ ~Gathers
    BY <1>6, NobodyLeads
  <2>2. Counter # Locked /\ ~AllCpusInSync
    BY <1>5, <2>1 DEF RunInv, FlagsMean, Shut, ClosedPc
  <2>3. pc[b] # "ap_giveup"
    BY <1>4, <2>2
  <2>4. pc[b] \notin ExitPc
    BY <2>2 DEF Blocked, ExitPc, WaitPc
  <2>5. pc[b] \notin LeadPc
    BY <1>6 DEF Lead
  <2>6. pc[b] \in MemberPc
    BY <1>2, <2>4, <2>5 DEF LeadPc, BspPc, WaitPc, MemberPc, ApPc
  <2>7. Fits(Stage, Gathers, pc[b])
    BY <2>6, MemberFacts
  <2> QED BY <1>2, <2>1, <2>3, <2>7 DEF Fits, ArrivalPc, WaitPc, ExitPc
<1>7. ASSUME NEW l \in Lead PROVE FALSE
  <2>1. l \in CPU /\ pc[l] \in LeadPc
    BY <1>7 DEF Lead
  <2>2. /\ Stage = pc[l] /\ Leader = l /\ Lead = {l} /\ FlowFits(pc[l], Gathers)
        /\ \A d \in CPU : pc[d] \in MemberPc => Fits(pc[l], Gathers, pc[d]) /\ (Busy[d] <=> owed[d] = 1)
        /\ \A d \in CPU : Present[d] <=> pc[d] \in PresentPc
        /\ Counter = Locked <=> Shut(pc[l], Gathers)
        /\ pc[l] \in OwnerPc => BspIndex = l
    BY <2>1, LeaderFacts
  <2>3. Blocked(l) /\ pc[l] \in WaitPc \cup {"wait_present", "bsp_clear", "bsp_drain", "bsp_block"}
    BY <1>2, <2>1 DEF LeadPc, BspPc, ExitPc
  \* It waits for signals: who owes one can send it.
  <2>4. CASE pc[l] \in WaitPc
    <3>1. NumberOfAPs # 0 /\ Run[BspIndex] = 0 /\ BspIndex = l
      BY <2>2, <2>3, <2>4 DEF Blocked, WaitPc, ExitPc, OwnerPc, BspPc
    <3>2. NumberOfAPs = Run[l] + Cardinality(Owing)
      BY <2>2, <2>4 DEF RunInv, Balance
    <3>3. PICK d \in CPU : Owes(pc[l], Gathers, pc[d])
      <4>1. Owing # {}
        <5> SUFFICES ASSUME Owing = {} PROVE FALSE
          OBVIOUS
        <5>1. Cardinality(Owing) = 0
          BY FS_EmptySet
        <5> QED BY <1>1, <3>1, <3>2, <5>1
      <4> QED BY <2>2, <4>1 DEF Owing
    <3>4. pc[d] \in MemberPc
      BY <3>3 DEF Owes, MemberPc, ApPc, ArrivalPc
    <3>5. Fits(pc[l], Gathers, pc[d])
      BY <2>2, <3>4
    <3>6. pc[d] \in {"ap_save", "ap_set", "ap_loop", "ap_restore", "ap_reset"}
      BY <1>2, <2>2, <2>4, <3>3, <3>5 DEF Owes, Fits, FlowFits, ArrivalPc, WaitPc, ExitPc, GatherPc
    <3>7. Token(Stage, pc[d], owed[d])
      BY <2>2, <2>4, <3>3, <3>6 DEF Token, Owes, WaitPc, GatherPc, ArrivalPc
    <3> QED BY <1>3, <3>6, <3>7
  \* It waits for Present flags: an AP that is counted can set its own.
  <2>5. CASE pc[l] = "wait_present"
    <3>1. ApCount + 1 = Cardinality(Counted)
      BY <2>2, <2>5 DEF RunInv, Balance, Shut, ClosedPc
    <3>2. Cardinality({d \in CPU : Present[d]}) <= ApCount
      BY <2>3, <2>5 DEF Blocked, WaitPc, ExitPc
    <3>3. PICK d \in Counted : ~Present[d]
      <4> SUFFICES ASSUME Counted \subseteq {d \in CPU : Present[d]} PROVE FALSE
        BY DEF Counted
      <4>1. IsFiniteSet({d \in CPU : Present[d]})
        BY CpuAssumption, FS_Subset
      <4>2. Cardinality(Counted) <= Cardinality({d \in CPU : Present[d]})
        BY <4>1, FS_Subset
      <4>3. Cardinality(Counted) \in Nat /\ Cardinality({d \in CPU : Present[d]}) \in Nat /\ ApCount \in Nat
        BY <4>1, FS_Subset, FS_CardinalityType, LockedAssumption DEF Inv, TypeOK, BspType
      <4> QED BY <3>1, <3>2, <4>2, <4>3
    <3>4. d \in CPU /\ pc[d] \in CountedPc /\ d # l
      BY <2>2, <2>5, <3>3 DEF Counted, PresentPc, LeadPc, BspPc
    <3>5. pc[d] \notin LeadPc
      BY <2>2, <3>4 DEF Lead
    <3>6. pc[d] \in MemberPc
      BY <3>4, <3>5 DEF CountedPc, MemberPc, LeadPc
    <3>7. ~Gathers /\ Fits(pc[l], Gathers, pc[d])
      BY <2>2, <2>5, <3>4, <3>6 DEF FlowFits
    <3>8. pc[d] \in ArrivalPc \cup {"ap_present", "ap_loop"}
      BY <2>5, <3>7 DEF Fits
    <3>9. pc[d] \notin PresentPc
      BY <2>2, <3>3, <3>4
    <3> QED BY <1>2, <3>4, <3>8, <3>9 DEF PresentPc, ArrivalPc, WaitPc, ExitPc
  \* It waits for the windows to close: nothing keeps who is in one.
  <2>6. CASE pc[l] = "bsp_clear"
    <3>1. PICK d \in CPU : pc[d] \in Window
      BY <2>3, <2>6 DEF Blocked, WaitPc, ExitPc
    <3>2. Counter # Locked
      BY <2>2, <2>6 DEF Shut, ClosedPc, HandlersPc
    <3> QED BY <1>4, <1>5, <3>1, <3>2 DEF Window
  \* It waits for a procedure: the AP has been told.
  <2>7. ASSUME pc[l] \in {"bsp_drain", "bsp_block"}, NEW d \in CPU, d # l, Busy[d], pc[d] \in MemberPc
        PROVE  FALSE
    <3>1. owed[d] = 1
      BY <2>2, <2>7
    <3>2. pc[d] = "ap_loop"
      BY <1>2, <2>1, <2>7, <3>1, LeaderFacts DEF WaitPc, ExitPc
    <3> QED BY <1>3, <3>1, <3>2 DEF Token
  <2>8. CASE pc[l] = "bsp_drain"
    <3>1. PICK d \in CPU \ {l} : Present[d] /\ Busy[d]
      BY <2>3, <2>8 DEF Blocked, WaitPc, ExitPc
    <3>2. pc[d] \in PresentPc /\ pc[d] \notin LeadPc
      BY <2>2, <3>1 DEF Lead
    <3>3. pc[d] \in MemberPc
      BY <3>2 DEF PresentPc, MemberPc, ApPc
    <3> QED BY <2>7, <2>8, <3>1, <3>3
  <2>9. CASE pc[l] = "bsp_block"
    <3>1. Busy[target]
      BY <2>3, <2>9 DEF Blocked, WaitPc, ExitPc
    <3>2. target \in CPU \ {l} /\ pc[target] \in {"ap_loop", "ap_check", "ap_run"}
      BY <2>1, <2>9 DEF TargetInv
    <3>3. pc[target] \in MemberPc
      BY <3>2 DEF MemberPc, ApPc
    <3> QED BY <2>7, <2>9, <3>1, <3>2, <3>3
  <2> QED BY <2>3, <2>4, <2>5, <2>6, <2>8, <2>9
<1> QED BY <1>6, <1>7

\* The processors in SMM never all wait, for any number of them and any sequence of
\* arrivals, timeouts, give-ups, procedures and hot-plug operations (538-541, 590-612,
\* 623-645, 796-936).
THEOREM SomebodyAlwaysGoesOn == ASSUME PromptWindows PROVE Spec => []SomebodyGoesOn
<1>1. Init => TargetInv
  BY DEF Init, TargetInv
<1>2. Inv /\ RunInv /\ TargetInv /\ [Next]_vars => TargetInv'
  BY NextTarget
<1>3. Inv /\ RunInv /\ TargetInv => SomebodyGoesOn
  BY NobodyStuck
<1>4. Spec => [](Inv /\ RunInv)
  BY Barrier
<1> QED BY <1>1, <1>2, <1>3, <1>4, PTL DEF Spec
=============================================================================
