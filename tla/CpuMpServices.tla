--------------------------- MODULE CpuMpServices ---------------------------
(***************************************************************************)
(* The MP Services Protocol of the boot phase (CpuMpDxe): the BSP hands    *)
(* procedures to APs that wait in a loop, polls them, resets the ones that *)
(* take too long, hands its role over to an AP and parks all APs before    *)
(* the OS starts (MpService.c, MpCommon.c and the AP loop and the exchange *)
(* of roles of X64/MpFuncs.asm).                                           *)
(*                                                                         *)
(* The procedure of the k-th call is the number k.                         *)
(***************************************************************************)
EXTENDS Integers, FiniteSets, FiniteSetsExt

CONSTANTS
  NumAPs,          \* NumberOfProcessors - 1
  BreakEvents,     \* MWAIT is ended now and then by an SMI or the like
  PromptWindows,   \* INIT does not hit an AP that holds its CpuDataLock
  Careful,         \* callers do not interfere with procedures in progress, and give all
                   \* APs the time to get back to their loops before and after SwitchBSP
  Calls,           \* the ways APs may wait in this instance ("hlt", "mwait", "run"), and
                   \* for each of them the calls that are made, see CallKinds
  MaxCalls         \* bound: calls in a behaviour

CPU == 0..NumAPs
Ids == 1..MaxCalls
NULL == 0
Bye == MaxCalls + 1       \* ChangeApLoopMode, the last procedure of all
Swap == MaxCalls + 2      \* FutureBSPProc

\* Which of the services are called, in which mode.
CallKinds == {"all", "single", "this", "blocking", "event", "timeout", "enable", "switch", "exit"}

ASSUME NumAssumption == NumAPs \in Nat /\ MaxCalls \in Nat
ASSUME ModeAssumption ==
  /\ DOMAIN Calls \subseteq {"hlt", "mwait", "run"} /\ \A m \in DOMAIN Calls : Calls[m] \subseteq CallKinds
  /\ BreakEvents \in BOOLEAN /\ PromptWindows \in BOOLEAN /\ Careful \in BOOLEAN

VARIABLES
  \* mExchangeInfo->ApLoopMode and mCpuConfigContextBuffer.BspNumber
  LoopMode, BspNumber,
  \* CPU_DATA_BLOCK, MONITOR_MWAIT_DATA of every processor number
  State, Procedure, WaitEvent, ApLoopMode, StartupApSignal, ReadyToBootFlag,
  mApFunction,
  \* MP_SYSTEM_DATA, and mStopCheckAPsStatus; sysEvent is mMPSystemData.WaitEvent,
  \* sysCall the call that its other fields belong to
  CpuList, StartCount, FinishCount, sysEvent, sysCall, mStopCheckAPsStatus,
  \* Every processor: the statement it is at, the procedure it has fetched, and
  \* whose stack, monitor data and number it uses (BspStack: those of the BSP)
  pc, proc, num,
  \* SwitchBSP: BSPInfo and APInfo, and what the old BSP is told of its number
  Info, mBspSwitched, mNewProcessorNumber,
  \* The BSP: what it is doing, the call it is in, and the loop variable of
  \* CheckAndUpdateAPsStatus
  bsp, call, index,
  \* History of every call: its parameters, the APs it was given to, its
  \* outcome, whether its time is up, the APs that were reset for it
  param, given, result, due, failed, calls,
  \* How often every AP has completed the procedure of every call
  ran,
  \* The APs that the caller has disabled
  off

blockVars == <<State, Procedure, WaitEvent>>
wakeVars  == <<ApLoopMode, StartupApSignal, ReadyToBootFlag, mApFunction>>
sysVars   == <<CpuList, StartCount, FinishCount, sysEvent, sysCall>>
apVars    == <<pc, proc, num>>
roleVars  == <<LoopMode, BspNumber, Info, mBspSwitched, mNewProcessorNumber>>
bspVars   == <<bsp, call, index, mStopCheckAPsStatus>>
callVars  == <<param, given, result, due, failed, calls>>
vars == <<blockVars, wakeVars, sysVars, apVars, roleVars, bspVars, callVars, ran, off>>
-----------------------------------------------------------------------------
AP == CPU \ {BspNumber}
BspStack == NumAPs + 1

States == {"idle", "ready", "busy", "finished", "disabled"}

\* Values of pc: the AP loop, ApProcWrapper, AsmExchangeRole, the code of the BSP.
LoopPc == {"hlt", "loop", "armed", "sleep", "poll"}
WorkPc == {"enter", "fetch", "run", "clear", "finish"}
SwapPc == {"store", "load", "unload"}
ProcPc == LoopPc \cup WorkPc \cup SwapPc \cup {"flag", "number", "leave", "back", "bsp"}

\* Whose CPU_DATA_BLOCK the processor ends its procedure in: the old BSP has
\* reloaded CpuData.
Slot(c) == IF proc[c] = Swap THEN c ELSE num[c]

\* The AP has stored under a CpuDataLock and may not yet have released it.
HeldPc == {"fetch", "clear", "leave"}
Unlocked(p) ==
  \A c \in CPU : pc[c] \in HeldPc => p # (IF pc[c] = "leave" THEN Slot(c) ELSE num[c])

NoParam == [kind |-> "none", single |-> FALSE, event |-> FALSE, timeout |-> FALSE,
            target |-> 0, enable |-> FALSE]
Params ==
  [kind : {"all"}, single : BOOLEAN, event : BOOLEAN, timeout : BOOLEAN, target : {0},
   enable : {FALSE}]
  \cup [kind : {"this"}, single : {FALSE}, event : BOOLEAN, timeout : BOOLEAN, target : CPU,
        enable : {FALSE}]

\* The calls that this instance makes.
Made == Calls[LoopMode]

Wanted ==
  {r \in Params : /\ r.kind \in Made /\ (r.single => "single" \in Made)
                  /\ (r.event => "event" \in Made) /\ (~r.event => "blocking" \in Made)
                  /\ (r.timeout => "timeout" \in Made)}

\* SwitchBSP (ProcessorNumber, EnableOldBSP)
SwitchParams ==
  [kind : {"switch"} \cap Made, single : {FALSE}, event : {FALSE}, timeout : {FALSE},
   target : CPU, enable : BOOLEAN]

Init ==
  /\ LoopMode \in DOMAIN Calls /\ BspNumber = 0
  /\ State = [p \in CPU |-> "idle"] /\ Procedure = [p \in CPU |-> NULL]
  /\ WaitEvent = [p \in CPU |-> NULL]
  /\ ApLoopMode = [p \in CPU |-> "hlt"] /\ StartupApSignal = [p \in CPU |-> FALSE]
  /\ ReadyToBootFlag = [p \in CPU |-> FALSE] /\ mApFunction = "null"
  /\ CpuList = {} /\ StartCount = 0 /\ FinishCount = 0 /\ sysEvent = NULL /\ sysCall = NULL
  /\ mStopCheckAPsStatus = FALSE
  /\ pc = [p \in CPU |-> IF p = BspNumber THEN "bsp" ELSE "hlt"] /\ proc = [p \in CPU |-> NULL]
  /\ num = [p \in CPU |-> IF p = BspNumber THEN BspStack ELSE p]
  /\ Info = [r \in {"bsp", "ap"} |-> [State |-> "idle", StackPointer |-> BspStack]]
  /\ mBspSwitched = FALSE /\ mNewProcessorNumber = 0
  /\ bsp = "free" /\ call = NULL /\ index = 0
  /\ param = [k \in Ids \cup {Bye} |-> NoParam] /\ given = [k \in Ids \cup {Bye} |-> {}]
  /\ result = [k \in Ids \cup {Bye} |-> "none"] /\ due = {}
  /\ failed = [k \in Ids \cup {Bye} |-> {}] /\ calls = 0
  /\ ran = [p \in CPU |-> [k \in Ids \cup {Bye} |-> 0]]
  /\ off = {}
-----------------------------------------------------------------------------
(* Waking up and resetting APs                                             *)

\* WakeUpAp: hand over procedure k, and set the run signal unless the AP is
\* in its HLT loop.
Assign(woken, k) ==
  /\ Procedure' = [p \in CPU |-> IF p \in woken THEN k ELSE Procedure[p]]
  /\ ApLoopMode' = [p \in CPU |-> IF p \in woken THEN LoopMode ELSE ApLoopMode[p]]
  /\ StartupApSignal' = [p \in CPU |-> StartupApSignal[p] \/ (p \in woken /\ ApLoopMode[p] # "hlt")]

\* An INIT-SIPI-SIPI starts the AP at the top of the loop's code, where it looks
\* up its number by its APIC ID and from where it calls mApFunction.  It has done
\* so before the BSP is back from SendInitSipiSipi, which waits for more than
\* 10 ms.  A store of the run signal ends MWAIT, also one that comes between
\* MONITOR and MWAIT.
Launch(woken, reset) ==
  LET inits == reset \cup {p \in woken : ApLoopMode[p] = "hlt"}
  IN  /\ pc' = [p \in CPU |-> IF p \in reset THEN "loop"
                             ELSE IF p \in inits THEN "enter"
                             ELSE IF num[p] \in woken /\ pc[p] \in {"armed", "sleep"} THEN "poll"
                             ELSE pc[p]]
      /\ num' = [p \in CPU |-> IF p \in inits THEN p ELSE num[p]]
      /\ proc' = [p \in CPU |-> IF p \in inits THEN NULL ELSE proc[p]]
      /\ ReadyToBootFlag' = [p \in CPU |-> ReadyToBootFlag[p] /\ p \notin inits]
      /\ mApFunction' = IF reset # {} THEN "null" ELSE IF woken # {} THEN "wrapper" ELSE mApFunction

-----------------------------------------------------------------------------
(* The AP                                                                  *)

ApUnchanged == UNCHANGED <<WaitEvent, ApLoopMode, mApFunction, num, sysVars, roleVars, bspVars,
                            callVars, off>>

\* CheckReadyToBoot, CheckWakeUpManner, MONITOR with the monitor data of number n.
WakeUpManner(n) ==
  IF ReadyToBootFlag[n] \/ LoopMode = "hlt" THEN "hlt"
  ELSE IF LoopMode = "mwait" THEN "armed" ELSE "poll"

ApLoop(c) ==
  /\ pc[c] = "loop"
  /\ pc' = [pc EXCEPT ![c] = WakeUpManner(num[c])]
  /\ UNCHANGED <<State, Procedure, StartupApSignal, ReadyToBootFlag, proc, ran>> /\ ApUnchanged

ApMwait(c) ==
  /\ pc[c] = "armed"
  /\ pc' = [pc EXCEPT ![c] = "sleep"]
  /\ UNCHANGED <<State, Procedure, StartupApSignal, ReadyToBootFlag, proc, ran>> /\ ApUnchanged

\* "Unknown break": an SMI, say, ends MWAIT.
ApBreak(c) ==
  /\ BreakEvents /\ pc[c] = "sleep"
  /\ pc' = [pc EXCEPT ![c] = "poll"]
  /\ UNCHANGED <<State, Procedure, StartupApSignal, ReadyToBootFlag, proc, ran>> /\ ApUnchanged

\* CheckRunSignal, and ApProcEntry when the signal is there.
ApPoll(c) ==
  /\ pc[c] = "poll"
  /\ pc' = [pc EXCEPT ![c] = IF StartupApSignal[num[c]] /\ mApFunction = "wrapper" THEN "enter"
                             ELSE "loop"]
  /\ UNCHANGED <<State, Procedure, StartupApSignal, ReadyToBootFlag, proc, ran>> /\ ApUnchanged

\* ApProcWrapper, from its entry to CpuData->State = CpuStateBusy.
ApBusy(c) ==
  /\ pc[c] = "enter"
  /\ pc' = [pc EXCEPT ![c] = "fetch"]
  /\ State' = [State EXCEPT ![num[c]] = "busy"]
  /\ UNCHANGED <<Procedure, StartupApSignal, ReadyToBootFlag, proc, ran>> /\ ApUnchanged

\* "Now let us check it out."
ApFetch(c) ==
  /\ pc[c] = "fetch"
  /\ proc' = [proc EXCEPT ![c] = Procedure[num[c]]]
  /\ pc' = [pc EXCEPT ![c] = IF Procedure[num[c]] = NULL THEN "clear"
                             ELSE IF Procedure[num[c]] = Swap THEN "store" ELSE "run"]
  /\ UNCHANGED <<State, Procedure, StartupApSignal, ReadyToBootFlag, ran>> /\ ApUnchanged

\* The procedure returns and is forgotten; ChangeApLoopMode sets a flag.
ApRun(c) ==
  /\ pc[c] = "run"
  /\ pc' = [pc EXCEPT ![c] = "clear"]
  /\ ran' = [ran EXCEPT ![c][proc[c]] = @ + 1]
  /\ Procedure' = [Procedure EXCEPT ![num[c]] = NULL]
  /\ ReadyToBootFlag' = [ReadyToBootFlag EXCEPT ![c] = @ \/ proc[c] = Bye]
  /\ proc' = [proc EXCEPT ![c] = NULL]
  /\ UNCHANGED <<State, StartupApSignal>> /\ ApUnchanged

\* "Update signal once finishing AP task."
ApClear(c) ==
  /\ pc[c] = "clear"
  /\ pc' = [pc EXCEPT ![c] = IF proc[c] = Swap THEN "flag" ELSE "finish"]
  /\ StartupApSignal' = [StartupApSignal EXCEPT ![num[c]] = FALSE]
  /\ UNCHANGED <<State, Procedure, ReadyToBootFlag, proc, ran>> /\ ApUnchanged

\* "if BSP is switched to AP, it continue execute from here": it leaves word for
\* the end of the procedure and takes over the monitor data of the old AP.
ApFlag(c) ==
  /\ pc[c] = "flag"
  /\ pc' = [pc EXCEPT ![c] = "number"]
  /\ mBspSwitched' = TRUE
  /\ UNCHANGED <<blockVars, wakeVars, proc, num, sysVars, LoopMode, BspNumber, Info, mNewProcessorNumber,
                 bspVars, callVars, ran, off>>

ApNumber(c) ==
  /\ pc[c] = "number"
  /\ pc' = [pc EXCEPT ![c] = "finish"]
  /\ mNewProcessorNumber' = c
  /\ ApLoopMode' = [ApLoopMode EXCEPT ![c] = ApLoopMode[num[c]]]
  /\ StartupApSignal' = [StartupApSignal EXCEPT ![c] = StartupApSignal[num[c]]]
  /\ ReadyToBootFlag' = [ReadyToBootFlag EXCEPT ![c] = ReadyToBootFlag[num[c]]]
  /\ UNCHANGED <<blockVars, mApFunction, proc, num, sysVars, LoopMode, BspNumber, Info, mBspSwitched,
                 bspVars, callVars, ran, off>>

\* Faulty variant: CpuData is not reloaded.
ApFinish_OldSlot(c) ==
  /\ pc[c] = "finish"
  /\ pc' = [pc EXCEPT ![c] = "leave"]
  /\ State' = [State EXCEPT ![num[c]] = "finished"]
  /\ UNCHANGED <<Procedure, StartupApSignal, ReadyToBootFlag, proc, ran>> /\ ApUnchanged

ApFinish(c) ==
  /\ pc[c] = "finish"
  /\ pc' = [pc EXCEPT ![c] = "leave"]
  /\ State' = [State EXCEPT ![Slot(c)] = "finished"]
  /\ UNCHANGED <<Procedure, StartupApSignal, ReadyToBootFlag, proc, ran>> /\ ApUnchanged

\* ApProcWrapper and ApProcEntry return.
ApLeave(c) ==
  /\ pc[c] = "leave"
  /\ pc' = [pc EXCEPT ![c] = "back"]
  /\ UNCHANGED <<State, Procedure, StartupApSignal, ReadyToBootFlag, proc, ran>> /\ ApUnchanged

\* "Check if BSP was switched": whoever comes back from its procedure takes the
\* number and the stack.  Then on into the loop.
ApBack(c) ==
  /\ pc[c] = "back" /\ proc' = [proc EXCEPT ![c] = NULL]
  /\ mBspSwitched' = FALSE
  /\ num' = [num EXCEPT ![c] = IF mBspSwitched THEN mNewProcessorNumber ELSE @]
  /\ pc' = [pc EXCEPT ![c] = WakeUpManner(num'[c])]
  /\ UNCHANGED <<blockVars, wakeVars, sysVars, LoopMode, BspNumber, Info, mNewProcessorNumber,
                 bspVars, callVars, ran, off>>

ApStep(c) == \/ ApLoop(c) \/ ApMwait(c) \/ ApPoll(c) \/ ApBusy(c) \/ ApFetch(c) \/ ApClear(c)
             \/ ApFlag(c) \/ ApNumber(c) \/ ApFinish(c) \/ ApLeave(c) \/ ApBack(c)
-----------------------------------------------------------------------------
(* Completion and timeout                                                  *)

\* The time of a call is up (CheckTimeout, see module SyncTimer).
Expire(k) ==
  /\ result[k] = "pending" /\ param[k].timeout /\ k \notin due
  /\ due' = due \cup {k}
  /\ UNCHANGED <<blockVars, wakeVars, sysVars, apVars, bspVars, param, given, result, failed,
                 calls, ran, off, roleVars>>

\* Faulty variant: an AP that has begun is taken for one that has finished.
Finished_Begun == {p \in CpuList : State[p] \in {"busy", "finished"}}

Finished == {p \in CpuList : State[p] = "finished"}

\* Faulty variant: APs that have finished stay listed.
Collect_KeepsListed(seen, late) ==
  /\ FinishCount' = FinishCount + Cardinality(seen)
  /\ CpuList' = CpuList \ late
  /\ State' = [p \in CPU |-> IF p \in seen \cup late THEN "idle" ELSE State[p]]

\* The APs found finished, and the ones that are reset, are idle again.
Collect(seen, late) ==
  /\ FinishCount' = FinishCount + Cardinality(seen)
  /\ CpuList' = CpuList \ (seen \cup late)
  /\ State' = [p \in CPU |-> IF p \in seen \cup late THEN "idle" ELSE State[p]]

\* Faulty variant: looked for among all the APs of the call, the finished ones included.
NextWaiting_Finished(seen) ==
  IF param[sysCall].single /\ seen # {} /\ CpuList \ seen # {} THEN {Min(CpuList)} ELSE {}

\* GetNextWaitingProcessorNumber, when the APs in seen have been found finished:
\* a single-threaded call goes on with the next waiting AP.
NextWaiting(seen) ==
  LET rest == CpuList \ seen
  IN  IF param[sysCall].single /\ seen # {} /\ rest # {} THEN {Min(rest)} ELSE {}

\* CheckAllAPs: EFI_SUCCESS, EFI_NOT_READY, EFI_TIMEOUT.
AllFinished ==
  /\ \A p \in CpuList : Unlocked(p)
  /\ FinishCount + Cardinality(Finished) = StartCount
  /\ Collect(Finished, {})
  /\ Assign(NextWaiting(Finished), sysCall) /\ Launch(NextWaiting(Finished), {})
  /\ result' = [result EXCEPT ![sysCall] = "success"]
  /\ UNCHANGED failed

AllNotReady ==
  /\ \A p \in CpuList : Unlocked(p)
  /\ FinishCount + Cardinality(Finished) # StartCount /\ sysCall \notin due
  /\ Collect(Finished, {})
  /\ Assign(NextWaiting(Finished), sysCall) /\ Launch(NextWaiting(Finished), {})
  /\ UNCHANGED <<result, failed>>

\* The APs that were not finished when they were looked at are reset, even if
\* they have finished since.
AllTimeout ==
  \E seen \in SUBSET Finished :
    LET late == CpuList \ seen
    IN  /\ \A p \in CpuList : Unlocked(p)
        /\ FinishCount + Cardinality(seen) # StartCount /\ sysCall \in due
        /\ Collect(seen, late)
        /\ Assign(NextWaiting(seen), sysCall) /\ Launch({}, late)
        /\ result' = [result EXCEPT ![sysCall] = "timeout"]
        /\ failed' = [failed EXCEPT ![sysCall] = late]

\* CheckThisAP for call k on AP p.
ThisFinished(p, k) ==
  /\ Unlocked(p) /\ State[p] = "finished"
  /\ State' = [State EXCEPT ![p] = "idle"]
  /\ result' = [result EXCEPT ![k] = "success"]
  /\ UNCHANGED <<Procedure, wakeVars, apVars, failed>>

ThisNotReady(p, k) ==
  /\ Unlocked(p) /\ State[p] # "finished" /\ k \notin due
  /\ UNCHANGED <<State, Procedure, wakeVars, apVars, result, failed>>

ThisTimeout(p, k) ==
  /\ k \in due /\ Unlocked(p)
  /\ State' = [State EXCEPT ![p] = "idle"]
  /\ Launch({}, {p})
  /\ result' = [result EXCEPT ![k] = "timeout"]
  /\ failed' = [failed EXCEPT ![k] = {p}]
  /\ UNCHANGED <<Procedure, ApLoopMode, StartupApSignal>>
-----------------------------------------------------------------------------
(* CheckAndUpdateAPsStatus                                                 *)

Pending == sysEvent # NULL \/ \E p \in CPU : WaitEvent[p] # NULL

\* CheckAPsStatus, the timer callback: not while a service is in progress.
\* (Without a call to check on it has no effect.)
CheckAPsStatus ==
  /\ bsp \in {"free", "switched"} /\ ~mStopCheckAPsStatus /\ Pending
  /\ bsp' = "update" /\ index' = 0
  /\ UNCHANGED <<blockVars, wakeVars, sysVars, apVars, call, mStopCheckAPsStatus, callVars, ran, off, roleVars>>

\* "First, check whether pending StartupAllAPs() exists."
UpdateAll ==
  /\ bsp = "update" /\ index = 0 /\ index' = 1
  /\ \/ /\ sysEvent = NULL
        /\ UNCHANGED <<State, Procedure, wakeVars, sysVars, apVars, result, failed>>
     \/ /\ sysEvent # NULL /\ AllNotReady
        /\ UNCHANGED <<StartCount, sysEvent, sysCall>>
     \/ /\ sysEvent # NULL /\ (AllFinished \/ AllTimeout)
        /\ sysEvent' = NULL
        /\ UNCHANGED <<StartCount, sysCall>>
  /\ UNCHANGED <<WaitEvent, bsp, call, mStopCheckAPsStatus, param, given, due, calls, ran, off, roleVars>>

\* The pending StartupThisAP calls that the loop has not come to.
Waiting == {p \in CPU : WaitEvent[p] # NULL /\ index <= p + 1}

\* "Second, check whether pending StartupThisAPs() callings exist."
UpdateThis ==
  /\ bsp = "update" /\ index > 0 /\ Waiting # {}
  /\ LET ProcessorNumber == Min(Waiting)
         k == WaitEvent[ProcessorNumber]
     IN  /\ index' = ProcessorNumber + 2
         /\ \/ ThisNotReady(ProcessorNumber, k) /\ UNCHANGED WaitEvent
            \/ /\ ThisFinished(ProcessorNumber, k) \/ ThisTimeout(ProcessorNumber, k)
               /\ WaitEvent' = [WaitEvent EXCEPT ![ProcessorNumber] = NULL]
  /\ UNCHANGED <<sysVars, bsp, call, mStopCheckAPsStatus, param, given, due, calls, ran, off, roleVars>>

UpdateDone ==
  /\ bsp = "update" /\ index > 0 /\ Waiting = {} /\ index' = 0
  /\ bsp' = IF call = NULL THEN "free"
            ELSE IF param[call].kind = "switch" THEN "switched" ELSE "start"
  /\ UNCHANGED <<blockVars, wakeVars, sysVars, apVars, call, mStopCheckAPsStatus, callVars, ran, off,
                 roleVars>>
-----------------------------------------------------------------------------
(* The services                                                            *)

\* StartupAllAPs and StartupThisAP up to the call of CheckAndUpdateAPsStatus.
Startup(r) ==
  /\ bsp = "free" /\ calls < MaxCalls
  /\ Careful => (r.kind = "all" => sysEvent = NULL) /\ ~mBspSwitched
  /\ r.kind = "this" => r.target # BspNumber
  /\ calls' = calls + 1 /\ call' = calls + 1 /\ param' = [param EXCEPT ![calls + 1] = r]
  /\ mStopCheckAPsStatus' = TRUE
  /\ bsp' = "update" /\ index' = 0
  /\ UNCHANGED <<blockVars, wakeVars, sysVars, apVars, given, result, due, failed, ran, off, roleVars>>

\* A service returns: to its caller, or to the OS loader.
Return ==
  /\ bsp' = IF call = Bye THEN "booted" ELSE "free"
  /\ call' = NULL /\ mStopCheckAPsStatus' = FALSE

\* The APs a call is for, and those of them that stand in its way.
Enabled == {p \in AP : State[p] # "disabled"}
NotIdle == {p \in Enabled : State[p] # "idle"}

\* StartupAllAPs refuses; the entries of CpuList it has passed are overwritten.
StartAllNotReady ==
  /\ bsp = "start" /\ param[call].kind = "all" /\ NotIdle # {}
  /\ LET first == Min(NotIdle)
     IN  CpuList' = {p \in Enabled : p < first} \cup {p \in CpuList : p > first}
  /\ result' = [result EXCEPT ![call] = "notready"]
  /\ Return
  /\ UNCHANGED <<blockVars, wakeVars, StartCount, FinishCount, sysEvent, sysCall, apVars, index,
                 param, given, due, failed, calls, ran, off, roleVars>>

\* StartupAllAPs dispatches to all enabled APs, or to the first of them.
StartAll ==
  /\ bsp = "start" /\ param[call].kind = "all" /\ NotIdle = {} /\ Enabled # {}
  /\ \A p \in Enabled : Unlocked(p)
  /\ LET woken == IF param[call].single THEN {Min(Enabled)} ELSE Enabled
     IN  Assign(woken, call) /\ Launch(woken, {})
  /\ State' = [p \in CPU |-> IF p \in Enabled THEN "ready" ELSE State[p]]
  /\ CpuList' = Enabled /\ StartCount' = Cardinality(Enabled) /\ FinishCount' = 0
  /\ sysCall' = call
  /\ given' = [given EXCEPT ![call] = Enabled]
  /\ result' = [result EXCEPT ![call] = "pending"]
  /\ IF param[call].event
       THEN sysEvent' = call /\ Return
       ELSE sysEvent' = NULL /\ bsp' = "poll" /\ UNCHANGED <<call, mStopCheckAPsStatus>>
  /\ UNCHANGED <<WaitEvent, index, param, due, failed, calls, ran, off, roleVars>>

\* "Support single-thread config": success without an AP.
StartAllNone ==
  /\ bsp = "start" /\ param[call].kind = "all" /\ Enabled = {}
  /\ CpuList' = {} /\ StartCount' = 0 /\ FinishCount' = 0
  /\ result' = [result EXCEPT ![call] = "success"]
  /\ Return
  /\ UNCHANGED <<blockVars, wakeVars, sysEvent, sysCall, apVars, index, param, given, due, failed,
                 calls, ran, off, roleVars>>

\* The do-while loop of a blocking StartupAllAPs.
PollAll ==
  /\ bsp = "poll" /\ param[call].kind = "all"
  /\ \/ AllNotReady /\ UNCHANGED <<bsp, call, mStopCheckAPsStatus>>
     \/ (AllFinished \/ AllTimeout) /\ Return
  /\ UNCHANGED <<WaitEvent, StartCount, sysEvent, sysCall, index, param, given, due, calls, ran, off, roleVars>>

\* Faulty variant: only a busy AP is refused.
Accepts_Disabled(p) == State[p] \in {"idle", "disabled"}

\* StartupThisAP refuses a disabled or a busy AP.
Accepts(p) == State[p] = "idle"

StartThisRefused ==
  /\ bsp = "start" /\ param[call].kind = "this" /\ ~Accepts(param[call].target)
  /\ result' = [result EXCEPT ![call] = "notready"]
  /\ Return
  /\ UNCHANGED <<blockVars, wakeVars, sysVars, apVars, index, param, given, due, failed, calls,
                 ran, off, roleVars>>

StartThis ==
  LET p == param[call].target
  IN  /\ bsp = "start" /\ param[call].kind = "this" /\ Accepts(p) /\ Unlocked(p)
      /\ Assign({p}, call) /\ Launch({p}, {})
      /\ State' = [State EXCEPT ![p] = "ready"]
      /\ given' = [given EXCEPT ![call] = {p}]
      /\ result' = [result EXCEPT ![call] = "pending"]
      /\ IF param[call].event
           THEN WaitEvent' = [WaitEvent EXCEPT ![p] = call] /\ Return
           ELSE WaitEvent' = [WaitEvent EXCEPT ![p] = NULL] /\ bsp' = "poll"
                /\ UNCHANGED <<call, mStopCheckAPsStatus>>
      /\ UNCHANGED <<sysVars, index, param, due, failed, calls, ran, off, roleVars>>

\* The do-while loop of a blocking StartupThisAP.
PollThis ==
  LET p == param[call].target
  IN  /\ bsp = "poll" /\ param[call].kind = "this"
      /\ \/ ThisNotReady(p, call) /\ UNCHANGED <<bsp, call, mStopCheckAPsStatus>>
         \/ (ThisFinished(p, call) \/ ThisTimeout(p, call)) /\ Return
      /\ UNCHANGED <<WaitEvent, sysVars, index, param, given, due, calls, ran, off, roleVars>>

\* The APs that ResetProcessorToIdleState is called for next.
ToReset ==
  IF bsp = "poll" /\ call \in due
    THEN IF param[call].kind = "all" THEN CpuList ELSE {param[call].target}
  ELSE IF bsp = "update" /\ index = 0 /\ sysEvent \in due THEN CpuList
  ELSE IF bsp = "update" /\ index > 0 /\ Waiting # {}
    THEN {p \in {Min(Waiting)} : WaitEvent[p] \in due}
  ELSE {}

\* The INIT hits an AP that has meanwhile taken its CpuDataLock: nobody will
\* release the lock, and the BSP, which takes it next, spins for ever.
ResetOrphansLock(p) ==
  /\ ~PromptWindows /\ p \in ToReset /\ ~Unlocked(p)
  /\ Launch({}, {p}) /\ bsp' = "spin"
  /\ UNCHANGED <<blockVars, ApLoopMode, StartupApSignal, sysVars, call, index, mStopCheckAPsStatus,
                 callVars, ran, off, roleVars>>

\* EnableDisableAP, ChangeCpuState.
EnableDisableAP(p, NewAPState) ==
  /\ bsp = "free" /\ p # BspNumber /\ "enable" \in Made /\ calls < MaxCalls /\ calls' = calls + 1
  /\ Careful => State[p] \in {"idle", "disabled"}
  /\ Unlocked(p)
  /\ State' = [State EXCEPT ![p] = IF NewAPState THEN "idle" ELSE "disabled"]
  /\ off' = IF NewAPState THEN off \ {p} ELSE off \cup {p}
  /\ UNCHANGED <<Procedure, WaitEvent, wakeVars, sysVars, apVars, roleVars, bspVars, param, given,
                 result, due, failed, ran>>

\* Faulty variant: a disabled AP counts as running.
ApRunning_Disabled == \E p \in AP : State[p] # "idle"

ApRunning == \E p \in AP : State[p] \notin {"idle", "disabled"}

-----------------------------------------------------------------------------
(* SwitchBSP                                                               *)

\* The checks of SwitchBSP.
SwitchRefused(r) ==
  /\ bsp = "free" /\ calls < MaxCalls /\ r.target # BspNumber /\ State[r.target] # "idle"
  /\ calls' = calls + 1 /\ param' = [param EXCEPT ![calls + 1] = r]
  /\ result' = [result EXCEPT ![calls + 1] = "notready"]
  /\ UNCHANGED <<blockVars, wakeVars, sysVars, apVars, roleVars, bspVars, given, due, failed, ran, off>>

\* SwitchBSP up to its call of AsmExchangeRole, with interrupts off.  The state
\* of the AP stays Idle until ApProcWrapper changes it.
SwitchBSP(r) ==
  /\ bsp = "free" /\ calls < MaxCalls /\ r.target # BspNumber /\ State[r.target] = "idle"
  /\ Careful => ~Pending /\ ~mBspSwitched /\ \A p \in AP : pc[p] \in LoopPc
  /\ Unlocked(r.target)
  /\ calls' = calls + 1 /\ call' = calls + 1 /\ param' = [param EXCEPT ![calls + 1] = r]
  /\ result' = [result EXCEPT ![calls + 1] = "pending"]
  /\ Info' = [k \in {"bsp", "ap"} |-> [Info[k] EXCEPT !.State = "idle"]]
  /\ Assign({r.target}, Swap) /\ Launch({r.target}, {})
  /\ bsp' = "switch"
  /\ UNCHANGED <<State, WaitEvent, sysVars, LoopMode, BspNumber, mBspSwitched, mNewProcessorNumber, index,
                 mStopCheckAPsStatus, given, due, failed, ran, off>>

\* MyInfo and OthersInfo.
My(c) == IF c = BspNumber THEN "bsp" ELSE "ap"
Others(c) == IF c = BspNumber THEN "ap" ELSE "bsp"

SwapUnchanged == UNCHANGED <<State, WaitEvent, wakeVars, sysVars, LoopMode, BspNumber, mBspSwitched,
                             mNewProcessorNumber, call, index, mStopCheckAPsStatus, callVars, ran,
                             off>>

\* AsmExchangeRole: save the stack pointer and say so.
SwapStore(c) ==
  /\ pc[c] = "store" \/ (pc[c] = "bsp" /\ bsp = "switch")
  /\ pc' = [pc EXCEPT ![c] = "load"]
  /\ Info' = [Info EXCEPT ![My(c)] = [State |-> "stored", StackPointer |-> num[c]]]
  /\ UNCHANGED <<Procedure, proc, num, bsp>> /\ SwapUnchanged

\* WaitForOtherStored; go over to the other's stack, and with it to its code.
SwapLoad(c) ==
  /\ pc[c] = "load" /\ Info[Others(c)].State = "stored"
  /\ pc' = [pc EXCEPT ![c] = "unload"]
  /\ num' = [num EXCEPT ![c] = Info[Others(c)].StackPointer]
  /\ proc' = [proc EXCEPT ![c] = IF Info[Others(c)].StackPointer = BspStack THEN NULL ELSE Swap]
  /\ Info' = [Info EXCEPT ![Others(c)].State = "loaded"]
  /\ UNCHANGED <<Procedure, bsp>> /\ SwapUnchanged

\* Faulty variant: the stack is used before the other processor has left it.
OtherLoaded_Always(c) == TRUE

OtherLoaded(c) == Info[My(c)].State = "loaded"

\* WaitForOtherLoaded; then return on the new stack.  The new AP is in
\* FutureBSPProc, which ends, the new BSP in SwitchBSP, with interrupts on again.
SwapUnload(c) ==
  /\ pc[c] = "unload" /\ OtherLoaded(c)
  /\ \/ /\ num[c] = BspStack /\ bsp = "switch"
        /\ pc' = [pc EXCEPT ![c] = "bsp"] /\ bsp' = "switched"
        /\ UNCHANGED Procedure
     \/ /\ num[c] # BspStack
        /\ pc' = [pc EXCEPT ![c] = "clear"] /\ UNCHANGED bsp
        /\ Procedure' = [Procedure EXCEPT ![num[c]] = NULL]
  /\ UNCHANGED <<proc, num, Info>> /\ SwapUnchanged

Exchange(c) == SwapStore(c) \/ SwapLoad(c) \/ SwapUnload(c)

OldBspFinished == Unlocked(BspNumber) /\ State[BspNumber] = "finished"

\* The loop at the end of SwitchBSP, ChangeCpuState.
SwitchDone ==
  /\ bsp = "switched" /\ OldBspFinished
  /\ State' = [State EXCEPT ![BspNumber] = IF param[call].enable THEN "idle" ELSE "disabled"]
  /\ off' = IF param[call].enable THEN off \ {BspNumber} ELSE off \cup {BspNumber}
  /\ BspNumber' = param[call].target
  /\ result' = [result EXCEPT ![call] = "success"]
  /\ bsp' = "free" /\ call' = NULL
  /\ UNCHANGED <<Procedure, WaitEvent, wakeVars, sysVars, apVars, LoopMode, Info, mBspSwitched,
                 mNewProcessorNumber, index, mStopCheckAPsStatus, param, given, due, failed, calls,
                 ran>>
-----------------------------------------------------------------------------
(* ExitBootServices                                                        *)

\* ChangeApLoopModeCallBack: ExitBootServices or legacy boot.  It runs at
\* TPL_NOTIFY, above the timer callback.
ExitBootServices ==
  /\ bsp = "free" /\ "exit" \in Made /\ (Careful => ~mBspSwitched)
  /\ bsp' = "exit"
  /\ UNCHANGED <<blockVars, wakeVars, sysVars, apVars, call, index, mStopCheckAPsStatus, callVars,
                 ran, off, roleVars>>

ChangeApLoopModeCallBack ==
  /\ bsp = "exit" /\ ~ApRunning
  /\ call' = Bye
  /\ param' = [param EXCEPT ![Bye] = [NoParam EXCEPT !.kind = "all"]]
  /\ mStopCheckAPsStatus' = TRUE
  /\ bsp' = "update" /\ index' = 0
  /\ UNCHANGED <<blockVars, wakeVars, sysVars, apVars, given, result, due, failed, calls, ran, off, roleVars>>

\* The BSP waits in a loop, or has nothing left to do.
Idle ==
  /\ bsp \in {"exit", "spin", "booted"} \/ (bsp = "free" /\ calls = MaxCalls)
  /\ UNCHANGED vars
-----------------------------------------------------------------------------
BspStep ==
  \/ CheckAPsStatus \/ UpdateAll \/ UpdateThis \/ UpdateDone
  \/ StartAllNotReady \/ StartAll \/ StartAllNone \/ PollAll
  \/ StartThisRefused \/ StartThis \/ PollThis \/ SwitchDone \/ ChangeApLoopModeCallBack
  \/ \E p \in CPU : ResetOrphansLock(p)

Next ==
  \/ BspStep
  \/ \E r \in Wanted : Startup(r)
  \/ \E p \in CPU, b \in BOOLEAN : EnableDisableAP(p, b)
  \/ \E r \in SwitchParams : SwitchBSP(r) \/ SwitchRefused(r)
  \/ ExitBootServices
  \/ \E k \in Ids : Expire(k)
  \/ \E c \in CPU : ApStep(c) \/ ApRun(c) \/ ApBreak(c) \/ Exchange(c)
  \/ Idle

Spec == Init /\ [][Next]_vars

\* Processors keep executing and time passes.  A procedure returns unless its
\* call has a timeout; MWAIT is ended again and again where BreakEvents says so.
Runs(c) ==
  \/ ApStep(c) \/ ApBreak(c) \/ Exchange(c)
  \/ proc[c] \in Ids \cup {Bye} /\ ~param[proc[c]].timeout /\ ApRun(c)
Fairness ==
  WF_vars(BspStep) /\ (\A k \in Ids : WF_vars(Expire(k))) /\ \A c \in CPU : WF_vars(Runs(c))
FairSpec == Spec /\ Fairness
-----------------------------------------------------------------------------
\* StartCount APs were started: those that have been found finished, and those
\* CpuList says are still at it.  Otherwise FinishCount never reaches
\* StartCount and the call never ends (MpService.c 295-348, 969-1002).
CountsAgree ==
  sysCall # NULL /\ result[sysCall] = "pending"
    => FinishCount + Cardinality(CpuList) = StartCount

\* A procedure executes only while its call is outstanding: once the caller has
\* been told that it is done or has been aborted, it does not run, or run
\* again (975-1035, 1079-1101, 1479-1504).
RunsOnlyWhilePending ==
  \A c \in CPU : pc[c] = "run" => result[proc[c]] = "pending"

\* A call that reports success, or a timeout on other APs, has been executed
\* exactly once by every AP it was given to (975-1002, 1079-1089).
ReportsTrue ==
  \A k \in Ids : result[k] \in {"success", "timeout"} =>
    \A p \in given[k] \ failed[k] : ran[p][k] = 1

\* "If in Single Thread mode, then only one AP is woken up, and others are
\* waiting" (321-344, 984-995).
OneAtATime ==
  \A k \in Ids : param[k].single =>
    Cardinality({p \in given[k] : pc[p] \in WorkPc /\ Procedure[p] = k}) <= 1

\* "2 CPU may use 1 stack" while they exchange their roles (MpService.c 665-671,
\* MpFuncs.asm 430-431), and at no other time: a processor that returns from
\* AsmExchangeRole does so on a stack that the other one has left, and one that
\* waits in its loop does so on its own stack, by its own number.
StacksApart ==
  /\ \A c, d \in CPU : c # d /\ num[c] = num[d] => pc[c] \in SwapPc /\ pc[d] \in SwapPc
  /\ \A c \in CPU : pc[c] \in LoopPc => num[c] = c

\* The states the BSP goes by are true.  An AP that it takes for idle is in its
\* loop and has no task, so that a new procedure is not put in the place of one
\* in progress (298-318, 500-514), and one that it has disabled stays disabled
\* until it is enabled again (765, 774-813, 1281-1303), also as the old BSP of a
\* switch (749).
StatesTrue ==
  /\ bsp # "switch" => \A p \in AP : State[p] = "idle" => pc[p] \notin WorkPc
  /\ \A p \in off : State[p] = "disabled"

\* An AP in its loop that does not come to its procedure, however often it looks for the run
\* signal and at mApFunction.
Deaf(p) ==
  /\ pc[p] \in LoopPc
  /\ \/ pc[p] = "hlt" \/ ~StartupApSignal[num[p]] \/ mApFunction # "wrapper"
     \/ pc[p] \in {"armed", "sleep"} /\ ~BreakEvents

\* A processor that cannot go on with SwitchBSP before the other one has.
HeldUp(c) ==
  \/ Deaf(c)
  \/ pc[c] = "load" /\ Info[Others(c)].State # "stored"
  \/ pc[c] = "unload" /\ ~OtherLoaded(c)
  \/ pc[c] = "bsp" /\ bsp = "switched" /\ ~OldBspFinished

\* No wake-up is lost: an AP that is ready comes to its procedure, or waits for its turn in a
\* single-threaded call that another AP is at (MpService.c 457-552, 984-995; MpFuncs.asm
\* 352-386).  And while the BSP is switched, not both wait for each other (595-753,
\* MpFuncs.asm 429-528).
WorkGoesOn ==
  /\ \A p \in AP : State[p] = "ready" /\ Deaf(p) =>
       \/ bsp = "spin"
       \/ param[sysCall].single /\ \E a \in CpuList : State[a] # "ready" \/ ~Deaf(a)
  /\ bsp \in {"switch", "switched"} => \E c \in {BspNumber, param[call].target} : ~HeldUp(c)

\* Before the OS starts every enabled AP has been sent to the loop it stays in,
\* and is past its last look at the procedures of the boot phase.
ParkedAtBoot ==
  bsp = "booted" => \A p \in Enabled : ReadyToBootFlag[p] /\ pc[p] \in {"leave", "back", "loop", "hlt"}

\* What the callers see is what the protocol promises, whatever the APs are doing: no
\* procedure is executed twice, by an AP that is disabled, or after its call has ended;
\* no AP is given a procedure while it has another; nothing is reported of an
\* AP that has not happened; no switch of the BSP and no end of the boot services
\* comes before the procedures have ended (MpService.c 262-400, 457-552, 595-753,
\* 975-1101, MpCommon.c 249-272).
Protocol == INSTANCE MpCalls
  WITH Call <- Ids \cup {Bye}, Last <- Bye, outcome <- result, team <- given, lost <- failed,
       runs <- ran, lead <- BspNumber
ImplementsCalls == Protocol!Spec

\* Every call returns or signals its event while boot services last, also when
\* the procedure hangs and the call has a timeout, unless an INIT leaves a
\* CpuDataLock behind that nobody releases (MpService.c 350-362, 975-1035,
\* 1501-1503, and 738-746 for SwitchBSP).
CallsReturn ==
  [](bsp \notin {"exit", "spin"}) =>
    \A k \in Ids : result[k] = "pending" ~> result[k] \in {"success", "timeout"}

\* The system boots: the callback of ExitBootServices gets past its wait.
Boots == bsp = "exit" ~> bsp = "booted"
=============================================================================
