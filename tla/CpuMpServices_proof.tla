------------------------ MODULE CpuMpServices_proof ------------------------
(***************************************************************************)
(* The safety invariants of the MP services for every number of APs and of *)
(* calls.  Inv is about what the BSP knows: the counts of StartupAllAPs    *)
(* agree.  Strong adds what the processors do: procedures, states, stacks, *)
(* reports, the end of boot services; with it every step is a step of the  *)
(* abstract MpCalls or one that callers do not see.  WakeInv adds how APs  *)
(* are woken: no call waits for an AP that never comes to it.              *)
(***************************************************************************)
EXTENDS CpuMpServices, ProofLemmas, FiniteSetTheorems, TLAPS

Working == {"ready", "busy", "finished"}
Kind(k) == param[k].kind
Checked == sysCall # NULL /\ result[sysCall] = "pending"
NoneWaits == sysEvent = NULL /\ \A p \in CPU : WaitEvent[p] = NULL

Typing ==
  /\ State \in [CPU -> States] /\ WaitEvent \in [CPU -> Ids \cup {NULL}]
  /\ BspNumber \in CPU /\ CpuList \in SUBSET CPU
  /\ StartCount \in Nat /\ FinishCount \in Nat
  /\ calls \in 0..MaxCalls /\ index \in Nat
  /\ DOMAIN param = Ids \cup {Bye} /\ DOMAIN result = Ids \cup {Bye}
  /\ sysCall # NULL => sysCall \in Ids \cup {Bye}
  /\ call # NULL => call \in 1..calls \cup {Bye}
  /\ \A k \in Ids \cup {Bye} : Kind(k) \in {"this", "switch"} => param[k].target \in CPU

\* The call that CheckAllAPs looks at.
CheckedInv ==
  Checked =>
    /\ FinishCount + Cardinality(CpuList) = StartCount
    /\ \A p \in CpuList : p # BspNumber /\ State[p] \in Working /\ WaitEvent[p] = NULL
    /\ sysEvent = sysCall \/ (bsp \in {"poll", "spin"} /\ call = sysCall)

\* The calls that are given to APs are told apart by their kinds.
KindInv ==
  /\ Kind(Bye) # "this"
  /\ sysEvent # NULL => sysEvent = sysCall /\ Checked
  /\ sysCall # NULL =>
       /\ Kind(sysCall) = "all"
       /\ \/ sysCall \in 1..calls
          \/ bsp \in {"booted", "spin"}
          \/ bsp = "poll" /\ call = sysCall
  /\ \A p \in CPU : WaitEvent[p] # NULL =>
       WaitEvent[p] \in 1..calls /\ Kind(WaitEvent[p]) = "this" /\ State[p] \in Working

\* Where the BSP is.
BspInv ==
  /\ bsp \in {"start", "poll", "switch", "switched"} => call # NULL
  /\ bsp \in {"free", "exit", "booted"} => call = NULL
  /\ call # NULL /\ Kind(call) = "switch" => NoneWaits
  /\ bsp \in {"switch", "switched"} => Kind(call) = "switch"
  /\ bsp = "start" /\ Kind(call) = "all" => sysEvent = NULL
  /\ bsp = "update" /\ call # NULL /\ Kind(call) = "all" =>
       sysEvent = NULL \/ (index = 0 /\ CpuList = {})
  /\ bsp = "poll" /\ Kind(call) = "all" => call = sysCall /\ Checked /\ sysEvent = NULL
  /\ bsp = "poll" /\ Kind(call) = "this" =>
       LET p == param[call].target
       IN  State[p] \in Working /\ WaitEvent[p] = NULL /\ (Checked => p \notin CpuList)

Inv == Typing /\ CheckedInv /\ KindInv /\ BspInv

\* StartupThisAP and SwitchBSP are for a processor.
LEMMA TargetInCPU ==
  ASSUME Typing, call # NULL, Kind(call) \in {"this", "switch"}
  PROVE  param[call].target \in CPU /\ call \in Ids \cup {Bye}
<1>1. call \in Ids \cup {Bye}
  BY NumAssumption DEF Typing, Ids
<1> QED BY <1>1 DEF Typing

-----------------------------------------------------------------------------
(* Steps that leave the services alone: those of the APs, the passage of   *)
(* time and the exchange of roles.                                         *)

LEMMA ServicesAlone ==
  ASSUME Inv, State' \in [CPU -> States], \A p \in CPU : State[p] \in Working => State'[p] \in Working,
         UNCHANGED <<WaitEvent, BspNumber, CpuList, StartCount, FinishCount, sysEvent, sysCall,
                     calls, index, param, result, call>>,
         bsp' = bsp \/ (bsp = "switch" /\ bsp' = "switched")
  PROVE  Inv'
<1>1. Typing'
  BY DEF Inv, Typing, Kind
<1>2. CheckedInv'
  BY DEF Inv, Typing, CheckedInv, Checked
<1>3. KindInv'
  BY DEF Inv, KindInv, Checked, Kind
<1>4. BspInv'
  <2>1. NoneWaits' <=> NoneWaits
    BY DEF NoneWaits
  <2>2. call # NULL /\ Kind(call) = "this" => param[call].target \in CPU
    BY TargetInCPU DEF Inv
  <2>3. bsp' = "poll" /\ Kind(call') = "this" =>
          LET p == param'[call'].target
          IN  State'[p] \in Working /\ WaitEvent'[p] = NULL /\ (Checked' => p \notin CpuList')
    BY <2>2 DEF Inv, BspInv, Checked, Kind
  <2>4. bsp' = "poll" /\ Kind(call') = "all" => call' = sysCall' /\ Checked' /\ sysEvent' = NULL
    BY DEF Inv, BspInv, Checked, Kind
  <2> QED BY <2>1, <2>3, <2>4 DEF Inv, BspInv, Kind
<1> QED BY <1>1, <1>2, <1>3, <1>4 DEF Inv

\* A processor only ever declares itself busy or finished.
LEMMA ApKeeps ==
  ASSUME Inv, NEW c \in CPU, ApStep(c) \/ ApRun(c) \/ ApBreak(c) \/ Exchange(c)
  PROVE  Inv'
<1>1. \/ UNCHANGED State
      \/ \E p : State' = [State EXCEPT ![p] = "busy"]
      \/ \E p : State' = [State EXCEPT ![p] = "finished"]
  BY DEF ApStep, ApRun, ApBreak, Exchange, ApLoop, ApMwait, ApPoll, ApBusy, ApFetch, ApClear, ApFlag,
         ApNumber, ApFinish, ApLeave, ApBack, SwapStore, SwapLoad, SwapUnload, SwapUnchanged, blockVars
<1>2. State' \in [CPU -> States] /\ \A p \in CPU : State[p] \in Working => State'[p] \in Working
  BY <1>1 DEF Inv, Typing, States, Working
<1>3. CASE ApStep(c) \/ ApRun(c) \/ ApBreak(c)
  <2>1. UNCHANGED <<WaitEvent, BspNumber, sysVars, bspVars, callVars>>
    BY <1>3 DEF ApStep, ApRun, ApBreak, ApLoop, ApMwait, ApPoll, ApBusy, ApFetch, ApClear, ApFlag,
         ApNumber, ApFinish, ApLeave, ApBack, ApUnchanged, blockVars, roleVars
  <2> QED BY <1>2, <2>1, ServicesAlone DEF sysVars, bspVars, callVars
<1>4. CASE Exchange(c)
  <2>1. UNCHANGED <<WaitEvent, BspNumber, sysVars, call, index, callVars>>
    BY <1>4 DEF Exchange, SwapStore, SwapLoad, SwapUnload, SwapUnchanged
  <2>2. bsp' = bsp \/ (bsp = "switch" /\ bsp' = "switched")
    BY <1>4 DEF Exchange, SwapStore, SwapLoad, SwapUnload
  <2> QED BY <1>2, <2>1, <2>2, ServicesAlone DEF sysVars, callVars
<1> QED BY <1>3, <1>4

-----------------------------------------------------------------------------
(* CheckAllAPs.                                                            *)

CheckAll == AllFinished \/ AllNotReady \/ AllTimeout

\* What is left of CpuList has not been counted; APs that are not in it are
\* left alone; a call whose list is empty ends.
LEMMA CheckAllFacts ==
  ASSUME Typing, CheckedInv, Checked, CheckAll
  PROVE  /\ State' \in [CPU -> States] /\ CpuList' \subseteq CpuList /\ FinishCount' \in Nat
         /\ DOMAIN result' = DOMAIN result
         /\ \A p \in CPU \ CpuList : State'[p] = State[p]
         /\ \/ result'[sysCall] # "pending"
            \/ /\ AllNotReady /\ UNCHANGED result /\ CpuList # {}
               /\ FinishCount' + Cardinality(CpuList') = StartCount
               /\ \A p \in CpuList' : State'[p] = State[p]
<1>1. IsFiniteSet(CpuList)
  <2>1. IsFiniteSet(CPU)
    BY NumAssumption, FS_Interval DEF CPU
  <2> QED BY <2>1, FS_Subset DEF Typing
<1>2. \A S \in SUBSET CpuList : Cardinality(S) \in Nat
                                /\ Cardinality(CpuList \ S) = Cardinality(CpuList) - Cardinality(S)
  <2> SUFFICES ASSUME NEW S \in SUBSET CpuList
               PROVE  Cardinality(S) \in Nat
                      /\ Cardinality(CpuList \ S) = Cardinality(CpuList) - Cardinality(S)
    OBVIOUS
  <2>1. IsFiniteSet(S) /\ CpuList \cap S = S
    BY <1>1, FS_Subset
  <2>2. Cardinality(CpuList \ S) = Cardinality(CpuList) - Cardinality(CpuList \cap S)
    BY <1>1, FS_Difference
  <2> QED BY <2>1, <2>2, FS_CardinalityType
<1>3. Cardinality(CpuList) \in Nat /\ FinishCount \in Nat /\ StartCount \in Nat
      /\ FinishCount + Cardinality(CpuList) = StartCount
  BY <1>2 DEF Typing, CheckedInv
<1>4. Finished \in SUBSET CpuList
  BY DEF Finished
<1>5. ASSUME NEW seen \in SUBSET CpuList, NEW late \in SUBSET CpuList, Collect(seen, late)
      PROVE  /\ State' \in [CPU -> States] /\ CpuList' \subseteq CpuList /\ FinishCount' \in Nat
             /\ \A p \in CPU \ (seen \cup late) : State'[p] = State[p]
             /\ FinishCount' + Cardinality(CpuList \ seen) = StartCount
             /\ CpuList' = CpuList \ (seen \cup late)
  <2>1. /\ State' = [p \in CPU |-> IF p \in seen \cup late THEN "idle" ELSE State[p]]
        /\ CpuList' = CpuList \ (seen \cup late) /\ FinishCount' = FinishCount + Cardinality(seen)
    BY <1>5 DEF Collect
  <2>2. FinishCount' \in Nat /\ FinishCount' + Cardinality(CpuList \ seen) = StartCount
    <3>1. /\ Cardinality(seen) \in Nat
          /\ Cardinality(CpuList \ seen) = Cardinality(CpuList) - Cardinality(seen)
      BY <1>2
    <3> QED BY <1>3, <2>1, <3>1
  <2> QED BY <2>1, <2>2 DEF Typing, States
<1>6. sysCall \in DOMAIN result
  BY DEF Typing, Checked
<1>7. {} \in SUBSET CpuList
  OBVIOUS
<1>8. CASE AllNotReady
  <2>1. Collect(Finished, {}) /\ UNCHANGED result
    BY <1>8 DEF AllNotReady
  <2>2. CpuList # {}
    <3>1. ASSUME CpuList = {} PROVE FALSE
      <4>1. Finished = {} /\ Cardinality(Finished) = Cardinality(CpuList)
        BY <3>1, <1>4
      <4> QED BY <1>3, <1>8, <4>1 DEF AllNotReady
    <3> QED BY <3>1
  <2>3. /\ State' \in [CPU -> States] /\ CpuList' \subseteq CpuList /\ FinishCount' \in Nat
        /\ \A p \in CPU \ (Finished \cup {}) : State'[p] = State[p]
        /\ FinishCount' + Cardinality(CpuList \ Finished) = StartCount
        /\ CpuList' = CpuList \ (Finished \cup {})
    BY <1>4, <1>5, <1>7, <2>1, Zenon
  <2>4. Finished \cup {} = Finished
    OBVIOUS
  <2>5. /\ \A p \in CPU \ CpuList : State'[p] = State[p]
        /\ \A p \in CpuList' : State'[p] = State[p]
    BY <1>4, <2>3, <2>4 DEF Typing
  <2> QED BY <1>8, <2>1, <2>2, <2>3, <2>4, <2>5
<1>9. CASE AllFinished
  <2>1. Collect(Finished, {}) /\ result' = [result EXCEPT ![sysCall] = "success"]
    BY <1>9 DEF AllFinished
  <2>2. /\ State' \in [CPU -> States] /\ CpuList' \subseteq CpuList /\ FinishCount' \in Nat
        /\ \A p \in CPU \ (Finished \cup {}) : State'[p] = State[p]
    BY <1>4, <1>5, <1>7, <2>1, Zenon
  <2>3. \A p \in CPU \ CpuList : State'[p] = State[p]
    BY <1>4, <2>2
  <2> QED BY <1>6, <2>1, <2>2, <2>3
<1>10. CASE AllTimeout
  <2>1. PICK seen \in SUBSET Finished :
          Collect(seen, CpuList \ seen) /\ result' = [result EXCEPT ![sysCall] = "timeout"]
    BY <1>10 DEF AllTimeout
  <2>2. seen \in SUBSET CpuList /\ CpuList \ seen \in SUBSET CpuList
    BY <1>4
  <2>3. /\ State' \in [CPU -> States] /\ CpuList' \subseteq CpuList /\ FinishCount' \in Nat
        /\ \A p \in CPU \ (seen \cup (CpuList \ seen)) : State'[p] = State[p]
    BY <1>5, <2>1, <2>2, Zenon
  <2>4. \A p \in CPU \ CpuList : State'[p] = State[p]
    BY <2>2, <2>3
  <2> QED BY <1>6, <2>1, <2>3, <2>4
<1> QED BY <1>8, <1>9, <1>10 DEF CheckAll

LEMMA UpdateAllKeeps ==
  ASSUME Inv, UpdateAll
  PROVE  Inv'
<1>1. /\ bsp = "update" /\ index = 0 /\ index' = 1
      /\ UNCHANGED <<WaitEvent, bsp, call, param, calls, StartCount, sysCall, BspNumber>>
  BY DEF UpdateAll, roleVars, sysVars
<1>2. CASE sysEvent = NULL /\ UNCHANGED <<State, sysVars, result>>
  <2>1. Typing' /\ CheckedInv' /\ KindInv'
    BY <1>1, <1>2 DEF Inv, Typing, CheckedInv, KindInv, Checked, Kind, sysVars
  <2>2. BspInv'
    BY <1>1, <1>2 DEF Inv, BspInv, NoneWaits, Checked, Kind, sysVars
  <2> QED BY <2>1, <2>2 DEF Inv
<1>3. CASE sysEvent # NULL /\ CheckAll
  <2>1. Checked
    BY <1>3 DEF Inv, KindInv
  <2>2. /\ State' \in [CPU -> States] /\ CpuList' \subseteq CpuList /\ FinishCount' \in Nat
        /\ DOMAIN result' = DOMAIN result
        /\ \A p \in CPU \ CpuList : State'[p] = State[p]
    BY <1>3, <2>1, CheckAllFacts DEF Inv
  <2>3. \/ result'[sysCall] # "pending" /\ sysEvent' = NULL
        \/ /\ UNCHANGED <<result, sysEvent>> /\ CpuList # {}
           /\ FinishCount' + Cardinality(CpuList') = StartCount
           /\ \A p \in CpuList' : State'[p] = State[p]
    <3>1. \/ AllNotReady /\ UNCHANGED sysEvent /\ UNCHANGED result
          \/ sysEvent' = NULL /\ result'[sysCall] # "pending"
      <4>1. sysCall \in DOMAIN result
        BY <2>1 DEF Inv, Typing, Checked
      <4> QED BY <1>3, <4>1 DEF UpdateAll, AllNotReady, AllFinished, AllTimeout
    <3> QED BY <1>3, <2>1, <3>1, CheckAllFacts DEF Inv, Checked
  <2>4. Typing'
    BY <1>1, <2>2 DEF Inv, Typing, Kind
  <2>5. CheckedInv'
    BY <1>1, <2>2, <2>3 DEF Inv, CheckedInv, Checked
  <2>6. \A p \in CPU : WaitEvent[p] # NULL => State'[p] = State[p]
    BY <2>1, <2>2 DEF Inv, CheckedInv
  <2>7. KindInv'
    BY <1>1, <2>1, <2>3, <2>6 DEF Inv, KindInv, Checked, Kind
  <2>8. call # NULL /\ Kind(call) = "all" => sysEvent' = NULL
    BY <1>1, <1>3, <2>3 DEF Inv, BspInv
  <2>9. call # NULL => Kind(call) # "switch"
    BY <1>3 DEF Inv, BspInv, NoneWaits
  <2>10. BspInv'
    BY <1>1, <2>8, <2>9 DEF Inv, BspInv, Kind
  <2> QED BY <2>4, <2>5, <2>7, <2>10 DEF Inv
<1> QED BY <1>2, <1>3 DEF UpdateAll, CheckAll

LEMMA PollAllKeeps ==
  ASSUME Inv, PollAll
  PROVE  Inv'
<1>1. /\ bsp = "poll" /\ Kind(call) = "all"
      /\ UNCHANGED <<WaitEvent, index, param, calls, StartCount, sysCall, sysEvent, BspNumber>>
  BY DEF PollAll, Kind, roleVars
<1>2. call = sysCall /\ Checked /\ sysEvent = NULL /\ CheckAll
  BY <1>1 DEF Inv, BspInv, PollAll, CheckAll
<1>3. /\ State' \in [CPU -> States] /\ CpuList' \subseteq CpuList /\ FinishCount' \in Nat
      /\ DOMAIN result' = DOMAIN result
      /\ \A p \in CPU \ CpuList : State'[p] = State[p]
  BY <1>2, CheckAllFacts DEF Inv
<1>4. \/ /\ result'[sysCall] # "pending" /\ call' = NULL
         /\ bsp' = IF call = Bye THEN "booted" ELSE "free"
      \/ /\ UNCHANGED <<result, bsp, call>>
         /\ FinishCount' + Cardinality(CpuList') = StartCount
         /\ \A p \in CpuList' : State'[p] = State[p]
  <2>1. \/ AllNotReady /\ UNCHANGED <<bsp, call, result>>
        \/ result'[sysCall] # "pending" /\ Return
    <3>1. sysCall \in DOMAIN result
      BY <1>2 DEF Inv, Typing, Checked
    <3> QED BY <3>1 DEF PollAll, AllNotReady, AllFinished, AllTimeout
  <2> QED BY <1>2, <2>1, CheckAllFacts DEF Inv, Checked, Return
<1>5. Typing'
  BY <1>1, <1>3, <1>4 DEF Inv, Typing, Kind
<1>6. CheckedInv'
  BY <1>1, <1>2, <1>3, <1>4 DEF Inv, CheckedInv, Checked
<1>7. \A p \in CPU : WaitEvent[p] # NULL => State'[p] = State[p]
  BY <1>2, <1>3 DEF Inv, CheckedInv
<1>8. KindInv'
  BY <1>1, <1>2, <1>4, <1>7 DEF Inv, Typing, KindInv, Checked, Kind
<1>9. BspInv'
  BY <1>1, <1>2, <1>4 DEF Inv, BspInv, Checked, Kind
<1> QED BY <1>5, <1>6, <1>8, <1>9 DEF Inv

-----------------------------------------------------------------------------
(* StartupAllAPs.                                                          *)

\* At "start" no call to all APs is outstanding, if the new one is for all.
LEMMA StartAllChecks ==
  ASSUME Inv, bsp = "start", Kind(call) = "all"
  PROVE  /\ ~Checked /\ sysEvent = NULL /\ call \in 1..calls \cup {Bye} /\ call \in Ids \cup {Bye}
         /\ sysCall # NULL => sysCall \in 1..calls
<1>1. call # NULL /\ sysEvent = NULL /\ call \in 1..calls \cup {Bye}
  BY DEF Inv, Typing, BspInv
<1>2. ~Checked
  BY <1>1 DEF Inv, CheckedInv, Checked
<1>3. sysCall # NULL => sysCall \in 1..calls
  BY DEF Inv, KindInv
<1> QED BY <1>1, <1>2, <1>3, NumAssumption DEF Inv, Typing, Ids

\* After a return without a call to all APs outstanding.
LEMMA ReturnKeeps ==
  ASSUME Inv, bsp = "start", Kind(call) = "all", Return,
         UNCHANGED <<State, WaitEvent, BspNumber, sysEvent, sysCall, calls, index, param>>,
         CpuList' \in SUBSET CPU, StartCount' \in Nat, FinishCount' \in Nat,
         \E r \in {"notready", "success"} : result' = [result EXCEPT ![call] = r]
  PROVE  Inv'
<1>1. /\ ~Checked /\ sysEvent = NULL /\ call \in Ids \cup {Bye}
      /\ sysCall # NULL => sysCall \in 1..calls
  BY StartAllChecks
<1>2. call' = NULL /\ bsp' \in {"booted", "free"}
  BY DEF Return
<1>3. Typing' /\ ~Checked'
  BY <1>1, <1>2 DEF Inv, Typing, Checked, Kind
<1>4. KindInv'
  BY <1>1, <1>2 DEF Inv, KindInv, Kind
<1>5. BspInv'
  BY <1>2 DEF BspInv
<1> QED BY <1>3, <1>4, <1>5 DEF Inv, CheckedInv

LEMMA StartAllNotReadyKeeps ==
  ASSUME Inv, StartAllNotReady
  PROVE  Inv'
<1>1. CpuList' \in SUBSET CPU
  BY DEF StartAllNotReady, Enabled, AP, Inv, Typing
<1>2. /\ bsp = "start" /\ Kind(call) = "all" /\ Return
      /\ UNCHANGED <<State, WaitEvent, BspNumber, sysEvent, sysCall, calls, index, param, StartCount, FinishCount>>
      /\ result' = [result EXCEPT ![call] = "notready"]
  BY DEF StartAllNotReady, Kind, blockVars, roleVars
<1> QED BY <1>1, <1>2, ReturnKeeps DEF Inv, Typing

LEMMA StartAllNoneKeeps ==
  ASSUME Inv, StartAllNone
  PROVE  Inv'
<1>1. /\ bsp = "start" /\ Kind(call) = "all" /\ Return
      /\ UNCHANGED <<State, WaitEvent, BspNumber, sysEvent, sysCall, calls, index, param>>
      /\ CpuList' = {} /\ StartCount' = 0 /\ FinishCount' = 0
      /\ result' = [result EXCEPT ![call] = "success"]
  BY DEF StartAllNone, Kind, blockVars, roleVars
<1> QED BY <1>1, ReturnKeeps

LEMMA StartAllKeeps ==
  ASSUME Inv, StartAll
  PROVE  Inv'
<1>1. /\ bsp = "start" /\ Kind(call) = "all"
      /\ State' = [p \in CPU |-> IF p \in Enabled THEN "ready" ELSE State[p]]
      /\ CpuList' = Enabled /\ StartCount' = Cardinality(Enabled) /\ FinishCount' = 0
      /\ sysCall' = call /\ result' = [result EXCEPT ![call] = "pending"]
      /\ UNCHANGED <<WaitEvent, BspNumber, calls, index, param>>
  BY DEF StartAll, Kind, roleVars
<1>2. \/ sysEvent' = call /\ call' = NULL /\ bsp' = IF call = Bye THEN "booted" ELSE "free"
      \/ sysEvent' = NULL /\ bsp' = "poll" /\ call' = call
  BY DEF StartAll, Return
<1>3. /\ ~Checked /\ sysEvent = NULL /\ call \in 1..calls \cup {Bye} /\ call \in Ids \cup {Bye}
      /\ call # NULL /\ calls \in 0..MaxCalls
  BY <1>1, StartAllChecks, NumAssumption DEF Inv, Typing, Ids, NULL, Bye, BspInv
<1>4. \A p \in Enabled : p \in CPU /\ p # BspNumber /\ State[p] = "idle"
  BY DEF StartAll, NotIdle, Enabled, AP
<1>5. \A p \in Enabled : WaitEvent[p] = NULL
  BY <1>4 DEF Inv, KindInv, Working
<1>6. Cardinality(Enabled) \in Nat
  <2>1. IsFiniteSet(CPU)
    BY NumAssumption, FS_Interval DEF CPU
  <2> QED BY <1>4, <2>1, FS_Subset, FS_CardinalityType
<1>7. Enabled \in SUBSET CPU
  BY <1>4
<1> HIDE DEF Enabled
<1>8. Typing'
  BY <1>1, <1>2, <1>3, <1>6, <1>7 DEF Inv, Typing, Kind, States
<1>9. Checked'
  BY <1>1, <1>3 DEF Checked, Inv, Typing
<1>10. CheckedInv'
  BY <1>1, <1>2, <1>4, <1>5, <1>6 DEF CheckedInv, Working
<1>11. KindInv'
  <2>1. sysEvent' # NULL => sysEvent' = sysCall' /\ Checked'
    BY <1>1, <1>2, <1>9
  <2>2. /\ Kind(sysCall)' = "all"
        /\ \/ sysCall' \in 1..calls'
           \/ bsp' \in {"booted", "spin"}
           \/ bsp' = "poll" /\ call' = sysCall'
    BY <1>1, <1>2, <1>3 DEF Kind
  <2>3. \A p \in CPU : State[p] \in Working => State'[p] \in Working
    BY <1>1 DEF Working
  <2> QED BY <1>1, <2>1, <2>2, <2>3 DEF Inv, KindInv, Kind
<1>12. BspInv'
  BY <1>1, <1>2, <1>3, <1>9 DEF BspInv, Kind
<1> QED BY <1>8, <1>10, <1>11, <1>12 DEF Inv

-----------------------------------------------------------------------------
(* StartupThisAP.                                                          *)

\* The result of a call to one AP is not that of the call to all of them.
LEMMA OtherCall ==
  ASSUME Inv, NEW k, Kind(k) # "all", NEW r, result' = [result EXCEPT ![k] = r], UNCHANGED sysCall
  PROVE  (Checked' <=> Checked) /\ DOMAIN result' = DOMAIN result
<1>1. sysCall # NULL => Kind(sysCall) = "all" /\ sysCall \in DOMAIN result
  BY DEF Inv, KindInv, Typing
<1> QED BY <1>1 DEF Checked

LEMMA StartThisRefusedKeeps ==
  ASSUME Inv, StartThisRefused
  PROVE  Inv'
<1>1. /\ bsp = "start" /\ Kind(call) = "this" /\ result' = [result EXCEPT ![call] = "notready"]
      /\ UNCHANGED <<State, WaitEvent, BspNumber, CpuList, StartCount, FinishCount, sysEvent, sysCall,
                     calls, index, param>>
      /\ call' = NULL /\ bsp' \in {"booted", "free"}
  BY DEF StartThisRefused, Return, Kind, blockVars, roleVars, sysVars
<1>2. (Checked' <=> Checked) /\ DOMAIN result' = DOMAIN result
  BY <1>1, OtherCall
<1>3. Typing'
  BY <1>1, <1>2 DEF Inv, Typing, Kind
<1>4. CheckedInv' /\ KindInv' /\ BspInv'
  BY <1>1, <1>2 DEF Inv, CheckedInv, KindInv, BspInv, Kind
<1> QED BY <1>3, <1>4 DEF Inv

\* A procedure for one AP is handed over: the AP is not in CpuList.
LEMMA StartThisKeeps ==
  ASSUME Inv, StartThis
  PROVE  Inv'
<1> DEFINE p == param[call].target
<1>1. /\ bsp = "start" /\ Kind(call) = "this" /\ result' = [result EXCEPT ![call] = "pending"]
      /\ State[p] = "idle" /\ State' = [State EXCEPT ![p] = "ready"]
      /\ UNCHANGED <<BspNumber, CpuList, StartCount, FinishCount, sysEvent, sysCall, calls, index, param>>
  BY DEF StartThis, Accepts, Kind, roleVars, sysVars
<1>2. \/ WaitEvent' = [WaitEvent EXCEPT ![p] = call] /\ call' = NULL
         /\ bsp' = (IF call = Bye THEN "booted" ELSE "free")
      \/ WaitEvent' = [WaitEvent EXCEPT ![p] = NULL] /\ bsp' = "poll" /\ call' = call
  BY DEF StartThis, Return
<1>3. (Checked' <=> Checked) /\ DOMAIN result' = DOMAIN result
  BY <1>1, OtherCall
<1>4. p \in CPU /\ call # NULL /\ call \in 1..calls
  <2>1. call # NULL /\ call \in 1..calls \cup {Bye}
    BY <1>1 DEF Inv, Typing, BspInv
  <2>2. call # Bye
    BY <1>1 DEF Inv, KindInv
  <2> QED BY <1>1, <2>1, <2>2, TargetInCPU DEF Inv
<1>5. Checked => p \notin CpuList
  BY <1>1 DEF Inv, CheckedInv, Working
<1> HIDE DEF p
<1>6. Typing'
  BY <1>1, <1>2, <1>3, <1>4, NumAssumption DEF Inv, Typing, Kind, States, Ids
<1>7. CheckedInv'
  BY <1>1, <1>2, <1>3, <1>4, <1>5 DEF Inv, Typing, CheckedInv
<1>8. KindInv'
  BY <1>1, <1>2, <1>3, <1>4 DEF Inv, Typing, KindInv, Kind, Working
<1>9. BspInv'
  BY <1>1, <1>2, <1>3, <1>4, <1>5 DEF Inv, Typing, BspInv, Kind, Working, p
<1> QED BY <1>6, <1>7, <1>8, <1>9 DEF Inv

\* CheckThisAP for a call k on AP p that is outstanding.
LEMMA CheckThisFacts ==
  ASSUME Inv, NEW p \in CPU, NEW k, Kind(k) # "all", UNCHANGED sysCall,
         ThisFinished(p, k) \/ ThisNotReady(p, k) \/ ThisTimeout(p, k)
  PROVE  /\ (Checked' <=> Checked) /\ DOMAIN result' = DOMAIN result
         /\ State' \in [CPU -> States] /\ \A q \in CPU \ {p} : State'[q] = State[q]
<1>1. State' = [State EXCEPT ![p] = "idle"] \/ UNCHANGED State
  BY DEF ThisFinished, ThisNotReady, ThisTimeout
<1>2. UNCHANGED result \/ \E r : result' = [result EXCEPT ![k] = r]
  BY DEF ThisFinished, ThisNotReady, ThisTimeout
<1>3. (Checked' <=> Checked) /\ DOMAIN result' = DOMAIN result
  <2>1. CASE UNCHANGED result
    BY <2>1 DEF Checked
  <2>2. CASE \E r : result' = [result EXCEPT ![k] = r]
    BY <2>2, OtherCall
  <2> QED BY <1>2, <2>1, <2>2
<1> QED BY <1>1, <1>3 DEF Inv, Typing, States

LEMMA PollThisKeeps ==
  ASSUME Inv, PollThis
  PROVE  Inv'
<1> DEFINE p == param[call].target
<1>1. /\ bsp = "poll" /\ Kind(call) = "this"
      /\ UNCHANGED <<WaitEvent, BspNumber, CpuList, StartCount, FinishCount, sysEvent, sysCall, calls,
                     index, param>>
  BY DEF PollThis, Kind, roleVars, sysVars
<1>2. \/ ThisNotReady(p, call) /\ UNCHANGED <<bsp, call>>
      \/ (ThisFinished(p, call) \/ ThisTimeout(p, call)) /\ Return
  BY DEF PollThis
<1>3. p \in CPU /\ call # NULL /\ WaitEvent[p] = NULL /\ (Checked => p \notin CpuList)
  <2>1. call # NULL
    BY <1>1 DEF Inv, BspInv
  <2> QED BY <1>1, <2>1, TargetInCPU DEF Inv, BspInv
<1> HIDE DEF p
<1>4. /\ (Checked' <=> Checked) /\ DOMAIN result' = DOMAIN result
      /\ State' \in [CPU -> States] /\ \A q \in CPU \ {p} : State'[q] = State[q]
  BY <1>1, <1>2, <1>3, CheckThisFacts
<1>5. \/ UNCHANGED <<bsp, call, State, result>>
      \/ call' = NULL /\ bsp' \in {"free", "booted"}
  BY <1>2 DEF ThisNotReady, Return
<1>6. Typing'
  BY <1>1, <1>4, <1>5 DEF Inv, Typing, Kind
<1>7. Checked => sysEvent = sysCall
  BY <1>1 DEF Inv, CheckedInv, KindInv, Checked
<1>8. CheckedInv'
  BY <1>1, <1>3, <1>4, <1>7 DEF Inv, Typing, CheckedInv
<1>9. KindInv'
  BY <1>1, <1>3, <1>4, <1>5 DEF Inv, KindInv, Kind
<1>10. BspInv'
  BY <1>1, <1>4, <1>5 DEF Inv, BspInv, Kind
<1> QED BY <1>6, <1>8, <1>9, <1>10 DEF Inv

LEMMA UpdateThisKeeps ==
  ASSUME Inv, UpdateThis
  PROVE  Inv'
<1> DEFINE p == Min(Waiting)
           k == WaitEvent[p]
<1>1. /\ bsp = "update" /\ index > 0 /\ Waiting # {} /\ index' = p + 2
      /\ UNCHANGED <<bsp, BspNumber, CpuList, StartCount, FinishCount, sysEvent, sysCall, calls,
                     call, param>>
  BY DEF UpdateThis, roleVars, sysVars
<1>2. \/ ThisNotReady(p, k) /\ UNCHANGED WaitEvent
      \/ /\ ThisFinished(p, k) \/ ThisTimeout(p, k)
         /\ WaitEvent' = [WaitEvent EXCEPT ![p] = NULL]
  BY DEF UpdateThis
<1>3. p \in CPU /\ k # NULL
  <2>1. Waiting \in SUBSET Nat
    BY NumAssumption DEF Waiting, CPU
  <2>2. p \in Waiting
    BY <1>1, <2>1, Minimum, Zenon DEF Min
  <2> QED BY <2>2 DEF Waiting
<1>4. p \in Nat
  BY <1>3, NumAssumption DEF CPU
<1> HIDE DEF p
<1>5. Kind(k) = "this" /\ (Checked => p \notin CpuList)
  BY <1>3 DEF Inv, KindInv, CheckedInv
<1> HIDE DEF k
<1>6. /\ (Checked' <=> Checked) /\ DOMAIN result' = DOMAIN result
      /\ State' \in [CPU -> States] /\ \A q \in CPU \ {p} : State'[q] = State[q]
  BY <1>1, <1>2, <1>3, <1>5, CheckThisFacts
<1>7. \/ UNCHANGED <<WaitEvent, State>>
      \/ WaitEvent' = [WaitEvent EXCEPT ![p] = NULL]
  BY <1>2 DEF ThisNotReady
<1>8. /\ WaitEvent' \in [CPU -> Ids \cup {NULL}]
      /\ \A q \in CPU : WaitEvent'[q] = WaitEvent[q] \/ WaitEvent'[q] = NULL
      /\ \A q \in CPU : WaitEvent'[q] # NULL => State'[q] = State[q]
  BY <1>6, <1>7 DEF Inv, Typing
<1>9. Typing'
  BY <1>1, <1>4, <1>6, <1>8 DEF Inv, Typing, Kind
<1>10. CheckedInv'
  BY <1>1, <1>5, <1>6, <1>8 DEF Inv, Typing, CheckedInv
<1>11. KindInv'
  BY <1>1, <1>6, <1>8 DEF Inv, KindInv, Kind
<1>12. BspInv'
  <2>1. NoneWaits => NoneWaits'
    BY <1>1, <1>8 DEF NoneWaits
  <2> QED BY <1>1, <2>1 DEF Inv, BspInv, Kind
<1> QED BY <1>9, <1>10, <1>11, <1>12 DEF Inv

-----------------------------------------------------------------------------
(* The other steps of the BSP.                                             *)

LEMMA UpdateStepsKeep ==
  ASSUME Inv, CheckAPsStatus \/ UpdateDone
  PROVE  Inv'
<1>1. UNCHANGED <<State, WaitEvent, BspNumber, CpuList, StartCount, FinishCount, sysEvent, sysCall,
                  calls, call, param, result>> /\ index' = 0
  BY DEF CheckAPsStatus, UpdateDone, blockVars, sysVars, callVars, roleVars
<1>2. \/ bsp \in {"free", "switched"} /\ bsp' = "update" /\ Pending
      \/ /\ bsp = "update" /\ index > 0
         /\ bsp' = IF call = NULL THEN "free"
                   ELSE IF Kind(call) = "switch" THEN "switched" ELSE "start"
  BY DEF CheckAPsStatus, UpdateDone, Kind
<1>3. Typing'
  BY <1>1 DEF Inv, Typing, Kind
<1>4. CheckedInv'
  BY <1>1, <1>2 DEF Inv, CheckedInv, Checked
<1>5. KindInv'
  BY <1>1, <1>2 DEF Inv, KindInv, Checked, Kind
<1>6. (NoneWaits' <=> NoneWaits) /\ (Pending => ~NoneWaits)
  BY <1>1 DEF NoneWaits, Pending
<1>7. BspInv'
  BY <1>1, <1>2, <1>6 DEF Inv, Typing, BspInv, Kind
<1> QED BY <1>3, <1>4, <1>5, <1>7 DEF Inv

\* A service is called: its number is new.
LEMMA NewCall ==
  ASSUME Inv, bsp = "free", calls < MaxCalls, calls' = calls + 1,
         NEW r, param' = [param EXCEPT ![calls + 1] = r], r.kind \in {"this", "switch"} => r.target \in CPU,
         UNCHANGED <<State, WaitEvent, BspNumber, CpuList, StartCount, FinishCount, sysEvent, sysCall>>,
         call' = call \/ call' = calls + 1, index' \in Nat,
         UNCHANGED result \/ \E x : result' = [result EXCEPT ![calls + 1] = x]
  PROVE  /\ Typing' /\ CheckedInv' /\ KindInv' /\ param'[calls + 1].kind = r.kind
         /\ (NoneWaits' <=> NoneWaits) /\ call = NULL
<1>1. call = NULL /\ calls + 1 \in Ids /\ calls + 1 # Bye /\ calls + 1 \notin 1..calls
  BY NumAssumption DEF Inv, Typing, BspInv, Ids, Bye
<1>2. sysCall # NULL => sysCall \in 1..calls
  BY DEF Inv, KindInv
<1>3. \A k \in DOMAIN param \ {calls + 1} : param'[k] = param[k]
  OBVIOUS
<1>4. DOMAIN param' = DOMAIN param /\ DOMAIN result' = DOMAIN result /\ param'[calls + 1].kind = r.kind
  BY <1>1 DEF Inv, Typing, Kind
<1>5. Checked' <=> Checked
  BY <1>1, <1>2 DEF Inv, Typing, Checked
<1>6. Typing'
  <2>1. \A k \in Ids \cup {Bye} : param'[k].kind \in {"this", "switch"} => param'[k].target \in CPU
    BY <1>1, <1>3, <1>4 DEF Inv, Typing, Kind
  <2>2. calls' \in 0..MaxCalls /\ 1..calls \subseteq 1..calls' /\ calls + 1 \in 1..calls'
    BY NumAssumption DEF Inv, Typing
  <2>3. \A k \in Ids \cup {Bye} : Kind(k)' \in {"this", "switch"} => param'[k].target \in CPU
    BY <2>1 DEF Kind
  <2> QED BY <1>1, <1>4, <2>2, <2>3 DEF Inv, Typing
<1>7. CheckedInv'
  BY <1>5 DEF Inv, CheckedInv
<1>8. KindInv'
  <2>1. \A k \in 1..calls : k \in DOMAIN param \ {calls + 1} /\ k \in 1..calls'
    BY <1>1, NumAssumption DEF Inv, Typing, Ids
  <2>2. Bye \in DOMAIN param \ {calls + 1}
    BY <1>1 DEF Inv, Typing
  <2> QED BY <1>2, <1>3, <1>5, <2>1, <2>2 DEF Inv, KindInv, Kind
<1>9. NoneWaits' <=> NoneWaits
  BY DEF NoneWaits
<1> QED BY <1>1, <1>4, <1>6, <1>7, <1>8, <1>9

LEMMA StartupKeeps ==
  ASSUME Inv, Careful, NEW r \in Wanted, Startup(r)
  PROVE  Inv'
<1>1. r.kind \in {"all", "this"} /\ (r.kind = "this" => r.target \in CPU)
  BY DEF Wanted, Params
<1>2. /\ bsp = "free" /\ calls < MaxCalls /\ calls' = calls + 1 /\ call' = calls + 1
      /\ param' = [param EXCEPT ![calls + 1] = r] /\ bsp' = "update" /\ index' = 0
      /\ r.kind = "all" => sysEvent = NULL
      /\ UNCHANGED <<State, WaitEvent, BspNumber, CpuList, StartCount, FinishCount, sysEvent, sysCall, result>>
  BY DEF Startup, blockVars, sysVars, roleVars
<1>3. Typing' /\ CheckedInv' /\ KindInv' /\ param'[calls + 1].kind = r.kind
  BY <1>1, <1>2, NewCall
<1>4. BspInv'
  <2>1. Kind(call)' = r.kind
    BY <1>2, <1>3 DEF Kind
  <2> QED BY <1>1, <1>2, <2>1 DEF BspInv, Kind
<1> QED BY <1>3, <1>4 DEF Inv

LEMMA SwitchCallsKeep ==
  ASSUME Inv, Careful, NEW r \in SwitchParams, SwitchBSP(r) \/ SwitchRefused(r)
  PROVE  Inv'
<1>1. r.kind = "switch" /\ r.target \in CPU
  BY DEF SwitchParams
<1>2. /\ bsp = "free" /\ calls < MaxCalls /\ calls' = calls + 1
      /\ param' = [param EXCEPT ![calls + 1] = r] /\ index' = index
      /\ UNCHANGED <<State, WaitEvent, BspNumber, CpuList, StartCount, FinishCount, sysEvent, sysCall>>
      /\ \E x : result' = [result EXCEPT ![calls + 1] = x]
  BY DEF SwitchBSP, SwitchRefused, blockVars, sysVars, roleVars, bspVars
<1>3. \/ call' = calls + 1 /\ bsp' = "switch" /\ NoneWaits
      \/ call' = call /\ bsp' = bsp
  BY DEF SwitchBSP, SwitchRefused, bspVars, Pending, NoneWaits
<1>4. Typing' /\ CheckedInv' /\ KindInv' /\ param'[calls + 1].kind = r.kind /\ (NoneWaits' <=> NoneWaits) /\ call = NULL
  BY <1>1, <1>2, <1>3, NewCall DEF Inv, Typing
<1>5. BspInv'
  <2>1. CASE call' = calls + 1 /\ bsp' = "switch" /\ NoneWaits
    <3>1. Kind(call)' = r.kind /\ call' # NULL
      BY <1>2, <1>4, <2>1 DEF Kind, Inv, Typing, NULL
    <3> QED BY <1>1, <1>4, <2>1, <3>1 DEF BspInv
  <2>2. CASE call' = call /\ bsp' = bsp
    BY <1>2, <1>4, <2>2 DEF BspInv
  <2> QED BY <1>3, <2>1, <2>2
<1> QED BY <1>4, <1>5 DEF Inv

\* Nobody waits for an AP while roles are exchanged.
LEMMA SwitchDoneKeeps ==
  ASSUME Inv, SwitchDone
  PROVE  Inv'
<1>1. /\ bsp = "switched" /\ bsp' = "free" /\ call' = NULL
      /\ State' = [State EXCEPT ![BspNumber] = IF param[call].enable THEN "idle" ELSE "disabled"]
      /\ BspNumber' = param[call].target /\ result' = [result EXCEPT ![call] = "success"]
      /\ UNCHANGED <<WaitEvent, CpuList, StartCount, FinishCount, sysEvent, sysCall, calls, index, param>>
  BY DEF SwitchDone, sysVars
<1>2. Kind(call) = "switch" /\ NoneWaits
  BY <1>1 DEF Inv, BspInv
<1>3. ~Checked
  BY <1>1, <1>2 DEF Inv, CheckedInv, Checked, NoneWaits
<1>4. ~Checked' /\ DOMAIN result' = DOMAIN result
  BY <1>1, <1>2, <1>3, OtherCall
<1>5. BspNumber' \in CPU
  <2>1. call # NULL
    BY <1>1 DEF Inv, BspInv
  <2> QED BY <1>1, <1>2, <2>1, TargetInCPU DEF Inv
<1>6. Typing'
  BY <1>1, <1>4, <1>5 DEF Inv, Typing, Kind, States
<1>7. CheckedInv' /\ KindInv' /\ BspInv'
  BY <1>1, <1>2, <1>4 DEF Inv, CheckedInv, KindInv, BspInv, NoneWaits, Kind
<1> QED BY <1>6, <1>7 DEF Inv

LEMMA EnableDisableKeeps ==
  ASSUME Inv, Careful, NEW p \in CPU, NEW b \in BOOLEAN, EnableDisableAP(p, b)
  PROVE  Inv'
<1>1. /\ bsp = "free" /\ calls < MaxCalls /\ calls' = calls + 1
      /\ State[p] \in {"idle", "disabled"}
      /\ State' = [State EXCEPT ![p] = IF b THEN "idle" ELSE "disabled"]
      /\ UNCHANGED <<WaitEvent, BspNumber, CpuList, StartCount, FinishCount, sysEvent, sysCall,
                     bsp, call, index, param, result>>
  BY DEF EnableDisableAP, sysVars, roleVars, bspVars
<1>2. State' \in [CPU -> States] /\ \A q \in CPU : State[q] \in Working => State'[q] = State[q]
  BY <1>1 DEF Inv, Typing, States, Working
<1>3. calls' \in 0..MaxCalls /\ 1..calls \subseteq 1..calls' /\ call = NULL
  BY <1>1, NumAssumption DEF Inv, Typing, BspInv
<1>4. Typing'
  BY <1>1, <1>2, <1>3 DEF Inv, Typing, Kind
<1>5. CheckedInv'
  BY <1>1, <1>2 DEF Inv, Typing, CheckedInv, Checked
<1>6. KindInv'
  BY <1>1, <1>2, <1>3 DEF Inv, KindInv, Checked, Kind
<1>7. BspInv'
  BY <1>1, <1>3 DEF BspInv
<1> QED BY <1>4, <1>5, <1>6, <1>7 DEF Inv

\* When the callback of ExitBootServices has found no AP running, nothing is
\* left in CpuList.
LEMMA ExitKeeps ==
  ASSUME Inv, ExitBootServices \/ ChangeApLoopModeCallBack
  PROVE  Inv'
<1>1. UNCHANGED <<State, WaitEvent, BspNumber, CpuList, StartCount, FinishCount, sysEvent, sysCall,
                  calls, result>>
  BY DEF ExitBootServices, ChangeApLoopModeCallBack, blockVars, sysVars, callVars, roleVars
<1>2. CASE ExitBootServices
  <2>1. bsp = "free" /\ bsp' = "exit" /\ UNCHANGED <<call, index, param>>
    BY <1>2 DEF ExitBootServices, callVars
  <2>2. Typing'
    BY <1>1, <2>1 DEF Inv, Typing, Kind
  <2>3. CheckedInv' /\ KindInv' /\ BspInv'
    BY <1>1, <2>1 DEF Inv, CheckedInv, KindInv, BspInv, Checked, Kind
  <2> QED BY <2>2, <2>3 DEF Inv
<1>3. CASE ChangeApLoopModeCallBack
  <2>1. /\ bsp = "exit" /\ bsp' = "update" /\ ~ApRunning /\ call' = Bye /\ index' = 0
        /\ param' = [param EXCEPT ![Bye] = [NoParam EXCEPT !.kind = "all"]]
    BY <1>3 DEF ChangeApLoopModeCallBack
  <2>2. sysEvent # NULL => CpuList = {}
    <3>1. Checked => \A p \in CpuList : p \in AP /\ State[p] \notin {"idle", "disabled"}
      BY DEF Inv, Typing, CheckedInv, AP, Working
    <3> QED BY <2>1, <3>1 DEF ApRunning, Inv, KindInv
  <2>3. Bye \notin 1..calls /\ (sysCall # NULL => sysCall \in 1..calls)
    BY <2>1, NumAssumption DEF Inv, Typing, KindInv, Bye
  <2>4. /\ DOMAIN param' = DOMAIN param /\ Kind(Bye)' = "all"
        /\ \A k \in DOMAIN param \ {Bye} : param'[k] = param[k]
    BY <2>1 DEF Inv, Typing, Kind, NoParam
  <2>5. \A k \in 1..calls : k \in DOMAIN param \ {Bye}
    BY <2>3, NumAssumption DEF Inv, Typing, Ids
  <2>6. Typing'
    BY <1>1, <2>1, <2>4 DEF Inv, Typing, Kind
  <2>7. CheckedInv'
    BY <1>1, <2>1 DEF Inv, CheckedInv, Checked
  <2>8. KindInv'
    BY <1>1, <2>3, <2>4, <2>5 DEF Inv, KindInv, Checked, Kind
  <2>9. BspInv'
    BY <1>1, <2>1, <2>2, <2>4 DEF BspInv, Kind
  <2> QED BY <2>6, <2>7, <2>8, <2>9 DEF Inv
<1> QED BY <1>2, <1>3

\* Steps that change nothing the invariant is about, or only stop the BSP.
LEMMA OthersKeep ==
  ASSUME Inv,
         \/ \E p \in CPU : ResetOrphansLock(p)
         \/ \E k \in Ids : Expire(k)
         \/ UNCHANGED vars
  PROVE  Inv'
<1>1. CASE \E p \in CPU : ResetOrphansLock(p)
  <2>1. /\ bsp' = "spin" /\ bsp \in {"poll", "update"}
        /\ UNCHANGED <<State, WaitEvent, BspNumber, CpuList, StartCount, FinishCount, sysEvent, sysCall,
                       calls, call, index, param, result>>
    BY <1>1 DEF ResetOrphansLock, ToReset, blockVars, sysVars, callVars, roleVars
  <2>2. Typing'
    BY <2>1 DEF Inv, Typing, Kind
  <2>3. CheckedInv' /\ KindInv' /\ BspInv'
    BY <2>1 DEF Inv, CheckedInv, KindInv, BspInv, NoneWaits, Checked, Kind
  <2> QED BY <2>2, <2>3 DEF Inv
<1>2. CASE \/ \E k \in Ids : Expire(k)
           \/ UNCHANGED vars
  <2>1. UNCHANGED <<State, WaitEvent, BspNumber, CpuList, StartCount, FinishCount, sysEvent, sysCall,
                    calls, call, index, param, result, bsp>>
    BY <1>2 DEF Expire, vars, blockVars, sysVars, callVars, roleVars, bspVars
  <2> QED BY <2>1, ServicesAlone DEF Inv, Typing
<1> QED BY <1>1, <1>2

-----------------------------------------------------------------------------
LEMMA Initially == Init => Inv
<1> SUFFICES ASSUME Init PROVE Inv
  OBVIOUS
<1>1. Typing
  BY NumAssumption DEF Init, Typing, States, CPU, Kind, NoParam
<1>2. CheckedInv /\ KindInv /\ BspInv
  BY DEF Init, CheckedInv, KindInv, BspInv, Checked, NULL, Kind, NoParam
<1> QED BY <1>1, <1>2 DEF Inv

\* Every step of the system.
LEMMA InvKept ==
  ASSUME Careful, Inv, [Next]_vars
  PROVE  Inv'
<1>1. CASE BspStep
  BY <1>1, UpdateAllKeeps, UpdateThisKeeps, UpdateStepsKeep, StartAllNotReadyKeeps, StartAllKeeps,
     StartAllNoneKeeps, PollAllKeeps, StartThisRefusedKeeps, StartThisKeeps, PollThisKeeps,
     SwitchDoneKeeps, ExitKeeps, OthersKeep DEF BspStep
<1>2. CASE \E r \in Wanted : Startup(r)
  BY <1>2, StartupKeeps
<1>3. CASE \E p \in CPU, b \in BOOLEAN : EnableDisableAP(p, b)
  BY <1>3, EnableDisableKeeps
<1>4. CASE \E r \in SwitchParams : SwitchBSP(r) \/ SwitchRefused(r)
  BY <1>4, SwitchCallsKeep
<1>5. CASE ExitBootServices
  BY <1>5, ExitKeeps
<1>6. CASE \E c \in CPU : ApStep(c) \/ ApRun(c) \/ ApBreak(c) \/ Exchange(c)
  BY <1>6, ApKeeps
<1>7. CASE (\E k \in Ids : Expire(k)) \/ Idle \/ UNCHANGED vars
  BY <1>7, OthersKeep DEF Idle
<1> QED BY <1>1, <1>2, <1>3, <1>4, <1>5, <1>6, <1>7 DEF Next

(* StartupAllAPs and CheckAllAPs: as long as callers are careful, the APs  *)
(* that have been found finished and those that are still listed add up to *)
(* the APs that were started, for any number of them, of calls in any      *)
(* order, of timeouts, resets and changes of the BSP.                      *)
THEOREM CountsAlwaysAgree == ASSUME Careful PROVE Spec => []CountsAgree
<1>1. Init => Inv
  BY Initially
<1>2. Inv /\ [Next]_vars => Inv'
  BY InvKept
<1>3. Inv => CountsAgree
  BY DEF Inv, CheckedInv, Checked, CountsAgree
<1> QED BY <1>1, <1>2, <1>3, PTL DEF Spec

-----------------------------------------------------------------------------
(* What the processors do, for all the other invariants: nothing runs that *)
(* nobody waits for; reports, states and stacks are right.  Callers are    *)
(* Careful and calls have timeouts only where a reset ends a procedure     *)
(* (TimeoutsInHlt): Strong holds of no others.                             *)

\* A reset ends a procedure for good only where APs wait in HLT (section 6 of the
\* README shows what happens elsewhere): only there do calls have timeouts.
TimeoutsInHlt == \A m \in DOMAIN Calls : "timeout" \in Calls[m] => m = "hlt"

CallIds == Ids \cup {Bye}
Modes == {"hlt", "mwait", "run"}
Services == {"free", "update", "start", "poll", "spin", "switch", "switched", "exit", "booted"}
Results == {"none", "pending", "success", "notready", "timeout"}

Shapes ==
  /\ pc \in [CPU -> ProcPc] /\ num \in [CPU -> 0..BspStack]
  /\ proc \in [CPU -> CallIds \cup {NULL, Swap}] /\ Procedure \in [CPU -> CallIds \cup {NULL, Swap}]
  /\ StartupApSignal \in [CPU -> BOOLEAN] /\ ReadyToBootFlag \in [CPU -> BOOLEAN]
  /\ LoopMode \in DOMAIN Calls /\ ApLoopMode \in [CPU -> Modes]
  /\ result \in [CallIds -> Results] /\ given \in [CallIds -> SUBSET CPU]
  /\ failed \in [CallIds -> SUBSET CPU] /\ due \in SUBSET Ids
  /\ ran \in [CPU -> [CallIds -> Nat]]
  /\ Info \in [{"bsp", "ap"} -> [State : {"idle", "stored", "loaded"}, StackPointer : 0..BspStack]]
  /\ mBspSwitched \in BOOLEAN /\ mNewProcessorNumber \in CPU
  /\ bsp \in Services /\ off \in SUBSET CPU

\* What is known of the parameters of a call.
ParamInv ==
  /\ \A k \in CallIds :
       /\ param[k].timeout \in BOOLEAN /\ (param[k].timeout => k # Bye /\ LoopMode = "hlt")
       /\ param[k].single \in BOOLEAN /\ (param[k].single => k # Bye /\ Kind(k) = "all")
  /\ ~param[Bye].event
  /\ \A k \in due : param[k].timeout /\ result[k] # "none"

\* APs that are woken by INIT have no use for the run signal.
HltInv ==
  LoopMode = "hlt" => \A p \in CPU : /\ ApLoopMode[p] = "hlt" /\ ~StartupApSignal[p]
                                     /\ pc[p] \notin {"armed", "sleep", "poll"}

\* Call k is outstanding on AP p: it was given to the AP, and neither the call
\* nor the AP's part in it has been found finished.
Outstanding(p, k) ==
  /\ result[k] = "pending" /\ p \in given[k]
  /\ Kind(k) = "all" => p \in CpuList

\* A call that is outstanding is found by CheckAndUpdateAPsStatus, or the BSP
\* waits for it, and an AP has only one.
CallInv ==
  /\ \A k \in CallIds : result[k] = "none" => given[k] = {} /\ \A p \in CPU : ran[p][k] = 0
  /\ \A k \in Ids : calls < k => result[k] = "none"
  /\ result[Bye] # "none" => (bsp = "poll" /\ call = Bye) \/ bsp = "booted"
  /\ bsp \in {"update", "start"} /\ call # NULL => result[call] = "none"
  /\ call # NULL /\ Kind(call) = "switch" => bsp \in {"switch", "switched"}
  /\ call # NULL /\ Kind(call) = "this" => param[call].target # BspNumber
  /\ \A k \in CallIds : result[k] = "pending" =>
       \/ Kind(k) = "all" /\ k = sysCall
       \/ /\ Kind(k) = "this"
          /\ \E p \in AP : given[k] = {p} /\ (WaitEvent[p] = k \/ (bsp \in {"poll", "spin"} /\ call = k))
       \/ Kind(k) = "switch" /\ given[k] = {} /\ bsp \in {"switch", "switched"} /\ call = k
  /\ \A p \in CPU : WaitEvent[p] # NULL => result[WaitEvent[p]] = "pending" /\ given[WaitEvent[p]] = {p}
  /\ bsp = "poll" /\ Kind(call) = "this" =>
       result[call] = "pending" /\ given[call] = {param[call].target}
  /\ Checked => CpuList \subseteq given[sysCall]
  /\ \A p \in CPU, j, k \in CallIds : Outstanding(p, j) /\ Outstanding(p, k) => j = k

\* A switch of the BSP goes on; the old BSP has not come back from one that has
\* ended.
Switching == bsp \in {"switch", "switched"}
Normal == ~Switching /\ ~mBspSwitched

RestPc == LoopPc \cup {"back"}

\* Where AP p is with the call k that is outstanding on it.
Serves(p, k) ==
  /\ State[p] = "ready" =>
       /\ pc[p] \in RestPc \cup {"enter"} /\ ran[p][k] = 0
       /\ pc[p] = "enter" \/ StartupApSignal[p] => Procedure[p] = k
  /\ State[p] = "busy" =>
       \/ pc[p] \in {"fetch", "run"} /\ Procedure[p] = k /\ (pc[p] = "run" => proc[p] = k) /\ ran[p][k] = 0
       \/ pc[p] \in {"clear", "finish"} /\ proc[p] = NULL /\ Procedure[p] = NULL /\ ran[p][k] = 1
          /\ (pc[p] = "finish" => ~StartupApSignal[p])
       \/ bsp = "spin" /\ LoopMode = "hlt" /\ pc[p] \in LoopPc
  /\ State[p] = "finished" =>
       pc[p] \in RestPc \cup {"leave"} /\ ~StartupApSignal[p] /\ ran[p][k] = 1
       /\ (pc[p] = "leave" => proc[p] # Swap)

ApFits(p) ==
  /\ num[p] = p
  /\ State[p] \notin Working =>
       pc[p] \in RestPc /\ ~StartupApSignal[p] /\ \A k \in CallIds : ~Outstanding(p, k)
  /\ State[p] \in Working => \E k \in CallIds : Outstanding(p, k)
  /\ \A k \in CallIds : Outstanding(p, k) => Serves(p, k)

ApInv ==
  Normal => /\ pc[BspNumber] = "bsp" /\ num[BspNumber] = BspStack
            /\ \A p \in AP : ApFits(p)

\* An AP between two procedures.
Quiet(p) == num[p] = p /\ pc[p] \in LoopPc /\ State[p] \in {"idle", "disabled"} /\ ~StartupApSignal[p]

\* The old BSP of a switch that has ended has not got back to its loop.
TailInv ==
  ~Switching /\ mBspSwitched =>
    /\ bsp = "free" /\ NoneWaits
    /\ pc[BspNumber] = "bsp" /\ num[BspNumber] = BspStack
    /\ LET o == mNewProcessorNumber
       IN  /\ o # BspNumber /\ pc[o] = "back" /\ num[o] = BspNumber
           /\ State[o] \in {"idle", "disabled"} /\ ~StartupApSignal[o]
           /\ \A p \in AP \ {o} : Quiet(p)

\* The old BSP o and the new one n, from the call of AsmExchangeRole to the end of
\* SwitchBSP: whose stack they are on and what they have told each other.
NewFirst == LoopPc \cup {"enter", "fetch", "store"}
OldEnd == {"finish", "leave", "back"}
OldAfter == LoopPc \cup OldEnd \cup {"clear", "flag", "number"}
Exchanges(o, n) ==
  /\ \/ pc[n] \in LoopPc /\ StartupApSignal[n] /\ State[n] = "idle"
     \/ pc[n] = "enter" /\ State[n] = "idle"
     \/ pc[n] \in {"fetch", "store", "load", "unload", "bsp"} /\ State[n] = "busy"
  /\ pc[n] \in NewFirst => Procedure[n] = Swap
  /\ pc[n] \in {"store", "load"} => proc[n] = Swap
  /\ num[n] = IF pc[n] \in {"unload", "bsp"} THEN BspStack ELSE n
  /\ bsp = "switch" <=> pc[n] # "bsp"
  /\ pc[o] \in {"bsp", "load", "unload"} \cup OldAfter
  /\ num[o] = IF pc[o] \in {"bsp", "load"} THEN BspStack ELSE IF pc[o] \in LoopPc THEN o ELSE n
  /\ pc[o] \notin {"bsp", "load"} \cup LoopPc => proc[o] = Swap
  /\ Info["bsp"].State = IF pc[o] = "bsp" THEN "idle"
                         ELSE IF pc[n] \in {"unload", "bsp"} THEN "loaded" ELSE "stored"
  /\ Info["ap"].State = IF pc[n] \in NewFirst THEN "idle"
                        ELSE IF pc[o] \notin {"bsp", "load"} THEN "loaded" ELSE "stored"
  /\ pc[o] # "bsp" => Info["bsp"].StackPointer = BspStack
  /\ pc[n] \notin NewFirst => Info["ap"].StackPointer = n
  /\ pc[n] \in NewFirst => pc[o] \in {"bsp", "load"}
  /\ pc[n] \in {"unload", "bsp"} => pc[o] # "bsp"
  /\ pc[o] \in OldAfter => pc[n] \in {"unload", "bsp"}
  /\ pc[n] = "bsp" => pc[o] \notin {"bsp", "load"}
  /\ pc[o] \in {"flag", "number"} \cup OldEnd \cup LoopPc => ~StartupApSignal[n]
  /\ pc[o] \in OldEnd \cup LoopPc => ~StartupApSignal[o]
  /\ State[o] = "finished" <=> pc[o] \in {"leave", "back"} \cup LoopPc
  /\ mBspSwitched <=> pc[o] \in {"number"} \cup OldEnd
  /\ pc[o] \in OldEnd => mNewProcessorNumber = o

SwitchInv ==
  Switching =>
    /\ result[call] = "pending" /\ NoneWaits /\ param[call].target # BspNumber
    /\ \A p \in AP \ {param[call].target} : Quiet(p)
    /\ Exchanges(BspNumber, param[call].target)

\* A disabled AP stays disabled, and the BSP has no procedure that it has finished.
OffInv ==
  /\ BspNumber \notin off /\ \A p \in off : State[p] = "disabled"
  /\ ~Switching => State[BspNumber] # "finished"

\* All APs of a single-threaded call but one wait for their turn.
WaitsTurn(p) == State[p] = "ready" /\ pc[p] \in RestPc /\ ~StartupApSignal[p]
SingleInv ==
  Checked /\ param[sysCall].single => \E a \in CPU : \A p \in CpuList \ {a} : WaitsTurn(p)

ReportInv ==
  /\ \A k \in CallIds : result[k] \in {"success", "timeout"} =>
       \A p \in given[k] \ failed[k] : ran[p][k] = 1
  /\ Checked => \A p \in given[sysCall] \ CpuList : ran[p][sysCall] = 1
  /\ \A k \in CallIds : result[k] # "timeout" => failed[k] = {}

BootInv ==
  /\ \A p \in CPU : ReadyToBootFlag[p] <=> ran[p][Bye] = 1
  /\ \A p \in CPU : ReadyToBootFlag[p] => pc[p] \in {"clear", "finish", "leave", "back", "loop", "hlt"}
  /\ call = Bye => ~mBspSwitched /\ bsp \in {"update", "start", "poll"}
  /\ call = Bye /\ bsp \in {"update", "start"} => \A p \in AP : State[p] \in {"idle", "disabled"}
  /\ call = Bye /\ bsp = "poll" => given[Bye] = Enabled
  /\ bsp = "booted" =>
       ~mBspSwitched /\ (Enabled = {} \/ (result[Bye] = "success" /\ given[Bye] = Enabled))

Strong == /\ Inv /\ Shapes /\ ParamInv /\ HltInv /\ CallInv /\ ApInv /\ TailInv /\ SwitchInv
          /\ OffInv /\ SingleInv /\ ReportInv /\ BootInv
-----------------------------------------------------------------------------
(* Lemmas on numbers, calls and APs.                                       *)
LEMMA Numbers ==
  /\ BspStack \notin CPU /\ CPU \subseteq 0..BspStack /\ BspStack \in 0..BspStack
  /\ NULL \notin CallIds /\ Swap \notin CallIds /\ Swap # NULL /\ Bye # NULL /\ Bye \notin Ids
  /\ Ids \subseteq CallIds /\ Bye \in CallIds
BY NumAssumption DEF CPU, BspStack, NULL, Swap, Bye, CallIds, Ids

\* The AP that a call is outstanding on is not the BSP.
LEMMA OnAp ==
  ASSUME Inv, Shapes, CallInv, NEW p, NEW k \in CallIds, Outstanding(p, k)
  PROVE  p \in AP /\ (Kind(k) = "all" => k = sysCall /\ Checked) /\ Kind(k) # "switch"
<1>1. result[k] = "pending" /\ p \in given[k] /\ p \in CPU
  BY DEF Outstanding, Shapes
<1>2. Kind(k) = "all" => k = sysCall /\ Checked /\ p # BspNumber
  BY <1>1, Numbers DEF Outstanding, CallInv, Checked, Inv, CheckedInv
<1>3. Kind(k) # "all" => p # BspNumber /\ Kind(k) # "switch"
  BY <1>1 DEF CallInv, AP
<1> QED BY <1>1, <1>2, <1>3 DEF AP

\* Nothing is outstanding when no call is.
LEMMA NothingLeft ==
  ASSUME Inv, Shapes, CallInv, NoneWaits, bsp \notin {"poll", "spin"}
  PROVE  ~Checked /\ \A p \in CPU, k \in CallIds : ~Outstanding(p, k)
<1>1. ~Checked
  BY DEF Inv, CheckedInv, NoneWaits, Checked
<1>2. ASSUME NEW p \in CPU, NEW k \in CallIds, Outstanding(p, k) PROVE FALSE
  <2>1. result[k] = "pending" /\ given[k] # {} /\ Kind(k) # "all"
    BY <1>1, <1>2, OnAp DEF Outstanding
  <2>2. PICK q \in AP : WaitEvent[q] = k
    BY <2>1 DEF CallInv
  <2> QED BY <2>2, Numbers DEF NoneWaits, AP
<1> QED BY <1>1, <1>2

-----------------------------------------------------------------------------
(* The steps of an AP while no switch is in progress.                      *)

\* What such a step must respect.
LEMMA ApMoves ==
  ASSUME Strong, Normal, Inv', Shapes', NEW c \in AP,
         UNCHANGED <<WaitEvent, ApLoopMode, sysVars, LoopMode, BspNumber, num, bsp, call, calls, param,
                     given, result, due, failed, off>>, ~mBspSwitched',
         \A d \in CPU \ {c} : /\ pc'[d] = pc[d] /\ State'[d] = State[d] /\ Procedure'[d] = Procedure[d]
                              /\ StartupApSignal'[d] = StartupApSignal[d] /\ proc'[d] = proc[d]
                              /\ ReadyToBootFlag'[d] = ReadyToBootFlag[d] /\ ran'[d] = ran[d],
         State'[c] \in Working <=> State[c] \in Working,
         State[c] \notin Working => State'[c] = State[c],
         ApFits(c)',
         \A k \in CallIds : ~Outstanding(c, k) => ran'[c][k] = ran[c][k],
         WaitsTurn(c) => WaitsTurn(c)',
         ReadyToBootFlag'[c] <=> ran'[c][Bye] = 1,
         ReadyToBootFlag'[c] => pc'[c] \in {"clear", "finish", "leave", "back", "loop", "hlt"},
         LoopMode = "hlt" => ~StartupApSignal'[c] /\ pc'[c] \notin {"armed", "sleep", "poll"}
  PROVE  Strong'
<1> USE DEF Strong
<1>1. /\ c \in CPU /\ AP' = AP /\ c # BspNumber /\ BspNumber \in CPU /\ (Checked' <=> Checked)
      /\ \A p \in CPU : p \in AP <=> p # BspNumber
  BY DEF AP, Checked, sysVars, Inv, Typing
<1>2. \A p \in CPU, k \in CallIds : Outstanding(p, k)' <=> Outstanding(p, k)
  BY DEF Outstanding, Kind, sysVars
<1>3. ParamInv' /\ HltInv'
  BY <1>1 DEF ParamInv, HltInv, Kind
<1>4. CallInv'
  <2>1. \A k \in CallIds : result'[k] = "none" => given'[k] = {} /\ \A p \in CPU : ran'[p][k] = 0
    <3>1. ASSUME NEW k \in CallIds, result[k] = "none", NEW p \in CPU
          PROVE  given[k] = {} /\ ran'[p][k] = 0
      <4>1. given[k] = {} /\ ran[p][k] = 0 /\ ~Outstanding(c, k)
        BY <3>1 DEF CallInv, Outstanding
      <4> QED BY <4>1
    <3> QED BY <1>1, <3>1
  <2>2. \A p \in CPU, j, k \in CallIds : Outstanding(p, j)' /\ Outstanding(p, k)' => j = k
    BY <1>2 DEF CallInv
  <2> QED BY <1>1, <2>1, <2>2 DEF CallInv, Kind, sysVars
<1>5. Normal'
  BY DEF Normal, Switching
<1>6. ASSUME NEW p \in AP PROVE ApFits(p)'
  <2>1. CASE p = c
    BY <2>1
  <2>2. CASE p # c
    <3>1. ApFits(p) /\ p \in CPU /\ p \in CPU \ {c}
      BY <2>2, <1>1 DEF ApInv, AP
    <3>2. \A k \in CallIds : Outstanding(p, k)' <=> Outstanding(p, k)
      BY <1>2, <3>1
    <3>3. \A k \in CallIds : Serves(p, k)' <=> Serves(p, k)
      BY <3>1 DEF Serves
    <3> QED BY <3>1, <3>2, <3>3 DEF ApFits
  <2> QED BY <2>1, <2>2
<1>7. ApInv'
  BY <1>1, <1>6 DEF ApInv
<1>8. TailInv' /\ SwitchInv'
  BY <1>5 DEF TailInv, SwitchInv, Normal
<1>9. OffInv'
  <2>1. c \in off => State'[c] = State[c]
    BY DEF OffInv, Working
  <2>2. State'[BspNumber] # "finished"
    <3>1. BspNumber \in CPU \ {c} /\ State[BspNumber] # "finished"
      BY DEF AP, Inv, Typing, OffInv, Normal
    <3> QED BY <3>1
  <2>3. off \subseteq CPU /\ off' = off /\ BspNumber' = BspNumber
    BY DEF Shapes
  <2>4. BspNumber \notin off /\ \A p \in off : State[p] = "disabled"
    BY DEF OffInv
  <2>5. ASSUME NEW p \in off PROVE State'[p] = "disabled"
    BY <2>1, <2>3, <2>4
  <2> QED BY <2>2, <2>3, <2>4, <2>5 DEF OffInv
<1>10. SingleInv'
  BY <1>1 DEF SingleInv, WaitsTurn, Inv, Typing, sysVars
<1>11. ReportInv'
  <2>1. \A k \in CallIds : result[k] \in {"success", "timeout"} => ~Outstanding(c, k)
    BY DEF Outstanding
  <2>2. sysCall # NULL => sysCall \in CallIds
    BY DEF Inv, Typing, CallIds
  <2>3. Checked /\ c \notin CpuList => ~Outstanding(c, sysCall)
    BY DEF Inv, KindInv, Checked, Outstanding
  <2>4. \A k \in CallIds : given[k] \subseteq CPU
    BY DEF Shapes
  <2>5. \A k \in CallIds : result'[k] \in {"success", "timeout"} =>
          \A p \in given'[k] \ failed'[k] : ran'[p][k] = 1
    BY <2>1, <2>4 DEF ReportInv
  <2>6. Checked' => \A p \in given'[sysCall'] \ CpuList' : ran'[p][sysCall'] = 1
    BY <1>1, <2>2, <2>3, <2>4 DEF ReportInv, Checked, sysVars
  <2> QED BY <2>5, <2>6 DEF ReportInv
<1>12. BootInv'
  <2>1. \A p \in CPU : State'[p] = "disabled" <=> State[p] = "disabled"
    BY DEF Inv, Typing, States, Working
  <2>2. Enabled' = Enabled
    BY <1>1, <2>1 DEF Enabled, AP
  <2>3. \A p \in AP : State[p] \in {"idle", "disabled"} => State'[p] \in {"idle", "disabled"}
    BY <1>1 DEF Working, AP
  <2> QED BY <1>1, <2>2, <2>3, Numbers DEF BootInv
<1> QED BY <1>3, <1>4, <1>7, <1>8, <1>9, <1>10, <1>11, <1>12

\* The AP goes round its loop.
LEMMA ApRests ==
  ASSUME Strong, Normal, Inv', NEW c \in CPU, NEW q \in LoopPc, pc[c] \in RestPc,
         pc' = [pc EXCEPT ![c] = q], proc' = [proc EXCEPT ![c] = NULL] \/ UNCHANGED proc,
         UNCHANGED <<blockVars, wakeVars, sysVars, num, LoopMode, BspNumber, Info, mNewProcessorNumber,
                     bspVars, callVars, ran, off>>, mBspSwitched' = FALSE,
         ReadyToBootFlag[c] => q \in {"loop", "hlt"},
         LoopMode = "hlt" => q \notin {"armed", "sleep", "poll"}
  PROVE  Strong'
<1> USE DEF Strong
<1>1. c \in AP /\ ApFits(c) /\ q # "leave" /\ q # "enter" /\ q \in RestPc /\ q \in ProcPc
  BY DEF AP, ApInv, RestPc, LoopPc, ProcPc
<1>2. /\ pc'[c] = q
      /\ \A d \in CPU \ {c} : pc'[d] = pc[d] /\ proc'[d] = proc[d]
  BY DEF Shapes
<1>3. UNCHANGED <<WaitEvent, State, Procedure, StartupApSignal, ReadyToBootFlag, ApLoopMode, sysVars, LoopMode,
                  BspNumber, num, bsp, call, calls, param, given, result, due, failed, off, ran, CpuList>>
  BY DEF blockVars, wakeVars, bspVars, callVars, sysVars
<1>4. Shapes'
  BY <1>1, <1>3 DEF Shapes
<1>5. \A k \in CallIds : Outstanding(c, k)' <=> Outstanding(c, k)
  BY <1>3 DEF Outstanding, Kind
<1>6. ASSUME NEW k \in CallIds, Serves(c, k) PROVE Serves(c, k)'
  BY <1>1, <1>2, <1>3, <1>6 DEF Serves, RestPc, LoopPc
<1>7. ApFits(c)'
  BY <1>1, <1>2, <1>3, <1>5, <1>6 DEF ApFits
<1>8. WaitsTurn(c) => WaitsTurn(c)'
  BY <1>1, <1>2, <1>3 DEF WaitsTurn
<1>9. /\ ReadyToBootFlag'[c] <=> ran'[c][Bye] = 1
      /\ ReadyToBootFlag'[c] => pc'[c] \in {"clear", "finish", "leave", "back", "loop", "hlt"}
  BY <1>2, <1>3 DEF BootInv
<1>10. LoopMode = "hlt" => ~StartupApSignal'[c] /\ pc'[c] \notin {"armed", "sleep", "poll"}
  BY <1>2, <1>3 DEF HltInv
<1> QED BY <1>1, <1>2, <1>3, <1>4, <1>7, <1>8, <1>9, <1>10, ApMoves

\* The AP has a procedure: its state and what it keeps change together.
LEMMA ApWorks ==
  ASSUME Strong, Normal, Inv', Shapes', NEW c \in AP, NEW k \in CallIds, Outstanding(c, k),
         UNCHANGED <<WaitEvent, ApLoopMode, sysVars, LoopMode, BspNumber, num, bspVars, mBspSwitched, callVars, off>>,
         \A d \in CPU \ {c} : /\ pc'[d] = pc[d] /\ State'[d] = State[d] /\ Procedure'[d] = Procedure[d]
                              /\ StartupApSignal'[d] = StartupApSignal[d] /\ proc'[d] = proc[d]
                              /\ ReadyToBootFlag'[d] = ReadyToBootFlag[d] /\ ran'[d] = ran[d],
         State[c] \in Working, State'[c] \in Working, pc[c] # "back", Serves(c, k)',
         pc[c] \notin LoopPc \/ (pc[c] = "poll" /\ StartupApSignal[c]),
         \A j \in CallIds \ {k} : ran'[c][j] = ran[c][j],
         ReadyToBootFlag'[c] <=> ran'[c][Bye] = 1,
         ReadyToBootFlag'[c] => pc'[c] \in {"clear", "finish", "leave", "back", "loop", "hlt"},
         LoopMode = "hlt" => ~StartupApSignal'[c] /\ pc'[c] \notin {"armed", "sleep", "poll"}
  PROVE  Strong'
<1> USE DEF Strong
<1>1. ApFits(c) /\ ~mBspSwitched' /\ ~WaitsTurn(c) /\ c \in CPU
  BY DEF ApInv, Normal, WaitsTurn, RestPc, AP
<1>2. \A j \in CallIds : Outstanding(c, j)' <=> Outstanding(c, j)
  BY DEF Outstanding, Kind, callVars, sysVars
<1>3. \A j \in CallIds : Outstanding(c, j) => j = k
  BY <1>1 DEF CallInv
<1>4. \A j \in CallIds : Outstanding(c, j)' => Serves(c, j)'
  <2> SUFFICES ASSUME NEW j \in CallIds, Outstanding(c, j)' PROVE Serves(c, j)'
    OBVIOUS
  <2>1. j = k
    BY <1>2, <1>3
  <2> QED BY <2>1
<1>5. ApFits(c)'
  BY <1>1, <1>2, <1>4 DEF ApFits
<1>6. UNCHANGED <<bsp, call, calls, param, given, result, due, failed>>
  BY DEF bspVars, callVars
<1> QED BY <1>1, <1>3, <1>5, <1>6, ApMoves

\* A step of the loop that APs wait in, and the return to it.
LEMMA ApLoops ==
  ASSUME Strong, Normal, Inv', NEW c \in CPU,
         \/ ApLoop(c) \/ ApMwait(c) \/ ApBreak(c) \/ ApBack(c)
         \/ ApPoll(c) /\ ~(StartupApSignal[num[c]] /\ mApFunction = "wrapper")
  PROVE  Strong'
<1> USE DEF Strong
<1>1. mBspSwitched = FALSE
  BY DEF Normal, Shapes
<1>2. pc[c] \in RestPc
  BY DEF ApLoop, ApMwait, ApBreak, ApBack, ApPoll, RestPc, LoopPc
<1>3. num[c] = c
  <2>1. c # BspNumber
    BY <1>2 DEF ApInv, RestPc, LoopPc
  <2> QED BY <2>1 DEF ApInv, ApFits, AP
<1>4. WakeUpManner(c) \in LoopPc /\ (ReadyToBootFlag[c] \/ LoopMode = "hlt" => WakeUpManner(c) = "hlt")
  BY DEF WakeUpManner, LoopPc
<1>5. /\ ReadyToBootFlag[c] => pc[c] \in {"loop", "hlt", "back"}
      /\ LoopMode = "hlt" => pc[c] \notin {"armed", "sleep", "poll"}
  BY <1>2 DEF BootInv, HltInv, RestPc, LoopPc
<1>6. CASE ApLoop(c) \/ ApBack(c)
  <2>1. num' = num
    <3>1. CASE ApLoop(c)
      BY <3>1 DEF ApLoop, ApUnchanged
    <3>2. CASE ApBack(c)
      <4>1. num' = [num EXCEPT ![c] = num[c]]
        BY <1>1, <3>2 DEF ApBack
      <4> QED BY <4>1 DEF Shapes
    <3> QED BY <1>6, <3>1, <3>2
  <2>2. pc' = [pc EXCEPT ![c] = WakeUpManner(c)]
    BY <1>3, <1>6, <2>1 DEF ApLoop, ApBack
  <2>3. proc' = [proc EXCEPT ![c] = NULL] \/ UNCHANGED proc
    BY <1>6 DEF ApLoop, ApBack
  <2>4. UNCHANGED <<blockVars, wakeVars, sysVars, num, LoopMode, BspNumber, Info, mNewProcessorNumber,
                    bspVars, callVars, ran, off>> /\ mBspSwitched' = FALSE
    BY <1>1, <1>6, <2>1 DEF ApLoop, ApBack, ApUnchanged, blockVars, wakeVars, roleVars
  <2> DEFINE q == WakeUpManner(c)
  <2>5. /\ q \in LoopPc /\ (ReadyToBootFlag[c] => q \in {"loop", "hlt"})
        /\ LoopMode = "hlt" => q \notin {"armed", "sleep", "poll"}
    BY <1>4
  <2>6. pc' = [pc EXCEPT ![c] = q]
    BY <2>2
  <2> HIDE DEF q
  <2> QED BY <1>2, <2>3, <2>4, <2>5, <2>6, ApRests
<1>7. CASE ApMwait(c) \/ ApBreak(c) \/ (ApPoll(c) /\ ~(StartupApSignal[num[c]] /\ mApFunction = "wrapper"))
  <2>1. PICK q \in {"sleep", "poll", "loop"} :
          /\ pc' = [pc EXCEPT ![c] = q]
          /\ pc[c] \in {"armed", "sleep", "poll"}
    BY <1>7 DEF ApMwait, ApBreak, ApPoll
  <2>2. UNCHANGED <<blockVars, wakeVars, sysVars, num, LoopMode, BspNumber, Info, mNewProcessorNumber,
                    bspVars, callVars, ran, off, proc>> /\ mBspSwitched' = FALSE
    BY <1>1, <1>7 DEF ApMwait, ApBreak, ApPoll, ApUnchanged, blockVars, wakeVars, roleVars
  <2>3. /\ q \in LoopPc /\ (ReadyToBootFlag[c] => q \in {"loop", "hlt"})
        /\ LoopMode = "hlt" => q \notin {"armed", "sleep", "poll"}
    BY <1>5, <2>1 DEF LoopPc
  <2> QED BY <1>2, <2>1, <2>2, <2>3, ApRests
<1> QED BY <1>6, <1>7

\* A processor that is not in its loop has a procedure to run.
LEMMA HasWork ==
  ASSUME Strong, Normal, NEW c \in CPU, pc[c] # "bsp", pc[c] \notin RestPc \/ StartupApSignal[c]
  PROVE  /\ c \in AP /\ num[c] = c /\ State[c] \in Working
         /\ \E k \in CallIds : Outstanding(c, k) /\ Serves(c, k)
<1> USE DEF Strong
<1>1. c \in AP
  BY DEF ApInv, AP
<1>2. ApFits(c)
  BY <1>1 DEF ApInv
<1> QED BY <1>1, <1>2 DEF ApFits

\* The steps between taking a procedure and having run it.
LEMMA ApWorksOn ==
  ASSUME Strong, Normal, Inv', NEW c \in CPU,
         \/ ApPoll(c) /\ StartupApSignal[num[c]] /\ mApFunction = "wrapper"
         \/ ApBusy(c) \/ ApFetch(c)
  PROVE  Strong'
<1> USE DEF Strong
<1>1. num[c] = c /\ c \in AP /\ State[c] \in Working
  <2>1. pc[c] \in {"poll", "enter", "fetch"}
    BY DEF ApPoll, ApBusy, ApFetch
  <2>2. c # BspNumber
    BY <2>1 DEF ApInv
  <2>3. num[c] = c
    BY <2>2 DEF ApInv, ApFits, AP
  <2>4. pc[c] \notin RestPc \/ StartupApSignal[c]
    BY <2>3 DEF ApPoll, ApBusy, ApFetch, RestPc, LoopPc
  <2> QED BY <2>1, <2>4, HasWork
<1>2. PICK k \in CallIds : Outstanding(c, k) /\ Serves(c, k)
  <2>1. pc[c] # "bsp" /\ (pc[c] \notin RestPc \/ StartupApSignal[c])
    BY <1>1 DEF ApPoll, ApBusy, ApFetch, RestPc, LoopPc
  <2> QED BY <2>1, HasWork
<1>3. UNCHANGED <<WaitEvent, ApLoopMode, sysVars, LoopMode, BspNumber, num, bspVars, mBspSwitched, callVars, off,
                  Procedure, StartupApSignal, ReadyToBootFlag, ran, Info, mNewProcessorNumber>>
  BY DEF ApPoll, ApBusy, ApFetch, ApUnchanged, roleVars
<1>4. /\ ReadyToBootFlag[c] <=> ran[c][Bye] = 1
      /\ ReadyToBootFlag[c] => pc[c] \in {"clear", "finish", "leave", "back", "loop", "hlt"}
      /\ LoopMode = "hlt" => ~StartupApSignal[c] /\ pc[c] \notin {"armed", "sleep", "poll"}
  BY <1>1 DEF BootInv, HltInv, AP
<1>5. CASE ApPoll(c) /\ StartupApSignal[c] /\ mApFunction = "wrapper"
  <2>1. pc[c] = "poll" /\ pc' = [pc EXCEPT ![c] = "enter"] /\ UNCHANGED <<State, proc>>
    BY <1>1, <1>5 DEF ApPoll
  <2>2. pc'[c] = "enter" /\ \A d \in CPU \ {c} : pc'[d] = pc[d]
    BY <2>1 DEF Shapes
  <2>3. Serves(c, k)'
    BY <1>1, <1>2, <1>3, <1>4, <1>5, <2>1, <2>2 DEF Serves, Working, RestPc, LoopPc
  <2>4. Shapes'
    BY <1>3, <2>1 DEF Shapes, bspVars, callVars, ProcPc, WorkPc
  <2> QED BY <1>1, <1>2, <1>3, <1>4, <1>5, <2>1, <2>2, <2>3, <2>4, ApWorks
<1>6. CASE ApBusy(c)
  <2>1. /\ pc[c] = "enter" /\ pc' = [pc EXCEPT ![c] = "fetch"] /\ UNCHANGED proc
        /\ State' = [State EXCEPT ![c] = "busy"]
    BY <1>1, <1>6 DEF ApBusy
  <2>2. /\ pc'[c] = "fetch" /\ State'[c] = "busy" /\ c \in CPU
        /\ \A d \in CPU \ {c} : pc'[d] = pc[d] /\ State'[d] = State[d]
    BY <2>1 DEF Shapes, Inv, Typing
  <2>3. Serves(c, k)'
    BY <1>1, <1>2, <1>3, <2>1, <2>2 DEF Serves, Working, RestPc, LoopPc
  <2>4. Shapes'
    BY <1>3, <2>1 DEF Shapes, bspVars, callVars, ProcPc, WorkPc
  <2>5. State'[c] \in Working /\ pc[c] \notin LoopPc /\ pc[c] # "back"
    BY <2>1, <2>2 DEF Working, LoopPc
  <2> QED BY <1>1, <1>2, <1>3, <1>4, <2>1, <2>2, <2>3, <2>4, <2>5, ApWorks
<1>7. CASE ApFetch(c)
  <2>1. pc[c] = "fetch" /\ State[c] = "busy" /\ Procedure[c] = k /\ ran[c][k] = 0
    BY <1>1, <1>2, <1>7 DEF ApFetch, Serves, Working, RestPc, LoopPc
  <2>2. k # NULL /\ k # Swap
    BY Numbers
  <2>3. /\ pc' = [pc EXCEPT ![c] = "run"] /\ UNCHANGED State
        /\ proc' = [proc EXCEPT ![c] = k]
    BY <1>1, <1>7, <2>1, <2>2 DEF ApFetch
  <2>4. /\ pc'[c] = "run" /\ proc'[c] = k /\ c \in CPU
        /\ \A d \in CPU \ {c} : pc'[d] = pc[d] /\ proc'[d] = proc[d]
    BY <2>3 DEF Shapes
  <2>5. Serves(c, k)'
    BY <1>3, <2>1, <2>3, <2>4 DEF Serves
  <2>6. Shapes'
    BY <1>3, <2>3 DEF Shapes, bspVars, callVars, ProcPc, WorkPc
  <2>7. State'[c] \in Working /\ pc[c] \notin LoopPc /\ pc[c] # "back"
    BY <2>1, <2>3 DEF Working, LoopPc
  <2> QED BY <1>1, <1>2, <1>3, <1>4, <2>1, <2>3, <2>4, <2>5, <2>6, <2>7, ApWorks
<1> QED BY <1>1, <1>5, <1>6, <1>7

\* A procedure returns: it has run once.
LEMMA ApRuns ==
  ASSUME Strong, Normal, Inv', NEW c \in CPU, ApRun(c)
  PROVE  Strong'
<1> USE DEF Strong
<1>1. pc[c] = "run" /\ pc[c] # "bsp" /\ pc[c] \notin RestPc /\ pc[c] \notin LoopPc /\ pc[c] # "back"
  BY DEF ApRun, RestPc, LoopPc
<1>2. num[c] = c /\ c \in AP /\ State[c] \in Working
  BY <1>1, HasWork
<1>3. PICK k \in CallIds : Outstanding(c, k) /\ Serves(c, k)
  BY <1>1, HasWork
<1>4. UNCHANGED <<WaitEvent, ApLoopMode, sysVars, LoopMode, BspNumber, num, bspVars, mBspSwitched, callVars, off,
                  State, StartupApSignal, Info, mNewProcessorNumber>>
  BY DEF ApRun, ApUnchanged, roleVars
<1>5. State[c] = "busy" /\ Procedure[c] = k /\ proc[c] = k /\ ran[c][k] = 0
  BY <1>1, <1>2, <1>3 DEF Serves, Working, RestPc, LoopPc
<1>6. /\ pc' = [pc EXCEPT ![c] = "clear"] /\ ran' = [ran EXCEPT ![c][k] = @ + 1]
      /\ Procedure' = [Procedure EXCEPT ![c] = NULL] /\ proc' = [proc EXCEPT ![c] = NULL]
      /\ ReadyToBootFlag' = [ReadyToBootFlag EXCEPT ![c] = @ \/ k = Bye]
  BY <1>2, <1>5 DEF ApRun
<1>7. /\ pc'[c] = "clear" /\ Procedure'[c] = NULL /\ proc'[c] = NULL
      /\ ReadyToBootFlag'[c] = (ReadyToBootFlag[c] \/ k = Bye)
      /\ \A d \in CPU \ {c} : /\ pc'[d] = pc[d] /\ Procedure'[d] = Procedure[d] /\ proc'[d] = proc[d]
                              /\ ReadyToBootFlag'[d] = ReadyToBootFlag[d]
  BY <1>6 DEF Shapes
<1>8. /\ ran' \in [CPU -> [CallIds -> Nat]] /\ ran'[c][k] = 1
      /\ \A j \in CallIds \ {k} : ran'[c][j] = ran[c][j]
      /\ \A d \in CPU \ {c} : ran'[d] = ran[d]
  <2>1. ran \in [CPU -> [CallIds -> Nat]]
    BY DEF Shapes
  <2>2. ran' = [ran EXCEPT ![c] = [ran[c] EXCEPT ![k] = 1]]
    BY <1>5, <1>6
  <2> QED BY <2>1, <2>2
<1>9. Serves(c, k)'
  BY <1>4, <1>5, <1>7, <1>8 DEF Serves
<1>10. Shapes'
  <2>1. ReadyToBootFlag' \in [CPU -> BOOLEAN]
    BY <1>6 DEF Shapes
  <2> QED BY <1>4, <1>6, <1>8, <2>1 DEF Shapes, bspVars, callVars, ProcPc, WorkPc
<1>11. ReadyToBootFlag'[c] <=> ran'[c][Bye] = 1
  <2>1. ReadyToBootFlag[c] <=> ran[c][Bye] = 1
    BY DEF BootInv
  <2>2. CASE k = Bye
    BY <1>7, <1>8, <2>2
  <2>3. CASE k # Bye
    BY <1>7, <1>8, <2>1, <2>3, Numbers
  <2> QED BY <2>2, <2>3
<1>12. LoopMode = "hlt" => ~StartupApSignal[c]
  BY DEF HltInv
<1> QED BY <1>1, <1>2, <1>3, <1>4, <1>7, <1>8, <1>9, <1>10, <1>11, <1>12, ApWorks

\* The steps from the end of a procedure to the return to the loop.
LEMMA ApEnds ==
  ASSUME Strong, Normal, Inv', NEW c \in CPU, ApClear(c) \/ ApFinish(c) \/ ApLeave(c)
  PROVE  Strong'
<1> USE DEF Strong
<1>1. pc[c] \in {"clear", "finish", "leave"} /\ pc[c] # "bsp" /\ pc[c] \notin RestPc /\ pc[c] \notin LoopPc /\ pc[c] # "back"
  BY DEF ApClear, ApFinish, ApLeave, RestPc, LoopPc
<1>2. num[c] = c /\ c \in AP /\ State[c] \in Working
  BY <1>1, HasWork
<1>3. PICK k \in CallIds : Outstanding(c, k) /\ Serves(c, k)
  BY <1>1, HasWork
<1>4. UNCHANGED <<WaitEvent, ApLoopMode, sysVars, LoopMode, BspNumber, num, bspVars, mBspSwitched, callVars, off,
                  Procedure, proc, ReadyToBootFlag, ran, Info, mNewProcessorNumber>>
  BY DEF ApClear, ApFinish, ApLeave, ApUnchanged, roleVars
<1>5. /\ ReadyToBootFlag[c] <=> ran[c][Bye] = 1
      /\ LoopMode = "hlt" => ~StartupApSignal[c]
  BY DEF BootInv, HltInv
<1>6. CASE ApClear(c)
  <2>1. State[c] = "busy" /\ Procedure[c] = NULL /\ proc[c] = NULL /\ ran[c][k] = 1 /\ pc[c] = "clear"
    BY <1>2, <1>3, <1>6 DEF ApClear, Serves, Working, RestPc, LoopPc
  <2>2. /\ pc' = [pc EXCEPT ![c] = "finish"] /\ UNCHANGED State
        /\ StartupApSignal' = [StartupApSignal EXCEPT ![c] = FALSE]
    BY <1>2, <1>6, <2>1, Numbers DEF ApClear
  <2>3. /\ pc'[c] = "finish" /\ StartupApSignal'[c] = FALSE
        /\ \A d \in CPU \ {c} : pc'[d] = pc[d] /\ StartupApSignal'[d] = StartupApSignal[d]
    BY <2>2 DEF Shapes
  <2>4. Serves(c, k)'
    BY <1>4, <2>1, <2>2, <2>3 DEF Serves
  <2>5. Shapes'
    BY <1>4, <2>2 DEF Shapes, bspVars, callVars, ProcPc, WorkPc
  <2> QED BY <1>1, <1>2, <1>3, <1>4, <1>5, <2>2, <2>3, <2>4, <2>5, ApWorks
<1>7. CASE ApFinish(c)
  <2>1. /\ State[c] = "busy" /\ Procedure[c] = NULL /\ proc[c] = NULL /\ ran[c][k] = 1 /\ pc[c] = "finish"
        /\ ~StartupApSignal[c]
    BY <1>2, <1>3, <1>7 DEF ApFinish, Serves, Working, RestPc, LoopPc
  <2>2. /\ pc' = [pc EXCEPT ![c] = "leave"] /\ UNCHANGED StartupApSignal
        /\ State' = [State EXCEPT ![c] = "finished"]
    BY <1>2, <1>7, <2>1 DEF ApFinish, Slot
  <2>3. /\ pc'[c] = "leave" /\ State'[c] = "finished"
        /\ \A d \in CPU \ {c} : pc'[d] = pc[d] /\ State'[d] = State[d]
    BY <2>2 DEF Shapes, Inv, Typing
  <2>4. Serves(c, k)'
    BY <1>4, <2>1, <2>2, <2>3, Numbers DEF Serves
  <2>5. Shapes'
    BY <1>4, <2>2 DEF Shapes, bspVars, callVars, ProcPc
  <2>6. State'[c] \in Working
    BY <2>3 DEF Working
  <2> QED BY <1>1, <1>2, <1>3, <1>4, <1>5, <2>2, <2>3, <2>4, <2>5, <2>6, ApWorks
<1>8. CASE ApLeave(c)
  <2>1. State[c] = "finished" /\ ~StartupApSignal[c] /\ ran[c][k] = 1 /\ pc[c] = "leave"
    BY <1>2, <1>3, <1>8 DEF ApLeave, Serves, Working, RestPc, LoopPc
  <2>2. pc' = [pc EXCEPT ![c] = "back"] /\ UNCHANGED <<State, StartupApSignal>>
    BY <1>8 DEF ApLeave
  <2>3. pc'[c] = "back" /\ \A d \in CPU \ {c} : pc'[d] = pc[d]
    BY <2>2 DEF Shapes
  <2>4. Serves(c, k)'
    BY <1>4, <2>1, <2>2, <2>3 DEF Serves, RestPc
  <2>5. Shapes'
    BY <1>4, <2>2 DEF Shapes, bspVars, callVars, ProcPc
  <2> QED BY <1>1, <1>2, <1>3, <1>4, <1>5, <2>2, <2>3, <2>4, <2>5, ApWorks
<1> QED BY <1>6, <1>7, <1>8

\* While no switch is in progress, no processor executes its steps.
LEMMA NormalAp ==
  ASSUME Strong, Normal, Inv', NEW c \in CPU, ApStep(c) \/ ApRun(c) \/ ApBreak(c) \/ Exchange(c)
  PROVE  Strong'
<1> USE DEF Strong
<1>1. pc[c] \notin {"flag", "number", "store", "load", "unload"}
  <2>1. c = BspNumber => pc[c] = "bsp"
    BY DEF ApInv
  <2>2. c # BspNumber => ApFits(c)
    BY DEF ApInv, AP
  <2>3. \/ pc[c] \in RestPc \cup {"bsp"}
        \/ State[c] \in Working /\ \E k \in CallIds : Serves(c, k)
    <3>1. CASE c = BspNumber
      BY <2>1, <3>1
    <3>2. CASE c # BspNumber /\ State[c] \notin Working
      BY <2>2, <3>2 DEF ApFits
    <3>3. CASE c # BspNumber /\ State[c] \in Working
      <4>1. PICK k \in CallIds : Outstanding(c, k)
        BY <2>2, <3>3 DEF ApFits
      <4> QED BY <2>2, <3>3, <4>1 DEF ApFits
    <3> QED BY <3>1, <3>2, <3>3
  <2>4. \A k \in CallIds : State[c] \in Working /\ Serves(c, k) =>
          pc[c] \in RestPc \cup {"enter", "fetch", "run", "clear", "finish", "leave"}
    BY DEF Serves, Working, RestPc
  <2> QED BY <2>3, <2>4 DEF RestPc, LoopPc
<1>2. ~Exchange(c) /\ ~ApFlag(c) /\ ~ApNumber(c)
  BY <1>1 DEF Exchange, SwapStore, SwapLoad, SwapUnload, ApFlag, ApNumber, Normal, Switching
<1> QED BY <1>2, ApLoops, ApWorksOn, ApRuns, ApEnds DEF ApStep

-----------------------------------------------------------------------------
(* The steps of the BSP that leave the APs alone.                          *)

\* Steps of the BSP that leave every AP and every outstanding call alone.
LEMMA BspMoves ==
  ASSUME Strong, ~Switching, ~Switching', mBspSwitched => bsp' = "free" /\ (NoneWaits <=> NoneWaits'),
         UNCHANGED <<State, Procedure, ApLoopMode, StartupApSignal, ReadyToBootFlag, apVars, roleVars, ran, off>>,
         \A p \in CPU, k \in CallIds : Outstanding(p, k)' <=> Outstanding(p, k),
         bsp = "spin" => bsp' = "spin"
  PROVE  HltInv' /\ ApInv' /\ TailInv' /\ SwitchInv' /\ OffInv'
<1> USE DEF Strong
<1>1. /\ UNCHANGED <<pc, proc, num, LoopMode, BspNumber, Info, mBspSwitched, mNewProcessorNumber, AP>>
      /\ Normal' <=> Normal
  BY DEF apVars, roleVars, AP, Normal
<1>2. HltInv' /\ OffInv' /\ SwitchInv'
  BY <1>1 DEF HltInv, OffInv, SwitchInv
<1>3. TailInv'
  BY <1>1 DEF TailInv, Quiet
<1>4. ASSUME Normal, NEW p \in AP PROVE ApFits(p)'
  <2>1. ApFits(p) /\ p \in CPU
    BY <1>4 DEF ApInv, AP
  <2>2. \A k \in CallIds : Outstanding(p, k)' <=> Outstanding(p, k)
    BY <2>1
  <2>3. \A k \in CallIds : Serves(p, k) => Serves(p, k)'
    BY <1>1 DEF Serves
  <2> QED BY <1>1, <2>1, <2>2, <2>3 DEF ApFits
<1>5. ApInv'
  BY <1>1, <1>4 DEF ApInv
<1> QED BY <1>2, <1>3, <1>5

\* Only what the BSP is doing, or the time, changes.
LEMMA OnlyBsp ==
  ASSUME Strong, Inv', ~Switching, ~Switching',
         UNCHANGED <<blockVars, ApLoopMode, StartupApSignal, ReadyToBootFlag, apVars, sysVars, roleVars,
                     param, given, result, failed, calls, ran, off>>,
         due' \in SUBSET Ids, \A k \in due' : param[k].timeout /\ result[k] # "none",
         \/ UNCHANGED <<bsp, call>>
         \/ /\ call # NULL => call' = call /\ bsp = "update" /\ bsp' = "start"
            /\ call = NULL => call' = NULL /\ bsp \in {"free", "update"} /\ bsp' \in {"free", "update", "exit"}
            /\ ~mBspSwitched
  PROVE  Strong'
<1> USE DEF Strong
<1>1. UNCHANGED <<State, Procedure, WaitEvent, CpuList, sysEvent, sysCall, AP, LoopMode, mBspSwitched, pc>>
  BY DEF blockVars, sysVars, roleVars, AP, apVars
<1>2. Shapes'
  <2>1. bsp' \in Services
    BY DEF Shapes, Services
  <2> QED BY <1>1, <2>1 DEF Shapes, apVars, roleVars
<1>3. \A p \in CPU, k \in CallIds : Outstanding(p, k)' <=> Outstanding(p, k)
  BY <1>1 DEF Outstanding, Kind
<1>4. ParamInv'
  BY <1>1 DEF ParamInv, Kind
<1>5. (mBspSwitched => bsp' = "free") /\ (NoneWaits <=> NoneWaits') /\ (bsp = "spin" => bsp' = "spin")
  BY <1>1 DEF NoneWaits, TailInv, Inv, BspInv
<1>6. HltInv' /\ ApInv' /\ TailInv' /\ SwitchInv' /\ OffInv'
  BY <1>1, <1>3, <1>5, BspMoves DEF blockVars
<1>7. /\ bsp \in {"switch", "switched", "poll", "spin", "booted"} => bsp' = bsp /\ call' = call
      /\ call' = call
      /\ bsp' \in {"poll", "spin", "booted"} => bsp' = bsp
      /\ bsp' \in {"update", "start"} /\ call # NULL => bsp \in {"update", "start"}
      /\ call # NULL => bsp' = bsp \/ bsp' = "start"
  BY DEF Inv, BspInv
<1>8. CallInv'
  <2>1. \A p \in CPU, j, k \in CallIds : Outstanding(p, j)' /\ Outstanding(p, k)' => j = k
    BY <1>3 DEF CallInv
  <2>2. Checked' <=> Checked
    BY <1>1 DEF Checked
  <2>3. \A k \in CallIds : Kind(k)' = Kind(k)
    BY DEF Kind
  <2>4. /\ result'[Bye] # "none" => (bsp' = "poll" /\ call' = Bye) \/ bsp' = "booted"
        /\ bsp' \in {"update", "start"} /\ call' # NULL => result'[call'] = "none"
        /\ call' # NULL /\ Kind(call)' = "switch" => bsp' \in {"switch", "switched"}
        /\ call' # NULL /\ Kind(call)' = "this" => param'[call'].target # BspNumber'
    BY <1>7 DEF CallInv, Kind, roleVars
  <2>5. \A k \in CallIds : result'[k] = "pending" =>
       \/ Kind(k)' = "all" /\ k = sysCall'
       \/ /\ Kind(k)' = "this"
          /\ \E p \in AP' : given'[k] = {p} /\ (WaitEvent'[p] = k \/ (bsp' \in {"poll", "spin"} /\ call' = k))
       \/ Kind(k)' = "switch" /\ given'[k] = {} /\ bsp' \in {"switch", "switched"} /\ call' = k
    BY <1>1, <1>7, <2>3 DEF CallInv
  <2>6. bsp' = "poll" /\ Kind(call)' = "this" =>
          result'[call'] = "pending" /\ given'[call'] = {param'[call'].target}
    BY <1>7 DEF CallInv, Kind
  <2> QED BY <1>1, <2>1, <2>2, <2>4, <2>5, <2>6 DEF CallInv
<1>9. SingleInv' /\ ReportInv'
  BY <1>1 DEF SingleInv, ReportInv, Checked, WaitsTurn
<1>10. BootInv'
  <2>1. Enabled' = Enabled
    BY <1>1 DEF Enabled
  <2> QED BY <1>1, <1>7, <2>1, Numbers DEF BootInv
<1> QED BY <1>2, <1>4, <1>6, <1>8, <1>9, <1>10

\* A service that is called is answered at once.
LEMMA Answers ==
  ASSUME Strong, Inv', bsp = "start", NEW x \in {"notready", "success"}, result' = [result EXCEPT ![call] = x], Return,
         UNCHANGED <<blockVars, wakeVars, apVars, roleVars, param, given, due, failed, calls, ran, off,
                     sysEvent, sysCall>>,
         UNCHANGED CpuList \/ ~Checked,
         call = Bye => Enabled = {}
  PROVE  Strong'
<1> USE DEF Strong
<1>1. /\ UNCHANGED <<State, Procedure, WaitEvent, AP, LoopMode, mBspSwitched, pc, ApLoopMode, StartupApSignal,
                     ReadyToBootFlag>>
      /\ ~Switching /\ ~Switching' /\ ~mBspSwitched
  BY DEF blockVars, wakeVars, roleVars, AP, apVars, Switching, Return, TailInv
<1>2. call' = NULL /\ bsp' = IF call = Bye THEN "booted" ELSE "free"
  BY DEF Return
<1>3. /\ call \in CallIds /\ result[call] = "none" /\ given[call] = {}
      /\ \A k \in CallIds : result'[k] = IF k = call THEN x ELSE result[k]
      /\ call # NULL /\ call \in 1..calls \cup {Bye}
  <2>1. call # NULL /\ call \in 1..calls \cup {Bye} /\ calls \in 0..MaxCalls
    BY DEF Inv, BspInv, Typing
  <2>2. call \in CallIds
    BY <2>1, NumAssumption DEF CallIds, Ids
  <2>3. result \in [CallIds -> Results]
    BY DEF Shapes
  <2> QED BY <2>1, <2>2, <2>3 DEF CallInv
<1>4. Shapes'
  <2>1. bsp' \in Services /\ x \in Results
    BY <1>2 DEF Services, Results
  <2> QED BY <1>1, <1>3, <2>1 DEF Shapes, apVars, roleVars
<1>5. Checked' <=> Checked
  BY <1>3, Numbers DEF Checked, Inv, Typing, CallIds
<1>6. \A p \in CPU, k \in CallIds : Outstanding(p, k)' <=> Outstanding(p, k)
  <2> SUFFICES ASSUME NEW p \in CPU, NEW k \in CallIds PROVE Outstanding(p, k)' <=> Outstanding(p, k)
    OBVIOUS
  <2>1. CASE k = call
    BY <1>3, <2>1 DEF Outstanding
  <2>2. CASE k # call /\ UNCHANGED CpuList
    BY <1>3, <2>2 DEF Outstanding, Kind
  <2>3. CASE k # call /\ ~Checked
    <3>1. result[k] = "pending" => Kind(k) # "all"
      BY <2>3, Numbers DEF CallInv, Checked
    <3> QED BY <1>3, <2>3, <3>1 DEF Outstanding, Kind
  <2> QED BY <2>1, <2>2, <2>3
<1>7. ParamInv'
  BY <1>1, <1>3, Numbers DEF ParamInv, Kind, Shapes
<1>8. HltInv' /\ ApInv' /\ TailInv' /\ SwitchInv' /\ OffInv'
  BY <1>1, <1>6, BspMoves
<1>9. CallInv'
  <2>1. \A p \in CPU, j, k \in CallIds : Outstanding(p, j)' /\ Outstanding(p, k)' => j = k
    BY <1>6 DEF CallInv
  <2>2. \A k \in CallIds : result'[k] = "none" => given'[k] = {} /\ \A p \in CPU : ran'[p][k] = 0
    BY <1>3 DEF CallInv
  <2>3. \A k \in Ids : calls' < k => result'[k] = "none"
    <3>1. \A k \in Ids : calls < k => k # call
      BY <1>3, Numbers DEF Inv, Typing, Ids
    <3> QED BY <1>3, <3>1, Numbers DEF CallInv
  <2>4. result'[Bye] # "none" => (bsp' = "poll" /\ call' = Bye) \/ bsp' = "booted"
    BY <1>2, <1>3, Numbers DEF CallInv
  <2>5. \A k \in CallIds : result'[k] = "pending" =>
       \/ Kind(k)' = "all" /\ k = sysCall'
       \/ /\ Kind(k)' = "this"
          /\ \E p \in AP' : given'[k] = {p} /\ (WaitEvent'[p] = k \/ (bsp' \in {"poll", "spin"} /\ call' = k))
       \/ Kind(k)' = "switch" /\ given'[k] = {} /\ bsp' \in {"switch", "switched"} /\ call' = k
    <3>1. \A k \in CallIds : Kind(k)' = Kind(k)
      BY DEF Kind
    <3> QED BY <1>1, <1>3, <3>1 DEF CallInv
  <2>6. \A p \in CPU : WaitEvent'[p] # NULL => result'[WaitEvent'[p]] = "pending" /\ given'[WaitEvent'[p]] = {p}
    <3> SUFFICES ASSUME NEW p \in CPU, WaitEvent[p] # NULL
                 PROVE  result'[WaitEvent[p]] = "pending" /\ given[WaitEvent[p]] = {p}
      BY <1>1
    <3>1. WaitEvent[p] \in Ids /\ result[WaitEvent[p]] = "pending" /\ given[WaitEvent[p]] = {p}
      BY DEF CallInv, Inv, Typing
    <3> QED BY <1>3, <3>1, Numbers
  <2>7. Checked' => CpuList' \subseteq given'[sysCall']
    BY <1>5 DEF CallInv
  <2> QED BY <1>2, <2>1, <2>2, <2>3, <2>4, <2>5, <2>6, <2>7 DEF CallInv
<1>10. SingleInv'
  BY <1>1, <1>5 DEF SingleInv, WaitsTurn
<1>11. ReportInv'
  <2>1. \A k \in CallIds : result'[k] \in {"success", "timeout"} =>
          \A p \in given'[k] \ failed'[k] : ran'[p][k] = 1
    BY <1>3 DEF ReportInv
  <2>2. \A k \in CallIds : result'[k] # "timeout" => failed'[k] = {}
    BY <1>3 DEF ReportInv
  <2> QED BY <1>5, <2>1, <2>2 DEF ReportInv
<1>12. BootInv'
  <2>1. Enabled' = Enabled
    BY <1>1 DEF Enabled
  <2> QED BY <1>1, <1>2, <2>1, Numbers DEF BootInv
<1> QED BY <1>4, <1>7, <1>8, <1>9, <1>10, <1>11, <1>12

\* A new call gets its number and parameters.
LEMMA NewParams ==
  ASSUME Strong, Inv', bsp \in {"free", "exit"}, NEW n \in CallIds, result[n] = "none",
         NEW r, param' = [param EXCEPT ![n] = r],
         r.timeout \in BOOLEAN /\ (r.timeout => n # Bye /\ LoopMode = "hlt"),
         r.single \in BOOLEAN /\ (r.single => n # Bye /\ r.kind = "all"), r.event => n # Bye,
         r.kind = "this" => r.target # BspNumber,
         UNCHANGED <<blockVars, wakeVars, apVars, roleVars, sysVars, given, due, failed, ran, off>>,
         \/ n = calls + 1 /\ calls' = calls + 1 /\ n \in Ids
         \/ n = Bye /\ UNCHANGED calls /\ \A p \in AP : State[p] \in {"idle", "disabled"},
         \/ UNCHANGED result /\ call' = n /\ bsp' = "update" /\ ~mBspSwitched /\ r.kind # "switch"
         \/ n # Bye /\ result' = [result EXCEPT ![n] = "notready"] /\ UNCHANGED <<call, bsp>>
  PROVE  Strong'
<1> USE DEF Strong
<1>1. /\ UNCHANGED <<State, Procedure, WaitEvent, AP, LoopMode, mBspSwitched, pc, ApLoopMode, StartupApSignal,
                     ReadyToBootFlag, CpuList, sysEvent, sysCall>>
      /\ ~Switching /\ ~Switching' /\ call = NULL
  BY DEF blockVars, wakeVars, roleVars, sysVars, AP, apVars, Switching, Inv, BspInv
<1>2. /\ \A k \in CallIds \ {n} : param'[k] = param[k] /\ result'[k] = result[k]
      /\ param'[n] = r /\ result'[n] \in {"none", "notready"} /\ given[n] = {}
  BY DEF Inv, Typing, Shapes, CallInv, CallIds
<1>3. Shapes'
  <2>1. bsp' \in Services
    BY DEF Shapes, Services
  <2>2. result' \in [CallIds -> Results]
    BY DEF Shapes, Results
  <2> QED BY <1>1, <2>1, <2>2 DEF Shapes, apVars, roleVars
<1>4. \A k \in CallIds \ {n} : Kind(k)' = Kind(k)
  BY <1>2 DEF Kind
<1>5. \A p \in CPU, k \in CallIds : Outstanding(p, k)' <=> Outstanding(p, k)
  BY <1>1, <1>2, <1>4 DEF Outstanding
<1>6. Checked' <=> Checked
  BY <1>1, <1>2, Numbers DEF Checked, Inv, Typing, CallIds
<1>7. ParamInv'
  <2>1. \A k \in due : k \in CallIds /\ k # n
    <3>1. due \subseteq Ids
      BY DEF Shapes
    <3>2. n \notin due
      BY DEF ParamInv
    <3> QED BY <3>1, <3>2, Numbers
  <2> QED BY <1>1, <1>2, <1>4, <2>1, Numbers DEF ParamInv, Kind
<1>8. (NoneWaits <=> NoneWaits') /\ (mBspSwitched => bsp' = "free") /\ bsp # "spin"
  BY <1>1 DEF NoneWaits, TailInv
<1>9. HltInv' /\ ApInv' /\ TailInv' /\ SwitchInv' /\ OffInv'
  BY <1>1, <1>5, <1>8, BspMoves
<1>10. CallInv'
  <2>1. \A p \in CPU, j, k \in CallIds : Outstanding(p, j)' /\ Outstanding(p, k)' => j = k
    BY <1>5 DEF CallInv
  <2>2. \A k \in CallIds : result'[k] = "none" => given'[k] = {} /\ \A p \in CPU : ran'[p][k] = 0
    BY <1>2 DEF CallInv
  <2>3. \A k \in Ids : calls' < k => result'[k] = "none"
    BY <1>2, Numbers, NumAssumption DEF CallInv, Ids, Inv, Typing
  <2>4. /\ result'[Bye] # "none" => (bsp' = "poll" /\ call' = Bye) \/ bsp' = "booted"
        /\ bsp' \in {"update", "start"} /\ call' # NULL => result'[call'] = "none"
        /\ call' # NULL /\ Kind(call)' = "switch" => bsp' \in {"switch", "switched"}
        /\ call' # NULL /\ Kind(call)' = "this" => param'[call'].target # BspNumber'
    BY <1>1, <1>2, Numbers DEF CallInv, Kind, roleVars
  <2>5. \A k \in CallIds : result'[k] = "pending" =>
       \/ Kind(k)' = "all" /\ k = sysCall'
       \/ /\ Kind(k)' = "this"
          /\ \E p \in AP' : given'[k] = {p} /\ (WaitEvent'[p] = k \/ (bsp' \in {"poll", "spin"} /\ call' = k))
       \/ Kind(k)' = "switch" /\ given'[k] = {} /\ bsp' \in {"switch", "switched"} /\ call' = k
    BY <1>1, <1>2, <1>4 DEF CallInv
  <2>6. \A p \in CPU : WaitEvent'[p] # NULL => result'[WaitEvent'[p]] = "pending" /\ given'[WaitEvent'[p]] = {p}
    <3> SUFFICES ASSUME NEW p \in CPU, WaitEvent[p] # NULL
                 PROVE  result'[WaitEvent[p]] = "pending" /\ given[WaitEvent[p]] = {p}
      BY <1>1
    <3>1. WaitEvent[p] \in Ids /\ result[WaitEvent[p]] = "pending" /\ given[WaitEvent[p]] = {p}
      BY DEF CallInv, Inv, Typing
    <3> QED BY <1>2, <3>1, Numbers
  <2>7. bsp' # "poll"
    BY <1>1
  <2>8. Checked' => CpuList' \subseteq given'[sysCall']
    BY <1>1, <1>6 DEF CallInv
  <2> QED BY <2>1, <2>2, <2>3, <2>4, <2>5, <2>6, <2>7, <2>8 DEF CallInv
<1>11. SingleInv'
  <2>1. Checked => sysCall \in CallIds \ {n}
    BY DEF Checked, Inv, Typing, CallIds
  <2> QED BY <1>1, <1>2, <1>6, <2>1 DEF SingleInv, WaitsTurn
<1>12. ReportInv'
  <2>1. \A k \in CallIds : result'[k] \in {"success", "timeout"} =>
          \A p \in given'[k] \ failed'[k] : ran'[p][k] = 1
    BY <1>2 DEF ReportInv
  <2>2. \A k \in CallIds : result'[k] # "timeout" => failed'[k] = {}
    BY <1>2 DEF ReportInv
  <2> QED BY <1>1, <1>6, <2>1, <2>2 DEF ReportInv
<1>13. BootInv'
  <2>1. call' = Bye => n = Bye /\ bsp' = "update" /\ ~mBspSwitched'
    BY <1>1, Numbers
  <2>2. bsp' # "booted" /\ bsp' # "poll"
    BY <1>1
  <2> QED BY <1>1, <2>1, <2>2, Numbers DEF BootInv
<1> QED BY <1>3, <1>7, <1>9, <1>10, <1>11, <1>12, <1>13

\* StartupAllAPs and StartupThisAP are called.
LEMMA StartupStrong ==
  ASSUME Strong, Inv', Careful, TimeoutsInHlt, NEW r \in Wanted, Startup(r)
  PROVE  Strong'
<1> USE DEF Strong
<1>1. /\ bsp = "free" /\ calls < MaxCalls /\ calls' = calls + 1 /\ call' = calls + 1
      /\ param' = [param EXCEPT ![calls + 1] = r] /\ bsp' = "update" /\ ~mBspSwitched
      /\ (r.kind = "this" => r.target # BspNumber)
      /\ UNCHANGED <<blockVars, wakeVars, sysVars, apVars, given, result, due, failed, ran, off, roleVars>>
  BY DEF Startup
<1>2. /\ r.timeout \in BOOLEAN /\ r.single \in BOOLEAN /\ (r.single => r.kind = "all")
      /\ r.kind # "switch" /\ (r.timeout => "timeout" \in Calls[LoopMode])
  BY DEF Wanted, Params, Made
<1>3. calls + 1 \in Ids /\ calls + 1 # Bye /\ calls + 1 \in CallIds
  BY <1>1, Numbers, NumAssumption DEF Ids, Inv, Typing
<1>4. r.timeout => LoopMode = "hlt"
  BY <1>2 DEF TimeoutsInHlt, Shapes
<1>5. result[calls + 1] = "none"
  BY <1>3, NumAssumption DEF CallInv, Inv, Typing
<1> DEFINE n == calls + 1
<1>6. /\ n \in CallIds /\ n \in Ids /\ n # Bye /\ result[n] = "none" /\ param' = [param EXCEPT ![n] = r]
      /\ n = calls + 1 /\ calls' = calls + 1 /\ call' = n
  BY <1>1, <1>3, <1>5
<1> HIDE DEF n
<1> QED BY <1>1, <1>2, <1>4, <1>6, NewParams

\* SwitchBSP is refused.
LEMMA SwitchRefusedStrong ==
  ASSUME Strong, Inv', NEW r \in SwitchParams, SwitchRefused(r)
  PROVE  Strong'
<1> USE DEF Strong
<1>1. /\ bsp = "free" /\ calls < MaxCalls /\ calls' = calls + 1
      /\ param' = [param EXCEPT ![calls + 1] = r] /\ result' = [result EXCEPT ![calls + 1] = "notready"]
      /\ UNCHANGED <<blockVars, wakeVars, sysVars, apVars, given, due, failed, ran, off, roleVars, bsp, call>>
  BY DEF SwitchRefused, bspVars
<1>2. r.timeout = FALSE /\ r.single = FALSE /\ r.event = FALSE /\ r.kind = "switch"
  BY DEF SwitchParams
<1> DEFINE n == calls + 1
<1>3. n \in Ids /\ n # Bye /\ n \in CallIds
  BY <1>1, Numbers, NumAssumption DEF Ids, Inv, Typing
<1>4. result[n] = "none"
  BY <1>3, NumAssumption DEF CallInv, Inv, Typing
<1>5. n = calls + 1 /\ param' = [param EXCEPT ![n] = r] /\ result' = [result EXCEPT ![n] = "notready"]
  BY <1>1
<1> HIDE DEF n
<1> QED BY <1>1, <1>2, <1>3, <1>4, <1>5, NewParams

\* ExitBootServices, and its callback once no AP runs.
LEMMA ExitStrong ==
  ASSUME Strong, Inv', Careful, ExitBootServices \/ ChangeApLoopModeCallBack
  PROVE  Strong'
<1> USE DEF Strong
<1>1. CASE ExitBootServices
  <2>1. /\ bsp = "free" /\ bsp' = "exit" /\ ~mBspSwitched /\ UNCHANGED <<call, due>>
        /\ UNCHANGED <<blockVars, ApLoopMode, StartupApSignal, ReadyToBootFlag, apVars, sysVars, roleVars,
                     param, given, result, failed, calls, ran, off>>
    BY <1>1 DEF ExitBootServices, wakeVars, callVars
  <2>2. ~Switching /\ ~Switching' /\ call = NULL /\ due' \in SUBSET Ids /\ \A k \in due' : param[k].timeout /\ result[k] # "none"
    BY <2>1 DEF Switching, Inv, BspInv, Shapes, ParamInv
  <2> QED BY <2>1, <2>2, OnlyBsp
<1>2. CASE ChangeApLoopModeCallBack
  <2>1. /\ bsp = "exit" /\ bsp' = "update" /\ ~ApRunning /\ call' = Bye
        /\ param' = [param EXCEPT ![Bye] = [NoParam EXCEPT !.kind = "all"]]
        /\ UNCHANGED <<blockVars, wakeVars, apVars, roleVars, sysVars, given, result, due, failed, calls, ran, off>>
    BY <1>2 DEF ChangeApLoopModeCallBack
  <2> DEFINE r == [NoParam EXCEPT !.kind = "all"]
  <2>2. r.timeout = FALSE /\ r.single = FALSE /\ r.event = FALSE /\ r.kind = "all" /\ param' = [param EXCEPT ![Bye] = r]
    BY <2>1 DEF NoParam
  <2>3. Bye \in CallIds /\ result[Bye] = "none"
    BY <2>1, Numbers DEF CallInv
  <2>4. ~mBspSwitched
    BY <2>1 DEF TailInv, Switching
  <2>5. \A p \in AP : State[p] \in {"idle", "disabled"}
    BY <2>1 DEF ApRunning
  <2> HIDE DEF r
  <2> QED BY <2>1, <2>2, <2>3, <2>4, <2>5, NewParams
<1> QED BY <1>1, <1>2

\* EnableDisableAP
LEMMA EnableDisableStrong ==
  ASSUME Strong, Inv', Careful, NEW p \in CPU, NEW b \in BOOLEAN, EnableDisableAP(p, b)
  PROVE  Strong'
<1> USE DEF Strong
<1> DEFINE s == IF b THEN "idle" ELSE "disabled"
<1>1. /\ bsp = "free" /\ p # BspNumber /\ State[p] \in {"idle", "disabled"} /\ calls' = calls + 1
      /\ State' = [State EXCEPT ![p] = s]
      /\ off' = IF b THEN off \ {p} ELSE off \cup {p}
      /\ UNCHANGED <<Procedure, WaitEvent, wakeVars, sysVars, apVars, roleVars, bspVars, param, given,
                     result, due, failed, ran>>
  BY DEF EnableDisableAP
<1>2. /\ State'[p] = s /\ \A q \in CPU \ {p} : State'[q] = State[q]
      /\ s \in {"idle", "disabled"} /\ (~b => s = "disabled")
  BY <1>1 DEF Inv, Typing
<1> HIDE DEF s
<1>3. /\ UNCHANGED <<AP, CpuList, LoopMode, mBspSwitched, pc, num, proc, ApLoopMode, StartupApSignal, ReadyToBootFlag,
                     bsp, call, sysCall, sysEvent, mNewProcessorNumber, BspNumber>>
      /\ ~Switching /\ ~Switching' /\ call = NULL /\ (Checked' <=> Checked) /\ (NoneWaits' <=> NoneWaits)
  BY <1>1 DEF wakeVars, roleVars, sysVars, bspVars, AP, apVars, Switching, Inv, BspInv, Checked, NoneWaits
<1>4. \A q \in CPU, k \in CallIds : Outstanding(q, k)' <=> Outstanding(q, k)
  BY <1>1, <1>3 DEF Outstanding, Kind
<1>5. State[p] \notin Working /\ State'[p] \notin Working /\ State[p] # "ready" /\ State'[p] \in {"idle", "disabled"}
  BY <1>1, <1>2 DEF Working
<1>6. Shapes' /\ ParamInv' /\ HltInv'
  BY <1>1, <1>3 DEF Shapes, ParamInv, HltInv, Kind, roleVars, apVars
<1>7. CallInv'
  <2>1. \A q \in CPU, j, k \in CallIds : Outstanding(q, j)' /\ Outstanding(q, k)' => j = k
    BY <1>4 DEF CallInv
  <2>2. \A k \in Ids : calls' < k => result'[k] = "none"
    <3>1. \A k \in Ids : calls + 1 < k => calls < k
      BY NumAssumption DEF Inv, Typing, Ids
    <3> QED BY <1>1, <3>1 DEF CallInv
  <2> QED BY <1>1, <1>3, <2>1, <2>2 DEF CallInv, Kind
<1>8. ApInv'
  <2>1. ASSUME Normal, NEW q \in AP PROVE ApFits(q)'
    <3>1. ApFits(q) /\ q \in CPU
      BY <2>1 DEF ApInv, AP
    <3>2. \A k \in CallIds : Outstanding(q, k)' <=> Outstanding(q, k)
      BY <3>1, <1>4
    <3>3. CASE q = p
      BY <1>1, <1>3, <1>5, <3>1, <3>2, <3>3 DEF ApFits
    <3>4. CASE q # p
      <4>1. State'[q] = State[q]
        BY <1>2, <3>1, <3>4
      <4>2. \A k \in CallIds : Serves(q, k)' <=> Serves(q, k)
        BY <1>1, <1>3, <4>1 DEF Serves
      <4> QED BY <1>1, <1>3, <3>1, <3>2, <4>1, <4>2 DEF ApFits
    <3> QED BY <3>3, <3>4
  <2>2. Normal' <=> Normal
    BY <1>3 DEF Normal
  <2> QED BY <1>3, <2>1, <2>2 DEF ApInv
<1>9. TailInv' /\ SwitchInv'
  <2>1. \A q \in CPU : State[q] \in {"idle", "disabled"} => State'[q] \in {"idle", "disabled"}
    BY <1>2
  <2>2. \A q \in CPU : Quiet(q) => Quiet(q)'
    BY <1>3, <2>1 DEF Quiet
  <2> QED BY <1>3, <2>1, <2>2 DEF TailInv, SwitchInv, Shapes, AP
<1>10. OffInv'
  <2>1. off \subseteq CPU
    BY DEF Shapes
  <2> QED BY <1>1, <1>2, <1>3, <2>1 DEF OffInv
<1>11. SingleInv'
  <2>1. \A q \in CPU : WaitsTurn(q) => WaitsTurn(q)'
    BY <1>1, <1>2, <1>3 DEF WaitsTurn
  <2> QED BY <1>1, <1>3, <2>1 DEF SingleInv, Inv, Typing
<1>12. ReportInv' /\ BootInv'
  BY <1>1, <1>3, Numbers DEF ReportInv, BootInv
<1> QED BY <1>6, <1>7, <1>8, <1>9, <1>10, <1>11, <1>12

\* The time of a call is up, or the BSP comes to the next AP, or nothing changes.
LEMMA OnlyTime ==
  ASSUME Strong, Inv',
         UNCHANGED <<blockVars, wakeVars, sysVars, apVars, roleVars, bsp, call, param, given, result, failed, calls,
                     ran, off>>,
         due' \in SUBSET Ids, \A k \in due' : param[k].timeout /\ result[k] # "none"
  PROVE  Strong'
<1> USE DEF Strong
<1>1. UNCHANGED <<State, Procedure, WaitEvent, ApLoopMode, StartupApSignal, ReadyToBootFlag, CpuList, sysEvent,
                  sysCall, pc, proc, num, LoopMode, BspNumber, Info, mBspSwitched, mNewProcessorNumber>>
  BY DEF blockVars, wakeVars, sysVars, apVars, roleVars
<1>2. Shapes' /\ ParamInv' /\ HltInv'
  BY <1>1 DEF Shapes, ParamInv, HltInv, Kind
<1>3. AP' = AP /\ Enabled' = Enabled /\ (Checked' <=> Checked) /\ (NoneWaits' <=> NoneWaits)
      /\ (Normal' <=> Normal) /\ (Switching' <=> Switching)
  BY <1>1 DEF AP, Enabled, Checked, NoneWaits, Normal, Switching
<1>4. \A p \in CPU, k \in CallIds : Outstanding(p, k)' <=> Outstanding(p, k)
  BY <1>1 DEF Outstanding, Kind
<1>5. CallInv'
  <2>1. \A p \in CPU, j, k \in CallIds : Outstanding(p, j)' /\ Outstanding(p, k)' => j = k
    BY <1>4 DEF CallInv
  <2> QED BY <1>1, <1>3, <2>1 DEF CallInv, Kind
<1>6. ApInv'
  <2>1. ASSUME Normal, NEW p \in AP PROVE ApFits(p)'
    <3>1. ApFits(p) /\ p \in CPU
      BY <2>1 DEF ApInv, AP
    <3>2. \A k \in CallIds : Outstanding(p, k)' <=> Outstanding(p, k)
      BY <3>1, <1>4
    <3>3. \A k \in CallIds : Serves(p, k)' <=> Serves(p, k)
      BY <1>1 DEF Serves
    <3> QED BY <1>1, <3>1, <3>2, <3>3 DEF ApFits
  <2> QED BY <1>1, <1>3, <2>1 DEF ApInv
<1>7. TailInv'
  BY <1>1, <1>3 DEF TailInv, Quiet
<1>8. SwitchInv'
  BY <1>1, <1>3 DEF SwitchInv, Quiet, Exchanges
<1>9. OffInv' /\ SingleInv' /\ ReportInv' /\ BootInv'
  BY <1>1, <1>3 DEF OffInv, SingleInv, WaitsTurn, ReportInv, BootInv
<1> QED BY <1>2, <1>5, <1>6, <1>7, <1>8, <1>9

\* The time of a call is up.
LEMMA ExpireStrong ==
  ASSUME Strong, Inv', NEW k \in Ids, Expire(k)
  PROVE  Strong'
<1>1. /\ result[k] = "pending" /\ param[k].timeout /\ due' = due \cup {k}
      /\ UNCHANGED <<blockVars, wakeVars, sysVars, apVars, roleVars, bsp, call, param, given, result, failed, calls,
                     ran, off>>
  BY DEF Expire, bspVars
<1>2. due' \in SUBSET Ids /\ \A j \in due' : param[j].timeout /\ result[j] # "none"
  BY <1>1 DEF Strong, Shapes, ParamInv
<1> QED BY <1>1, <1>2, OnlyTime

\* CheckAndUpdateAPsStatus goes on without finding anything.
LEMMA UpdateStepsStrong ==
  ASSUME Strong, Inv',
         \/ CheckAPsStatus \/ UpdateDone
         \/ UpdateAll /\ sysEvent = NULL
         \/ UNCHANGED vars
  PROVE  Strong'
<1> USE DEF Strong
<1>1. due \in SUBSET Ids /\ \A j \in due : param[j].timeout /\ result[j] # "none"
  BY DEF Shapes, ParamInv
<1>2. CASE (UpdateAll /\ sysEvent = NULL) \/ UNCHANGED vars
  <2>1. UNCHANGED <<blockVars, wakeVars, sysVars, apVars, roleVars, bsp, call, param, given, result, failed, calls,
                    ran, off, due>>
    BY <1>2 DEF UpdateAll, vars, blockVars, callVars, bspVars
  <2> QED BY <1>1, <2>1, OnlyTime
<1>3. CASE CheckAPsStatus
  <2>1. /\ bsp \in {"free", "switched"} /\ Pending /\ bsp' = "update"
        /\ UNCHANGED <<blockVars, ApLoopMode, StartupApSignal, ReadyToBootFlag, apVars, sysVars, roleVars,
                       param, given, result, failed, calls, ran, off, call, due>>
    BY <1>3 DEF CheckAPsStatus, wakeVars, callVars
  <2>2. ~NoneWaits
    BY <2>1 DEF NoneWaits, Pending
  <2>3. ~Switching /\ ~Switching' /\ ~mBspSwitched /\ bsp = "free" /\ call = NULL
    BY <2>1, <2>2 DEF SwitchInv, TailInv, Switching, Inv, BspInv
  <2> QED BY <1>1, <2>1, <2>3, OnlyBsp
<1>4. CASE UpdateDone
  <2>1. /\ bsp = "update"
        /\ bsp' = IF call = NULL THEN "free" ELSE IF param[call].kind = "switch" THEN "switched" ELSE "start"
        /\ UNCHANGED <<blockVars, ApLoopMode, StartupApSignal, ReadyToBootFlag, apVars, sysVars, roleVars,
                       param, given, result, failed, calls, ran, off, call, due>>
    BY <1>4 DEF UpdateDone, wakeVars, callVars
  <2>2. call # NULL => param[call].kind # "switch"
    BY <2>1 DEF CallInv, Kind
  <2>3. ~Switching /\ ~Switching' /\ ~mBspSwitched
    BY <2>1, <2>2 DEF TailInv, Switching
  <2> QED BY <1>1, <2>1, <2>2, <2>3, OnlyBsp
<1> QED BY <1>2, <1>3, <1>4

\* A service that hands nothing to APs.
LEMMA StartRefusedStrong ==
  ASSUME Strong, Inv', StartAllNotReady \/ StartAllNone \/ StartThisRefused
  PROVE  Strong'
<1> USE DEF Strong
<1>1. bsp = "start" /\ call # NULL /\ Return
  BY DEF StartAllNotReady, StartAllNone, StartThisRefused, Inv, BspInv
<1>2. CASE StartAllNotReady
  <2>1. Kind(call) = "all" /\ NotIdle # {} /\ result' = [result EXCEPT ![call] = "notready"]
        /\ UNCHANGED <<blockVars, wakeVars, apVars, roleVars, param, given, due, failed, calls, ran, off,
                     sysEvent, sysCall>>
    BY <1>2 DEF StartAllNotReady, Kind
  <2>2. ~Checked
    BY <1>1, <2>1, StartAllChecks
  <2>3. call # Bye
    BY <1>1, <2>1 DEF BootInv, NotIdle, Enabled
  <2> QED BY <1>1, <2>1, <2>2, <2>3, Answers
<1>3. CASE StartAllNone
  <2>1. Kind(call) = "all" /\ Enabled = {} /\ result' = [result EXCEPT ![call] = "success"]
        /\ UNCHANGED <<blockVars, wakeVars, apVars, roleVars, param, given, due, failed, calls, ran, off,
                     sysEvent, sysCall>>
    BY <1>3 DEF StartAllNone, Kind
  <2>2. ~Checked
    BY <1>1, <2>1, StartAllChecks
  <2> QED BY <1>1, <2>1, <2>2, Answers
<1>4. CASE StartThisRefused
  <2>1. Kind(call) = "this" /\ result' = [result EXCEPT ![call] = "notready"]
        /\ UNCHANGED <<blockVars, wakeVars, apVars, roleVars, param, given, due, failed, calls, ran, off,
                     sysEvent, sysCall, CpuList>>
    BY <1>4 DEF StartThisRefused, Kind, sysVars
  <2>2. call # Bye
    BY <2>1 DEF Inv, KindInv
  <2> QED BY <1>1, <2>1, <2>2, Answers
<1> QED BY <1>2, <1>3, <1>4

-----------------------------------------------------------------------------
(* Handing over procedures.                                                *)

\* APs that rest are woken.
LEMMA Woken ==
  ASSUME Strong, Normal, NEW woken \in SUBSET AP, NEW k \in CallIds \cup {Swap}, result[Bye] = "none",
         \A p \in woken : pc[p] \in RestPc /\ ~StartupApSignal[p],
         Assign(woken, k), Launch(woken, {}), UNCHANGED <<LoopMode, BspNumber, ran>>
  PROVE  /\ \A p \in CPU \ woken : /\ pc'[p] = pc[p] /\ proc'[p] = proc[p] /\ Procedure'[p] = Procedure[p]
                                   /\ StartupApSignal'[p] = StartupApSignal[p]
         /\ \A p \in woken : pc'[p] \in RestPc \cup {"enter"} /\ Procedure'[p] = k
         /\ num' = num
         /\ pc' \in [CPU -> ProcPc] /\ proc' \in [CPU -> CallIds \cup {NULL, Swap}]
         /\ Procedure' \in [CPU -> CallIds \cup {NULL, Swap}] /\ ApLoopMode' \in [CPU -> Modes]
         /\ StartupApSignal' \in [CPU -> BOOLEAN] /\ ReadyToBootFlag' \in [CPU -> BOOLEAN]
         /\ HltInv' /\ \A p \in CPU : ~ReadyToBootFlag'[p] /\ ran'[p][Bye] = 0
<1> USE DEF Strong
<1> DEFINE inits == {p \in woken : ApLoopMode[p] = "hlt"}
<1>1. /\ pc' = [p \in CPU |-> IF p \in inits THEN "enter"
                              ELSE IF num[p] \in woken /\ pc[p] \in {"armed", "sleep"} THEN "poll"
                              ELSE pc[p]]
      /\ num' = [p \in CPU |-> IF p \in inits THEN p ELSE num[p]]
      /\ proc' = [p \in CPU |-> IF p \in inits THEN NULL ELSE proc[p]]
      /\ ReadyToBootFlag' = [p \in CPU |-> ReadyToBootFlag[p] /\ p \notin inits]
  <2>1. {} \cup inits = inits
    OBVIOUS
  <2> QED BY <2>1 DEF Launch
<1>2. /\ Procedure' = [p \in CPU |-> IF p \in woken THEN k ELSE Procedure[p]]
      /\ ApLoopMode' = [p \in CPU |-> IF p \in woken THEN LoopMode ELSE ApLoopMode[p]]
      /\ StartupApSignal' = [p \in CPU |-> StartupApSignal[p] \/ (p \in woken /\ ApLoopMode[p] # "hlt")]
  BY DEF Assign
<1>3. woken \subseteq CPU /\ inits \subseteq woken
  BY DEF AP
<1>4. \A p \in CPU : num[p] \in woken <=> p \in woken
  <2>1. num[BspNumber] \notin woken
    BY <1>3, Numbers DEF ApInv
  <2>2. \A p \in AP : num[p] = p
    BY DEF ApInv, ApFits
  <2> QED BY <2>1, <2>2 DEF AP
<1>5. \A p \in woken : num[p] = p
  BY DEF ApInv, ApFits
<1>6. \A p \in CPU : ran[p][Bye] = 0 /\ ~ReadyToBootFlag[p]
  BY Numbers DEF CallInv, BootInv
<1> HIDE DEF inits
<1>7. num' = num
  BY <1>1, <1>3, <1>5 DEF Shapes
<1>8. /\ \A p \in CPU \ woken : pc'[p] = pc[p] /\ proc'[p] = proc[p]
      /\ \A p \in woken : pc'[p] \in RestPc \cup {"enter"}
  <2>1. "poll" \in RestPc
    BY DEF RestPc, LoopPc
  <2> QED BY <1>1, <1>3, <1>4, <2>1
<1>9. /\ \A p \in CPU \ woken : Procedure'[p] = Procedure[p] /\ StartupApSignal'[p] = StartupApSignal[p]
      /\ \A p \in woken : Procedure'[p] = k
  <2>1. \A p \in CPU : StartupApSignal[p] \in BOOLEAN
    BY DEF Shapes
  <2> QED BY <1>2, <1>3, <2>1
<1>10. pc' \in [CPU -> ProcPc] /\ proc' \in [CPU -> CallIds \cup {NULL, Swap}]
  BY <1>1 DEF Shapes, ProcPc, LoopPc, WorkPc
<1>11. LoopMode \in Modes
  BY ModeAssumption DEF Shapes, Modes
<1>12. /\ Procedure' \in [CPU -> CallIds \cup {NULL, Swap}] /\ ApLoopMode' \in [CPU -> Modes]
       /\ StartupApSignal' \in [CPU -> BOOLEAN] /\ ReadyToBootFlag' \in [CPU -> BOOLEAN]
  BY <1>1, <1>2, <1>11 DEF Shapes
<1>13. HltInv'
  <2> SUFFICES ASSUME LoopMode = "hlt", NEW p \in CPU
               PROVE  /\ ApLoopMode'[p] = "hlt" /\ ~StartupApSignal'[p]
                      /\ pc'[p] \notin {"armed", "sleep", "poll"}
    BY DEF HltInv
  <2>1. ApLoopMode[p] = "hlt" /\ ~StartupApSignal[p] /\ pc[p] \notin {"armed", "sleep", "poll"}
    BY DEF HltInv
  <2> QED BY <1>1, <1>2, <2>1
<1> QED BY <1>6, <1>7, <1>8, <1>9, <1>10, <1>12, <1>13, <1>1

\* Call k is handed over to the idle APs in G, of which some are woken.
LEMMA GivenOut ==
  ASSUME Strong, bsp = "start", NEW G \in SUBSET AP, NEW woken \in SUBSET G, NEW k \in CallIds,
         \A p \in G : State[p] = "idle", result[k] = "none",
         Assign(woken, k), Launch(woken, {}), UNCHANGED <<roleVars, ran, off>>,
         State' = [p \in CPU |-> IF p \in G THEN "ready" ELSE State[p]],
         \A p \in CPU, j \in CallIds : Outstanding(p, j)' <=> Outstanding(p, j) \/ (j = k /\ p \in G),
         bsp' \in {"free", "poll"}
  PROVE  /\ pc' \in [CPU -> ProcPc] /\ num' \in [CPU -> 0..BspStack] /\ proc' \in [CPU -> CallIds \cup {NULL, Swap}]
         /\ Procedure' \in [CPU -> CallIds \cup {NULL, Swap}] /\ ApLoopMode' \in [CPU -> Modes]
         /\ StartupApSignal' \in [CPU -> BOOLEAN] /\ ReadyToBootFlag' \in [CPU -> BOOLEAN]
         /\ \A p \in CPU : ~ReadyToBootFlag'[p] /\ ran'[p][Bye] = 0
         /\ HltInv' /\ ApInv' /\ TailInv' /\ SwitchInv' /\ OffInv'
         /\ \A p \in CPU \ woken : pc'[p] = pc[p] /\ StartupApSignal'[p] = StartupApSignal[p]
         /\ \A p \in G \ woken : WaitsTurn(p)'
         /\ \A p \in CPU, i, j \in CallIds : Outstanding(p, i)' /\ Outstanding(p, j)' => i = j
<1> USE DEF Strong
<1>1. UNCHANGED <<LoopMode, BspNumber, Info, mBspSwitched, mNewProcessorNumber, AP>> /\ Normal /\ Normal'
  <2>1. ~Switching /\ ~Switching'
    BY DEF Switching
  <2>2. ~mBspSwitched
    BY <2>1 DEF TailInv
  <2> QED BY <2>1, <2>2 DEF roleVars, AP, Normal
<1>2. result[Bye] = "none"
  BY DEF CallInv
<1>3. \A p \in G : ApFits(p) /\ pc[p] \in RestPc /\ ~StartupApSignal[p] /\ \A j \in CallIds : ~Outstanding(p, j)
  <2>1. \A p \in G : p \in AP /\ ApFits(p) /\ State[p] \notin Working
    BY <1>1 DEF ApInv, Working
  <2> QED BY <2>1 DEF ApFits
<1>4. /\ woken \in SUBSET AP /\ \A p \in woken : pc[p] \in RestPc /\ ~StartupApSignal[p]
      /\ k \in CallIds \cup {Swap}
  BY <1>3
<1>5. /\ \A p \in CPU \ woken : /\ pc'[p] = pc[p] /\ proc'[p] = proc[p] /\ Procedure'[p] = Procedure[p]
                                /\ StartupApSignal'[p] = StartupApSignal[p]
      /\ \A p \in woken : pc'[p] \in RestPc \cup {"enter"} /\ Procedure'[p] = k
      /\ num' = num
      /\ pc' \in [CPU -> ProcPc] /\ proc' \in [CPU -> CallIds \cup {NULL, Swap}]
      /\ Procedure' \in [CPU -> CallIds \cup {NULL, Swap}] /\ ApLoopMode' \in [CPU -> Modes]
      /\ StartupApSignal' \in [CPU -> BOOLEAN] /\ ReadyToBootFlag' \in [CPU -> BOOLEAN]
      /\ HltInv' /\ \A p \in CPU : ~ReadyToBootFlag'[p] /\ ran'[p][Bye] = 0
  BY <1>1, <1>2, <1>4, Woken
<1>6. num' \in [CPU -> 0..BspStack]
  BY <1>5 DEF Shapes
<1>7. G \subseteq CPU /\ BspNumber \notin G /\ BspNumber \in CPU
  BY DEF AP, Inv, Typing
<1>8. /\ \A p \in G : State'[p] = "ready"
      /\ \A p \in CPU \ G : State'[p] = State[p]
  BY <1>7
<1>9. ASSUME NEW p \in AP PROVE ApFits(p)'
  <2>1. p \in CPU /\ ApFits(p)
    BY <1>1 DEF AP, ApInv
  <2>2. CASE p \in G
    <3>1. \A j \in CallIds : Outstanding(p, j)' <=> j = k
      BY <1>3, <2>1, <2>2
    <3>2. ran'[p][k] = 0
      BY <2>1 DEF CallInv
    <3>3. /\ pc'[p] \in RestPc \cup {"enter"} /\ State'[p] = "ready"
          /\ pc'[p] = "enter" \/ StartupApSignal'[p] => Procedure'[p] = k
      <4>1. CASE p \in woken
        BY <1>5, <1>8, <2>2, <4>1
      <4>2. CASE p \notin woken
        <5>1. pc'[p] = pc[p] /\ StartupApSignal'[p] = StartupApSignal[p] /\ State'[p] = "ready"
          BY <1>5, <1>8, <2>1, <2>2, <4>2
        <5>2. pc[p] \in RestPc /\ "enter" \notin RestPc /\ ~StartupApSignal[p]
          BY <1>3, <2>2 DEF RestPc, LoopPc
        <5> QED BY <5>1, <5>2
      <4> QED BY <4>1, <4>2
    <3>4. Serves(p, k)'
      BY <3>2, <3>3 DEF Serves
    <3>5. State'[p] \in Working /\ num'[p] = p
      BY <1>5, <2>1, <3>3 DEF Working, ApFits
    <3> QED BY <3>1, <3>4, <3>5 DEF ApFits
  <2>3. CASE p \notin G
    <3>1. \A j \in CallIds : Outstanding(p, j)' <=> Outstanding(p, j)
      BY <2>1, <2>3
    <3>2. p \in CPU \ woken /\ p \in CPU \ G
      BY <2>1, <2>3
    <3>3. \A j \in CallIds : Serves(p, j) => Serves(p, j)'
      BY <1>1, <1>5, <1>8, <3>2 DEF Serves
    <3> QED BY <1>5, <1>8, <2>1, <3>1, <3>2, <3>3 DEF ApFits
  <2> QED BY <2>2, <2>3
<1>10. ApInv'
  <2>1. pc'[BspNumber] = "bsp" /\ num'[BspNumber] = BspStack
    BY <1>1, <1>5, <1>7 DEF ApInv
  <2> QED BY <1>1, <1>9, <2>1 DEF ApInv
<1>11. TailInv' /\ SwitchInv'
  BY <1>1 DEF TailInv, SwitchInv, Normal
<1>12. OffInv'
  <2>1. State[BspNumber] # "finished" /\ BspNumber \in CPU \ G
    BY <1>1, <1>7 DEF OffInv, Normal
  <2> QED BY <1>1, <1>8, <2>1 DEF OffInv, Shapes
<1>13. \A p \in G \ woken : WaitsTurn(p)'
  BY <1>3, <1>5, <1>7, <1>8 DEF WaitsTurn
<1>14. \A p \in CPU, i, j \in CallIds : Outstanding(p, i)' /\ Outstanding(p, j)' => i = j
  <2> SUFFICES ASSUME NEW p \in CPU, NEW i \in CallIds, NEW j \in CallIds, Outstanding(p, i)', Outstanding(p, j)'
               PROVE  i = j
    OBVIOUS
  <2>1. CASE p \in G
    BY <1>3, <2>1
  <2>2. CASE p \notin G
    BY <2>2 DEF CallInv
  <2> QED BY <2>1, <2>2
<1> QED BY <1>5, <1>6, <1>10, <1>11, <1>12, <1>13, <1>14

\* StartupAllAPs hands its procedure to all enabled APs.
LEMMA StartAllStrong ==
  ASSUME Strong, Inv', StartAll
  PROVE  Strong'
<1> USE DEF Strong
<1> DEFINE woken == IF param[call].single THEN {Min(Enabled)} ELSE Enabled
<1>1. /\ bsp = "start" /\ Kind(call) = "all" /\ NotIdle = {} /\ Enabled # {}
      /\ Assign(woken, call) /\ Launch(woken, {})
      /\ State' = [p \in CPU |-> IF p \in Enabled THEN "ready" ELSE State[p]]
      /\ CpuList' = Enabled /\ sysCall' = call
      /\ given' = [given EXCEPT ![call] = Enabled] /\ result' = [result EXCEPT ![call] = "pending"]
      /\ UNCHANGED <<WaitEvent, param, due, failed, calls, ran, off, roleVars>>
  BY DEF StartAll, Kind
<1>2. \/ param[call].event /\ call' = NULL /\ bsp' = IF call = Bye THEN "booted" ELSE "free"
      \/ bsp' = "poll" /\ call' = call
  BY DEF StartAll, Return
<1>3. /\ ~Checked /\ call \in 1..calls \cup {Bye} /\ call # NULL /\ call \in CallIds
      /\ result[call] = "none" /\ given[call] = {}
  <2>1. ~Checked /\ call \in 1..calls \cup {Bye} /\ call \in Ids \cup {Bye}
    BY <1>1, StartAllChecks
  <2>2. call # NULL
    BY <1>1 DEF Inv, BspInv
  <2> QED BY <1>1, <2>1, <2>2 DEF CallIds, CallInv
<1>4. bsp' \in {"free", "poll"} /\ (call = Bye => bsp' = "poll" /\ call' = Bye)
  BY <1>2 DEF ParamInv
<1>5. /\ Enabled \in SUBSET AP /\ Enabled \subseteq CPU /\ AP \subseteq CPU
      /\ \A p \in Enabled : State[p] = "idle"
  BY <1>1 DEF Enabled, NotIdle, AP
<1>6. woken \in SUBSET Enabled
  <2>1. Enabled \in SUBSET Nat
    BY <1>5, NumAssumption DEF CPU
  <2>2. Min(Enabled) \in Enabled
    BY <1>1, <2>1, Minimum, Zenon DEF Min
  <2> QED BY <2>2
<1>7. /\ \A k \in CallIds \ {call} : result'[k] = result[k] /\ given'[k] = given[k]
      /\ result'[call] = "pending" /\ given'[call] = Enabled
  BY <1>1, <1>3 DEF Shapes
<1>8. \A k \in CallIds : Kind(k)' = Kind(k) /\ (result[k] = "pending" => Kind(k) # "all")
  BY <1>1, <1>3, Numbers DEF Kind, CallInv, Checked
<1>9. \A p \in CPU, j \in CallIds : Outstanding(p, j)' <=> Outstanding(p, j) \/ (j = call /\ p \in Enabled)
  <2> SUFFICES ASSUME NEW p \in CPU, NEW j \in CallIds
               PROVE  Outstanding(p, j)' <=> Outstanding(p, j) \/ (j = call /\ p \in Enabled)
    OBVIOUS
  <2>1. CASE j = call
    BY <1>1, <1>3, <1>7, <2>1 DEF Outstanding
  <2>2. CASE j # call
    BY <1>7, <1>8, <2>2 DEF Outstanding
  <2> QED BY <2>1, <2>2
<1> HIDE DEF Enabled, woken
<1>10. /\ pc' \in [CPU -> ProcPc] /\ num' \in [CPU -> 0..BspStack] /\ proc' \in [CPU -> CallIds \cup {NULL, Swap}]
       /\ Procedure' \in [CPU -> CallIds \cup {NULL, Swap}] /\ ApLoopMode' \in [CPU -> Modes]
       /\ StartupApSignal' \in [CPU -> BOOLEAN] /\ ReadyToBootFlag' \in [CPU -> BOOLEAN]
       /\ \A p \in CPU : ~ReadyToBootFlag'[p] /\ ran'[p][Bye] = 0
       /\ HltInv' /\ ApInv' /\ TailInv' /\ SwitchInv' /\ OffInv'
       /\ \A p \in CPU \ woken : pc'[p] = pc[p] /\ StartupApSignal'[p] = StartupApSignal[p]
       /\ \A p \in Enabled \ woken : WaitsTurn(p)'
       /\ \A p \in CPU, i, j \in CallIds : Outstanding(p, i)' /\ Outstanding(p, j)' => i = j
  BY <1>1, <1>3, <1>4, <1>5, <1>6, <1>9, GivenOut
<1>11. UNCHANGED <<LoopMode, Info, mBspSwitched, mNewProcessorNumber, AP>> /\ ~mBspSwitched
  BY <1>1 DEF roleVars, AP, TailInv, Switching
<1>12. Shapes'
  <2>1. bsp' \in Services
    BY <1>4 DEF Services
  <2>2. result' \in [CallIds -> Results] /\ given' \in [CallIds -> SUBSET CPU]
    BY <1>1, <1>5 DEF Shapes, Results
  <2> QED BY <1>1, <1>10, <1>11, <2>1, <2>2 DEF Shapes
<1>13. ParamInv'
  BY <1>1, <1>7, <1>8, <1>11, Numbers DEF ParamInv, Shapes
<1>14. CallInv'
  <2>1. \A k \in CallIds : result'[k] = "none" => given'[k] = {} /\ \A p \in CPU : ran'[p][k] = 0
    BY <1>1, <1>7 DEF CallInv
  <2>2. \A k \in Ids : calls' < k => result'[k] = "none"
    <3>1. \A k \in Ids : calls < k => k # call
      BY <1>3, Numbers DEF Inv, Typing, Ids
    <3> QED BY <1>1, <1>7, <3>1, Numbers DEF CallInv
  <2>3. result'[Bye] # "none" => (bsp' = "poll" /\ call' = Bye) \/ bsp' = "booted"
    BY <1>1, <1>4, <1>7, Numbers DEF CallInv
  <2>4. bsp' \notin {"update", "start"} /\ (call' # NULL \/ bsp' = "poll" => Kind(call)' = "all")
    <3>1. call' # NULL \/ bsp' = "poll" => call' = call
      BY <1>2, <1>4
    <3> QED BY <1>1, <1>4, <3>1 DEF Kind
  <2>5. \A k \in CallIds : result'[k] = "pending" =>
       \/ Kind(k)' = "all" /\ k = sysCall'
       \/ /\ Kind(k)' = "this"
          /\ \E p \in AP' : given'[k] = {p} /\ (WaitEvent'[p] = k \/ (bsp' \in {"poll", "spin"} /\ call' = k))
       \/ Kind(k)' = "switch" /\ given'[k] = {} /\ bsp' \in {"switch", "switched"} /\ call' = k
    <3> SUFFICES ASSUME NEW k \in CallIds, result'[k] = "pending", k # call
                 PROVE  /\ Kind(k)' = "this"
                        /\ \E p \in AP' : given'[k] = {p} /\ WaitEvent'[p] = k
      BY <1>1, <1>8
    <3>1. result[k] = "pending" /\ Kind(k) # "all" /\ given'[k] = given[k]
      BY <1>7, <1>8
    <3> QED BY <1>1, <1>8, <1>11, <3>1 DEF CallInv
  <2>6. \A p \in CPU : WaitEvent'[p] # NULL => result'[WaitEvent'[p]] = "pending" /\ given'[WaitEvent'[p]] = {p}
    <3> SUFFICES ASSUME NEW p \in CPU, WaitEvent[p] # NULL
                 PROVE  result'[WaitEvent[p]] = "pending" /\ given'[WaitEvent[p]] = {p}
      BY <1>1
    <3>1. WaitEvent[p] \in Ids /\ result[WaitEvent[p]] = "pending" /\ given[WaitEvent[p]] = {p}
      BY DEF CallInv, Inv, Typing
    <3> QED BY <1>3, <1>7, <3>1, Numbers
  <2>7. CpuList' \subseteq given'[sysCall']
    BY <1>1, <1>7
  <2> QED BY <1>1, <1>10, <2>1, <2>2, <2>3, <2>4, <2>5, <2>6, <2>7 DEF CallInv
<1>15. SingleInv'
  <2> SUFFICES ASSUME param[call].single
               PROVE  \E a \in CPU : \A p \in Enabled \ {a} : WaitsTurn(p)'
    BY <1>1 DEF SingleInv
  <2>1. woken = {Min(Enabled)} /\ Min(Enabled) \in CPU
    BY <1>5, <1>6 DEF woken
  <2>2. \A p \in Enabled \ {Min(Enabled)} : WaitsTurn(p)'
    BY <1>10, <2>1
  <2> QED BY <2>1, <2>2
<1>16. ReportInv'
  <2>1. \A k \in CallIds : result'[k] \in {"success", "timeout"} =>
          \A p \in given'[k] \ failed'[k] : ran'[p][k] = 1
    BY <1>1, <1>7 DEF ReportInv
  <2>2. \A k \in CallIds : result'[k] # "timeout" => failed'[k] = {}
    BY <1>1, <1>3, <1>7 DEF ReportInv
  <2>3. \A p \in given'[sysCall'] \ CpuList' : ran'[p][sysCall'] = 1
    BY <1>1, <1>7
  <2> QED BY <2>1, <2>2, <2>3 DEF ReportInv
<1>17. BootInv'
  <2>1. Enabled' = Enabled
    <3>1. \A p \in CPU : State'[p] = "disabled" <=> State[p] = "disabled"
      BY <1>1, <1>5
    <3> QED BY <1>5, <1>11, <3>1 DEF Enabled
  <2>2. call' = Bye => call = Bye /\ bsp' = "poll"
    BY <1>2, <1>4, Numbers
  <2> QED BY <1>4, <1>7, <1>10, <1>11, <2>1, <2>2 DEF BootInv
<1> QED BY <1>10, <1>12, <1>13, <1>14, <1>15, <1>16, <1>17
\* StartupThisAP hands its procedure to one AP.
LEMMA StartThisStrong ==
  ASSUME Strong, Inv', StartThis
  PROVE  Strong'
<1> USE DEF Strong
<1> DEFINE t == param[call].target
<1>1. /\ bsp = "start" /\ Kind(call) = "this" /\ State[t] = "idle"
      /\ Assign({t}, call) /\ Launch({t}, {})
      /\ State' = [State EXCEPT ![t] = "ready"]
      /\ given' = [given EXCEPT ![call] = {t}] /\ result' = [result EXCEPT ![call] = "pending"]
      /\ UNCHANGED <<CpuList, sysEvent, sysCall, param, due, failed, calls, ran, off, roleVars>>
  BY DEF StartThis, Kind, Accepts, sysVars
<1>2. \/ call' = NULL /\ bsp' = (IF call = Bye THEN "booted" ELSE "free") /\ WaitEvent' = [WaitEvent EXCEPT ![t] = call]
      \/ bsp' = "poll" /\ call' = call /\ WaitEvent' = [WaitEvent EXCEPT ![t] = NULL]
  BY DEF StartThis, Return
<1>3. /\ call \in 1..calls \cup {Bye} /\ call # NULL /\ call \in CallIds
      /\ result[call] = "none" /\ given[call] = {} /\ call # Bye /\ t \in CPU
  <2>1. call # NULL /\ call # Bye /\ call \in 1..calls \cup {Bye}
    BY <1>1 DEF Inv, BspInv, KindInv, Typing
  <2>2. t \in CPU /\ call \in Ids \cup {Bye}
    BY <1>1, <2>1, TargetInCPU DEF Inv
  <2> QED BY <1>1, <2>1, <2>2 DEF CallIds, CallInv
<1>4. t \in AP
  BY <1>1, <1>3 DEF AP, CallInv
<1>5. param[call].target = t
  OBVIOUS
<1> HIDE DEF t
<1>6. bsp' \in {"free", "poll"}
  BY <1>2, <1>3
<1>7. /\ UNCHANGED <<LoopMode, Info, mBspSwitched, mNewProcessorNumber, AP, BspNumber>> /\ ~mBspSwitched
      /\ AP \subseteq CPU
  BY <1>1 DEF roleVars, AP, TailInv, Switching
<1>8. /\ \A k \in CallIds \ {call} : result'[k] = result[k] /\ given'[k] = given[k]
      /\ result'[call] = "pending" /\ given'[call] = {t}
      /\ \A k \in CallIds : Kind(k)' = Kind(k)
  BY <1>1, <1>3 DEF Shapes, Kind
<1>9. /\ \A p \in CPU \ {t} : WaitEvent'[p] = WaitEvent[p] /\ State'[p] = State[p]
      /\ State'[t] = "ready" /\ State' = [p \in CPU |-> IF p \in {t} THEN "ready" ELSE State[p]]
      /\ WaitEvent[t] = NULL
      /\ \/ WaitEvent'[t] = call /\ call' = NULL /\ bsp' = "free"
         \/ WaitEvent'[t] = NULL /\ call' = call /\ bsp' = "poll"
  <2>1. State \in [CPU -> States] /\ WaitEvent \in [CPU -> Ids \cup {NULL}]
    BY DEF Inv, Typing
  <2>2. WaitEvent[t] = NULL
    BY <1>1, <1>3 DEF Inv, KindInv, Working
  <2>3. \A p \in CPU \ {t} : WaitEvent'[p] = WaitEvent[p] /\ State'[p] = State[p]
    BY <1>1, <1>2, <2>1
  <2>4. State'[t] = "ready" /\ State' = [p \in CPU |-> IF p \in {t} THEN "ready" ELSE State[p]]
    BY <1>1, <1>3, <2>1
  <2>5. \/ WaitEvent'[t] = call /\ call' = NULL /\ bsp' = "free"
        \/ WaitEvent'[t] = NULL /\ call' = call /\ bsp' = "poll"
    BY <1>2, <1>3, <2>1
  <2> QED BY <2>2, <2>3, <2>4, <2>5
<1>10. \A p \in CPU, j \in CallIds : Outstanding(p, j)' <=> Outstanding(p, j) \/ (j = call /\ p \in {t})
  <2> SUFFICES ASSUME NEW p \in CPU, NEW j \in CallIds
               PROVE  Outstanding(p, j)' <=> Outstanding(p, j) \/ (j = call /\ p \in {t})
    OBVIOUS
  <2>1. CASE j = call
    BY <1>1, <1>3, <1>8, <2>1 DEF Outstanding
  <2>2. CASE j # call
    BY <1>1, <1>8, <2>2 DEF Outstanding
  <2> QED BY <2>1, <2>2
<1>11. {t} \in SUBSET AP /\ {t} \in SUBSET {t} /\ \A p \in {t} : State[p] = "idle"
  BY <1>1, <1>4
<1>12. /\ pc' \in [CPU -> ProcPc] /\ num' \in [CPU -> 0..BspStack] /\ proc' \in [CPU -> CallIds \cup {NULL, Swap}]
       /\ Procedure' \in [CPU -> CallIds \cup {NULL, Swap}] /\ ApLoopMode' \in [CPU -> Modes]
       /\ StartupApSignal' \in [CPU -> BOOLEAN] /\ ReadyToBootFlag' \in [CPU -> BOOLEAN]
       /\ \A p \in CPU : ~ReadyToBootFlag'[p] /\ ran'[p][Bye] = 0
       /\ HltInv' /\ ApInv' /\ TailInv' /\ SwitchInv' /\ OffInv'
       /\ \A p \in CPU \ {t} : pc'[p] = pc[p] /\ StartupApSignal'[p] = StartupApSignal[p]
       /\ \A p \in CPU, i, j \in CallIds : Outstanding(p, i)' /\ Outstanding(p, j)' => i = j
  <2> DEFINE G == {t}
             woken == {t}
  <2>1. /\ G \in SUBSET AP /\ woken \in SUBSET G /\ \A p \in G : State[p] = "idle"
        /\ Assign(woken, call) /\ Launch(woken, {}) /\ State' = [p \in CPU |-> IF p \in G THEN "ready" ELSE State[p]]
        /\ \A p \in CPU, j \in CallIds : Outstanding(p, j)' <=> Outstanding(p, j) \/ (j = call /\ p \in G)
    BY <1>1, <1>9, <1>10, <1>11
  <2>2. bsp = "start" /\ call \in CallIds /\ result[call] = "none" /\ UNCHANGED <<roleVars, ran, off>>
    BY <1>1, <1>3
  <2> HIDE DEF G, woken
  <2>3. /\ pc' \in [CPU -> ProcPc] /\ num' \in [CPU -> 0..BspStack] /\ proc' \in [CPU -> CallIds \cup {NULL, Swap}]
        /\ Procedure' \in [CPU -> CallIds \cup {NULL, Swap}] /\ ApLoopMode' \in [CPU -> Modes]
        /\ StartupApSignal' \in [CPU -> BOOLEAN] /\ ReadyToBootFlag' \in [CPU -> BOOLEAN]
        /\ \A p \in CPU : ~ReadyToBootFlag'[p] /\ ran'[p][Bye] = 0
        /\ HltInv' /\ ApInv' /\ TailInv' /\ SwitchInv' /\ OffInv'
        /\ \A p \in CPU \ woken : pc'[p] = pc[p] /\ StartupApSignal'[p] = StartupApSignal[p]
        /\ \A p \in G \ woken : WaitsTurn(p)'
        /\ \A p \in CPU, i, j \in CallIds : Outstanding(p, i)' /\ Outstanding(p, j)' => i = j
    BY <1>6, <2>1, <2>2, GivenOut
  <2> QED BY <2>3 DEF woken
<1>13. Shapes'
  <2>1. bsp' \in Services
    BY <1>6 DEF Services
  <2>2. result' \in [CallIds -> Results] /\ given' \in [CallIds -> SUBSET CPU]
    BY <1>1, <1>3 DEF Shapes, Results
  <2> QED BY <1>1, <1>7, <1>12, <2>1, <2>2 DEF Shapes
<1>14. ParamInv'
  BY <1>1, <1>7, <1>8, Numbers DEF ParamInv, Shapes
<1>15. (Checked' <=> Checked) /\ (Checked => sysCall \in CallIds /\ sysCall # call)
  <2>1. sysCall # NULL => sysCall # call /\ sysCall \in CallIds
    BY <1>1 DEF Inv, KindInv, Typing, CallIds
  <2> QED BY <1>1, <1>8, <2>1 DEF Checked
<1>16. CallInv'
  <2>1. \A k \in CallIds : result'[k] = "none" => given'[k] = {} /\ \A p \in CPU : ran'[p][k] = 0
    BY <1>1, <1>8 DEF CallInv
  <2>2. \A k \in Ids : calls' < k => result'[k] = "none"
    <3>1. \A k \in Ids : calls < k => k # call
      BY <1>3, Numbers DEF Inv, Typing, Ids
    <3> QED BY <1>1, <1>8, <3>1, Numbers DEF CallInv
  <2>3. result'[Bye] # "none" => (bsp' = "poll" /\ call' = Bye) \/ bsp' = "booted"
    BY <1>1, <1>3, <1>8, Numbers DEF CallInv
  <2>4. /\ bsp' \notin {"update", "start"} /\ (call' # NULL \/ bsp' = "poll" => call' = call)
        /\ call' # NULL => Kind(call)' = "this" /\ param'[call'].target # BspNumber'
    <3>1. call' # NULL \/ bsp' = "poll" => call' = call
      BY <1>9
    <3> QED BY <1>1, <1>4, <1>5, <1>6, <1>7, <3>1 DEF Kind, AP
  <2>5. \A k \in CallIds : result'[k] = "pending" =>
       \/ Kind(k)' = "all" /\ k = sysCall'
       \/ /\ Kind(k)' = "this"
          /\ \E p \in AP' : given'[k] = {p} /\ (WaitEvent'[p] = k \/ (bsp' \in {"poll", "spin"} /\ call' = k))
       \/ Kind(k)' = "switch" /\ given'[k] = {} /\ bsp' \in {"switch", "switched"} /\ call' = k
    <3> SUFFICES ASSUME NEW k \in CallIds, result'[k] = "pending"
                 PROVE  \/ Kind(k)' = "all" /\ k = sysCall'
                        \/ /\ Kind(k)' = "this"
                           /\ \E p \in AP' : given'[k] = {p} /\ (WaitEvent'[p] = k \/ (bsp' = "poll" /\ call' = k))
      OBVIOUS
    <3>1. CASE k = call
      BY <1>1, <1>4, <1>7, <1>8, <1>9, <3>1
    <3>2. CASE k # call
      <4>1. \/ Kind(k) = "all" /\ k = sysCall
            \/ Kind(k) = "this" /\ \E p \in AP : given[k] = {p} /\ WaitEvent[p] = k
        BY <1>1, <1>8, <3>2 DEF CallInv
      <4>2. \A p \in AP : WaitEvent[p] = k => p \in CPU \ {t}
        BY <1>7, <1>9, Numbers
      <4> QED BY <1>1, <1>7, <1>8, <1>9, <3>2, <4>1, <4>2
    <3> QED BY <3>1, <3>2
  <2>6. \A p \in CPU : WaitEvent'[p] # NULL => result'[WaitEvent'[p]] = "pending" /\ given'[WaitEvent'[p]] = {p}
    <3> SUFFICES ASSUME NEW p \in CPU, WaitEvent'[p] # NULL
                 PROVE  result'[WaitEvent'[p]] = "pending" /\ given'[WaitEvent'[p]] = {p}
      OBVIOUS
    <3>1. CASE p = t
      BY <1>8, <1>9, <3>1
    <3>2. CASE p # t
      <4>1. WaitEvent'[p] = WaitEvent[p] /\ WaitEvent[p] \in Ids /\ result[WaitEvent[p]] = "pending" /\ given[WaitEvent[p]] = {p}
        BY <1>9, <3>2 DEF CallInv, Inv, Typing
      <4> QED BY <1>3, <1>8, <4>1, Numbers
    <3> QED BY <3>1, <3>2
  <2>7. bsp' = "poll" /\ Kind(call)' = "this" =>
          result'[call'] = "pending" /\ given'[call'] = {param'[call'].target}
    BY <1>1, <1>5, <1>8, <2>4
  <2>8. Checked' => CpuList' \subseteq given'[sysCall']
    BY <1>1, <1>8, <1>15 DEF CallInv
  <2> QED BY <1>12, <2>1, <2>2, <2>3, <2>4, <2>5, <2>6, <2>7, <2>8 DEF CallInv
<1>17. SingleInv'
  <2>1. Checked => \A p \in CpuList : p \in CPU \ {t}
    BY <1>1 DEF Inv, CheckedInv, Typing, Working
  <2>2. \A p \in CPU \ {t} : WaitsTurn(p) => WaitsTurn(p)'
    BY <1>9, <1>12 DEF WaitsTurn
  <2> QED BY <1>1, <1>15, <2>1, <2>2 DEF SingleInv
<1>18. ReportInv'
  <2>1. \A k \in CallIds : result'[k] \in {"success", "timeout"} =>
          \A p \in given'[k] \ failed'[k] : ran'[p][k] = 1
    BY <1>1, <1>8 DEF ReportInv
  <2>2. \A k \in CallIds : result'[k] # "timeout" => failed'[k] = {}
    BY <1>1, <1>3, <1>8 DEF ReportInv
  <2>3. Checked' => \A p \in given'[sysCall'] \ CpuList' : ran'[p][sysCall'] = 1
    BY <1>1, <1>8, <1>15 DEF ReportInv
  <2> QED BY <2>1, <2>2, <2>3 DEF ReportInv
<1>19. BootInv'
  <2>1. call' # Bye /\ bsp' # "booted"
    BY <1>3, <1>6, <1>9, Numbers
  <2> QED BY <1>12, <2>1 DEF BootInv
<1> QED BY <1>12, <1>13, <1>14, <1>16, <1>17, <1>18, <1>19

-----------------------------------------------------------------------------
(* The end of calls.                                                       *)

\* An AP that is found finished is about to go back to its loop.
LEMMA FoundFinished ==
  ASSUME Strong, Normal, NEW p \in AP, NEW k \in CallIds, Outstanding(p, k), State[p] = "finished", Unlocked(p)
  PROVE  pc[p] \in RestPc /\ ~StartupApSignal[p] /\ ran[p][k] = 1
<1> USE DEF Strong
<1>1. p \in CPU /\ num[p] = p /\ Serves(p, k)
  BY DEF AP, ApInv, ApFits
<1>2. pc[p] \in RestPc \cup {"leave"} /\ ~StartupApSignal[p] /\ ran[p][k] = 1
  BY <1>1 DEF Serves
<1>3. pc[p] # "leave"
  BY <1>1 DEF Unlocked, HeldPc, Slot
<1> QED BY <1>2, <1>3

\* APs are reset by INIT.
LEMMA Reset ==
  ASSUME Strong, Normal, NEW late \in SUBSET AP, Launch({}, late), LoopMode = "hlt", result[Bye] = "none",
         UNCHANGED ran
  PROVE  /\ \A p \in late : pc'[p] = "loop"
         /\ \A p \in CPU \ late : pc'[p] = pc[p] /\ proc'[p] = proc[p]
         /\ num' = num /\ pc' \in [CPU -> ProcPc] /\ proc' \in [CPU -> CallIds \cup {NULL, Swap}]
         /\ ReadyToBootFlag' \in [CPU -> BOOLEAN]
         /\ \A p \in CPU : ~ReadyToBootFlag'[p] /\ ran'[p][Bye] = 0
         /\ \A p \in CPU : pc'[p] \notin {"armed", "sleep", "poll"}
<1> USE DEF Strong
<1>1. /\ pc' = [p \in CPU |-> IF p \in late THEN "loop" ELSE pc[p]]
      /\ num' = [p \in CPU |-> IF p \in late THEN p ELSE num[p]]
      /\ proc' = [p \in CPU |-> IF p \in late THEN NULL ELSE proc[p]]
      /\ ReadyToBootFlag' = [p \in CPU |-> ReadyToBootFlag[p] /\ p \notin late]
  <2>1. late \cup {p \in {} : ApLoopMode[p] = "hlt"} = late
    OBVIOUS
  <2> QED BY <2>1 DEF Launch
<1>2. \A p \in late : p \in CPU /\ num[p] = p
  BY DEF AP, ApInv, ApFits
<1>3. \A p \in CPU : ran[p][Bye] = 0 /\ ~ReadyToBootFlag[p]
  BY Numbers DEF CallInv, BootInv
<1>4. num' = num
  BY <1>1, <1>2 DEF Shapes
<1>5. pc' \in [CPU -> ProcPc] /\ proc' \in [CPU -> CallIds \cup {NULL, Swap}] /\ ReadyToBootFlag' \in [CPU -> BOOLEAN]
  BY <1>1 DEF Shapes, ProcPc, LoopPc
<1>6. \A p \in CPU : pc'[p] \notin {"armed", "sleep", "poll"}
  BY <1>1 DEF HltInv
<1> QED BY <1>1, <1>2, <1>3, <1>4, <1>5, <1>6

\* StartupThisAP ends, for its caller or for CheckAndUpdateAPsStatus.
LEMMA ThisEnds ==
  ASSUME Strong, Inv', NEW p \in CPU, NEW k \in CallIds, Kind(k) = "this", result[k] = "pending", given[k] = {p},
         \/ bsp = "update" /\ WaitEvent[p] = k /\ WaitEvent' = [WaitEvent EXCEPT ![p] = NULL] /\ UNCHANGED <<bsp, call>>
         \/ bsp = "poll" /\ call = k /\ UNCHANGED WaitEvent /\ Return,
         ThisFinished(p, k) \/ ThisTimeout(p, k),
         UNCHANGED <<sysVars, param, given, due, calls, ran, off, roleVars>>
  PROVE  Strong'
<1> USE DEF Strong
<1>1. UNCHANGED <<CpuList, sysEvent, sysCall, LoopMode, BspNumber, Info, mBspSwitched, mNewProcessorNumber, AP>>
  BY DEF sysVars, roleVars, AP
<1>2. k # Bye /\ k \in Ids /\ (Checked => sysCall # k /\ sysCall \in CallIds)
  BY DEF Inv, KindInv, Typing, Checked, CallIds
<1>3. /\ bsp \in {"update", "poll"} /\ bsp' \in {"update", "free"} /\ (bsp' = "update" => UNCHANGED <<bsp, call>>)
      /\ (bsp' = "free" => call' = NULL /\ bsp = "poll" /\ call = k /\ UNCHANGED WaitEvent)
  BY <1>2 DEF Return
<1>4. Normal /\ Normal'
  <2>1. ~Switching /\ ~Switching'
    BY <1>3 DEF Switching
  <2>2. ~mBspSwitched
    BY <1>3, <2>1 DEF TailInv
  <2> QED BY <1>1, <2>1, <2>2 DEF Normal
<1>5. result[Bye] = "none"
  BY <1>2, <1>3 DEF CallInv
<1>6. Outstanding(p, k) /\ p \in AP /\ ApFits(p) /\ Serves(p, k) /\ State[p] \in Working
  <2>1. Outstanding(p, k)
    BY DEF Outstanding
  <2>2. p \in AP
    BY <2>1, OnAp
  <2> QED BY <1>4, <2>1, <2>2 DEF ApInv, ApFits
<1>7. k \in due => LoopMode = "hlt"
  BY DEF ParamInv
<1>8. PICK r \in {"success", "timeout"} :
        /\ result' = [result EXCEPT ![k] = r] /\ State' = [State EXCEPT ![p] = "idle"]
        /\ UNCHANGED <<Procedure, ApLoopMode, StartupApSignal>>
        /\ r = "success" => UNCHANGED <<pc, num, proc, ReadyToBootFlag, failed>> /\ Unlocked(p) /\ State[p] = "finished"
        /\ r = "timeout" => LoopMode = "hlt" /\ Launch({}, {p}) /\ failed' = [failed EXCEPT ![k] = {p}]
  <2>1. CASE ThisFinished(p, k)
    BY <2>1 DEF ThisFinished, wakeVars, apVars
  <2>2. CASE ThisTimeout(p, k)
    BY <1>7, <2>2 DEF ThisTimeout
  <2> QED BY <2>1, <2>2
<1>9. /\ \A j \in CallIds \ {k} : result'[j] = result[j] /\ failed'[j] = failed[j]
      /\ result'[k] = r /\ \A j \in CallIds : Kind(j)' = Kind(j)
      /\ \A q \in CPU \ {p} : State'[q] = State[q]
      /\ State'[p] = "idle"
  <2>1. result \in [CallIds -> Results] /\ failed \in [CallIds -> SUBSET CPU] /\ State \in [CPU -> States]
    BY DEF Shapes, Inv, Typing
  <2>2. \A j \in CallIds \ {k} : failed'[j] = failed[j]
    BY <1>8, <2>1
  <2> QED BY <1>8, <2>1, <2>2 DEF Kind
<1>10. /\ num' = num /\ pc' \in [CPU -> ProcPc] /\ proc' \in [CPU -> CallIds \cup {NULL, Swap}]
       /\ ReadyToBootFlag' \in [CPU -> BOOLEAN]
       /\ \A q \in CPU : ~ReadyToBootFlag'[q] /\ ran'[q][Bye] = 0
       /\ \A q \in CPU \ {p} : pc'[q] = pc[q] /\ proc'[q] = proc[q]
       /\ pc'[p] \in RestPc
       /\ r = "success" => ran[p][k] = 1
       /\ LoopMode = "hlt" => \A q \in CPU : pc'[q] \notin {"armed", "sleep", "poll"}
  <2>1. CASE r = "success"
    <3>1. pc[p] \in RestPc /\ ran[p][k] = 1
      BY <1>4, <1>6, <1>8, <2>1, FoundFinished
    <3>2. \A q \in CPU : ~ReadyToBootFlag[q] /\ ran[q][Bye] = 0
      BY <1>5, Numbers DEF CallInv, BootInv
    <3> QED BY <1>8, <2>1, <3>1, <3>2 DEF Shapes, HltInv
  <2>2. CASE r = "timeout"
    <3> DEFINE late == {p}
    <3>1. late \in SUBSET AP /\ Launch({}, late) /\ LoopMode = "hlt"
      BY <1>6, <1>8, <2>2
    <3> HIDE DEF late
    <3>2. /\ \A q \in late : pc'[q] = "loop"
          /\ \A q \in CPU \ late : pc'[q] = pc[q] /\ proc'[q] = proc[q]
          /\ num' = num /\ pc' \in [CPU -> ProcPc] /\ proc' \in [CPU -> CallIds \cup {NULL, Swap}]
          /\ ReadyToBootFlag' \in [CPU -> BOOLEAN]
          /\ \A q \in CPU : ~ReadyToBootFlag'[q] /\ ran'[q][Bye] = 0
          /\ \A q \in CPU : pc'[q] \notin {"armed", "sleep", "poll"}
      BY <1>4, <1>5, <3>1, Reset
    <3> QED BY <2>2, <3>2 DEF late, RestPc, LoopPc
  <2> QED BY <2>1, <2>2
<1>11. StartupApSignal'[p] = FALSE
  <2>1. CASE r = "success"
    <3>1. ~StartupApSignal[p]
      BY <1>4, <1>6, <1>8, <2>1, FoundFinished
    <3> QED BY <1>8, <3>1 DEF Shapes
  <2>2. CASE r = "timeout"
    BY <1>8, <2>2 DEF HltInv, Shapes
  <2> QED BY <2>1, <2>2
<1>12. \A q \in CPU, j \in CallIds : Outstanding(q, j)' <=> Outstanding(q, j) /\ j # k
  BY <1>1, <1>9 DEF Outstanding
<1>13. \A j \in CallIds : ~Outstanding(p, j)'
  BY <1>6, <1>12 DEF CallInv
<1>14. Shapes'
  <2>1. bsp' \in Services
    BY <1>3 DEF Services
  <2>2. result' \in [CallIds -> Results]
    BY <1>8 DEF Shapes, Results
  <2>3. failed' \in [CallIds -> SUBSET CPU]
    BY <1>8 DEF Shapes
  <2>4. num' \in [CPU -> 0..BspStack]
    BY <1>10 DEF Shapes
  <2> QED BY <1>1, <1>8, <1>10, <2>1, <2>2, <2>3, <2>4 DEF Shapes
<1>15. ParamInv' /\ HltInv'
  <2>1. ParamInv'
    BY <1>1, <1>9 DEF ParamInv, Shapes, CallIds
  <2>2. HltInv'
    BY <1>1, <1>8, <1>10 DEF HltInv
  <2> QED BY <2>1, <2>2
<1>16. CallInv'
  <2>1. \A j \in CallIds : result'[j] = "none" => given'[j] = {} /\ \A q \in CPU : ran'[q][j] = 0
    BY <1>9 DEF CallInv
  <2>2. \A j \in Ids : calls' < j => result'[j] = "none"
    BY <1>9, Numbers DEF CallInv
  <2>3. result'[Bye] = "none"
    BY <1>2, <1>5, <1>9, Numbers
  <2>4. /\ bsp' \in {"update", "start"} /\ call' # NULL => result'[call'] = "none"
        /\ call' # NULL => call' = call
        /\ call' # NULL => Kind(call)' # "switch" /\ (Kind(call)' = "this" => param'[call'].target # BspNumber')
    <3>1. call' # NULL => call' = call /\ bsp = "update" /\ bsp' = "update"
      BY <1>3
    <3>2. call # NULL /\ bsp = "update" => call # k /\ result[call] = "none" /\ call \in CallIds
      <4>1. call # NULL => call \in CallIds
        BY NumAssumption DEF Inv, Typing, Ids, CallIds
      <4> QED BY <4>1 DEF CallInv
    <3>3. Kind(call)' = param[call'].kind
      BY DEF Kind
    <3> QED BY <1>1, <1>9, <3>1, <3>2, <3>3 DEF CallInv, Kind
  <2>5. \A j \in CallIds : result'[j] = "pending" =>
       \/ Kind(j)' = "all" /\ j = sysCall'
       \/ /\ Kind(j)' = "this"
          /\ \E q \in AP' : given'[j] = {q} /\ (WaitEvent'[q] = j \/ (bsp' \in {"poll", "spin"} /\ call' = j))
       \/ Kind(j)' = "switch" /\ given'[j] = {} /\ bsp' \in {"switch", "switched"} /\ call' = j
    <3> SUFFICES ASSUME NEW j \in CallIds, result'[j] = "pending"
                 PROVE  \/ Kind(j)' = "all" /\ j = sysCall'
                        \/ /\ Kind(j)' = "this"
                           /\ \E q \in AP' : given'[j] = {q} /\ WaitEvent'[q] = j
      OBVIOUS
    <3>1. j # k /\ result[j] = "pending"
      BY <1>9
    <3>2. \/ Kind(j) = "all" /\ j = sysCall
          \/ Kind(j) = "this" /\ \E q \in AP : given[j] = {q} /\ WaitEvent[q] = j
      BY <1>3, <3>1 DEF CallInv
    <3>3. \A q \in AP : WaitEvent[q] = j => WaitEvent'[q] = j
      BY <3>1 DEF Inv, Typing, AP
    <3> QED BY <1>1, <1>9, <3>2, <3>3
  <2>6. \A q \in CPU : WaitEvent'[q] # NULL => result'[WaitEvent'[q]] = "pending" /\ given'[WaitEvent'[q]] = {q}
    <3> SUFFICES ASSUME NEW q \in CPU, WaitEvent'[q] # NULL
                 PROVE  result'[WaitEvent'[q]] = "pending" /\ given'[WaitEvent'[q]] = {q}
      OBVIOUS
    <3>1. /\ WaitEvent'[q] = WaitEvent[q]
          /\ bsp = "update" => q # p
      BY DEF Inv, Typing
    <3>2. WaitEvent[q] \in Ids /\ result[WaitEvent[q]] = "pending" /\ given[WaitEvent[q]] = {q}
      BY <3>1 DEF CallInv, Inv, Typing
    <3>3. bsp = "poll" => WaitEvent[p] = NULL
      BY <1>3 DEF Inv, BspInv, CallInv
    <3>4. WaitEvent[q] # k
      BY <1>3, <3>1, <3>2, <3>3
    <3> QED BY <1>9, <3>1, <3>2, <3>4, Numbers
  <2>7. bsp' # "poll"
    BY <1>3
  <2>8. Checked' => CpuList' \subseteq given'[sysCall']
    BY <1>1, <1>2, <1>9 DEF CallInv, Checked, Inv, Typing, CallIds
  <2>9. \A q \in CPU, i, j \in CallIds : Outstanding(q, i)' /\ Outstanding(q, j)' => i = j
    BY <1>12 DEF CallInv
  <2> QED BY <2>1, <2>2, <2>3, <2>4, <2>5, <2>6, <2>7, <2>8, <2>9 DEF CallInv
<1>17. ApInv'
  <2>1. ASSUME NEW q \in AP PROVE ApFits(q)'
    <3>1. ApFits(q) /\ q \in CPU
      BY <1>4 DEF ApInv, AP
    <3>2. CASE q = p
      <4>1. num'[p] = p /\ State'[p] \notin Working /\ StartupApSignal'[p] = FALSE /\ pc'[p] \in RestPc
        BY <1>9, <1>10, <1>11, <3>1, <3>2 DEF ApFits, Working
      <4> QED BY <1>13, <3>2, <4>1 DEF ApFits
    <3>3. CASE q # p
      <4>1. \A j \in CallIds : Outstanding(q, j)' <=> Outstanding(q, j)
        BY <1>12, <3>1, <3>3 DEF Outstanding
      <4>2. q \in CPU \ {p}
        BY <3>1, <3>3
      <4>3. \A j \in CallIds : Serves(q, j) => Serves(q, j)'
        BY <1>3, <1>8, <1>9, <1>10, <4>2 DEF Serves
      <4> QED BY <1>8, <1>9, <1>10, <3>1, <4>1, <4>2, <4>3 DEF ApFits
    <3> QED BY <3>2, <3>3
  <2>2. pc'[BspNumber] = "bsp" /\ num'[BspNumber] = BspStack
    BY <1>4, <1>6, <1>10 DEF ApInv, AP, Inv, Typing
  <2> QED BY <1>1, <2>1, <2>2 DEF ApInv
<1>18. TailInv' /\ SwitchInv'
  BY <1>4 DEF TailInv, SwitchInv, Normal
<1>19. OffInv'
  <2>1. p \notin off
    BY <1>6 DEF OffInv, Working
  <2>2. State[BspNumber] # "finished" /\ BspNumber \in CPU \ {p}
    BY <1>4, <1>6 DEF OffInv, Normal, AP, Inv, Typing
  <2> QED BY <2>2, <1>1, <1>9, <2>1 DEF OffInv, Shapes
<1>20. SingleInv'
  <2>1. (Checked' <=> Checked) /\ (Checked => p \notin CpuList)
    <3>1. Checked' <=> Checked
      BY <1>1, <1>2, <1>9 DEF Checked, Inv, Typing, CallIds
    <3>2. ASSUME Checked, p \in CpuList PROVE FALSE
      <4>1. Outstanding(p, sysCall)
        BY <3>2 DEF Outstanding, Checked, CallInv
      <4> QED BY <1>2, <1>6, <3>2, <4>1 DEF CallInv
    <3> QED BY <3>1, <3>2
  <2>2. \A q \in CPU \ {p} : WaitsTurn(q) => WaitsTurn(q)'
    BY <1>8, <1>9, <1>10 DEF WaitsTurn
  <2> QED BY <1>1, <2>1, <2>2 DEF SingleInv, Inv, Typing
<1>21. ReportInv'
  <2>1. \A j \in CallIds : result'[j] \in {"success", "timeout"} =>
          \A q \in given'[j] \ failed'[j] : ran'[q][j] = 1
    <3> SUFFICES ASSUME NEW j \in CallIds, result'[j] \in {"success", "timeout"}, NEW q \in given[j] \ failed'[j]
                 PROVE  ran[q][j] = 1
      OBVIOUS
    <3>1. CASE j = k
      <4>1. q = p
        BY <3>1
      <4>2. r = "timeout" => failed'[k] = {p}
        BY <1>8 DEF Shapes
      <4> QED BY <1>10, <3>1, <4>1, <4>2
    <3>2. CASE j # k
      BY <1>9, <3>2 DEF ReportInv
    <3> QED BY <3>1, <3>2
  <2>2. Checked' => \A q \in given'[sysCall'] \ CpuList' : ran'[q][sysCall'] = 1
    BY <1>1, <1>2, <1>9 DEF ReportInv, Checked, Inv, Typing, CallIds
  <2>3. \A j \in CallIds : result'[j] # "timeout" => failed'[j] = {}
    BY <1>8, <1>9 DEF ReportInv
  <2> QED BY <2>1, <2>2, <2>3 DEF ReportInv
<1>22. BootInv'
  <2>1. call' # Bye
    <3>1. call = Bye /\ bsp = "update" => FALSE
      BY <1>6 DEF BootInv, Working
    <3> QED BY <1>3, <3>1, Numbers
  <2> QED BY <1>3, <1>10, <2>1 DEF BootInv
<1> QED BY <1>14, <1>15, <1>16, <1>17, <1>18, <1>19, <1>20, <1>21, <1>22

\* StartupThisAP is polled for, by its caller and by CheckAndUpdateAPsStatus.
LEMMA PollThisStrong ==
  ASSUME Strong, Inv', PollThis
  PROVE  Strong'
<1> USE DEF Strong
<1> DEFINE p == param[call].target
           k == call
<1>1. /\ bsp = "poll" /\ Kind(call) = "this"
      /\ UNCHANGED <<WaitEvent, sysVars, param, given, due, calls, ran, off, roleVars>>
      /\ \/ ThisNotReady(p, k) /\ UNCHANGED <<bsp, call>>
         \/ (ThisFinished(p, k) \/ ThisTimeout(p, k)) /\ Return
  BY DEF PollThis, Kind
<1>2. /\ p \in CPU /\ k \in CallIds /\ Kind(k) = "this" /\ result[k] = "pending" /\ given[k] = {p} /\ call = k
  <2>1. call # NULL
    BY <1>1 DEF Inv, BspInv
  <2> QED BY <1>1, <2>1, TargetInCPU DEF Inv, CallInv, CallIds
<1> HIDE DEF p, k
<1>3. CASE ThisNotReady(p, k) /\ UNCHANGED <<bsp, call>>
  <2>1. UNCHANGED <<blockVars, wakeVars, sysVars, apVars, roleVars, bsp, call, param, given, result, failed, calls,
                    ran, off>> /\ UNCHANGED due
    BY <1>1, <1>3 DEF ThisNotReady, blockVars
  <2>2. due' \in SUBSET Ids /\ \A j \in due' : param[j].timeout /\ result[j] # "none"
    BY <2>1 DEF Shapes, ParamInv
  <2> QED BY <2>1, <2>2, OnlyTime
<1>4. CASE (ThisFinished(p, k) \/ ThisTimeout(p, k)) /\ Return
  BY <1>1, <1>2, <1>4, ThisEnds
<1> QED BY <1>1, <1>3, <1>4

\* The timer callback checks on a call that one AP was given.
LEMMA UpdateThisStrong ==
  ASSUME Strong, Inv', UpdateThis
  PROVE  Strong'
<1> USE DEF Strong
<1> DEFINE p == Min(Waiting)
           k == WaitEvent[p]
<1>1. /\ bsp = "update" /\ Waiting # {}
      /\ UNCHANGED <<sysVars, param, given, due, calls, ran, off, roleVars>>
      /\ UNCHANGED <<bsp, call>>
      /\ \/ ThisNotReady(p, k) /\ UNCHANGED WaitEvent
         \/ /\ ThisFinished(p, k) \/ ThisTimeout(p, k)
            /\ WaitEvent' = [WaitEvent EXCEPT ![p] = NULL]
  BY DEF UpdateThis
<1>2. p \in CPU /\ k # NULL
  <2>1. Waiting \in SUBSET Nat
    BY NumAssumption DEF Waiting, CPU
  <2>2. p \in Waiting
    BY <1>1, <2>1, Minimum, Zenon DEF Min
  <2> QED BY <2>2 DEF Waiting
<1> HIDE DEF p
<1>3. /\ k \in CallIds /\ Kind(k) = "this" /\ result[k] = "pending" /\ given[k] = {p} /\ WaitEvent[p] = k
  BY <1>2, Numbers DEF CallInv, Inv, Typing, KindInv
<1> HIDE DEF k
<1>4. CASE ThisNotReady(p, k) /\ UNCHANGED WaitEvent
  <2>1. UNCHANGED <<blockVars, wakeVars, sysVars, apVars, roleVars, bsp, call, param, given, result, failed, calls,
                    ran, off>> /\ UNCHANGED due
    BY <1>1, <1>4 DEF ThisNotReady, blockVars
  <2>2. due' \in SUBSET Ids /\ \A j \in due' : param[j].timeout /\ result[j] # "none"
    BY <2>1 DEF Shapes, ParamInv
  <2> QED BY <2>1, <2>2, OnlyTime
<1>5. CASE (ThisFinished(p, k) \/ ThisTimeout(p, k)) /\ WaitEvent' = [WaitEvent EXCEPT ![p] = NULL]
  BY <1>1, <1>2, <1>3, <1>5, ThisEnds
<1> QED BY <1>1, <1>4, <1>5

\* The APs of the call to all of them that goes on.
LEMMA Listed ==
  ASSUME Strong, Normal, Checked
  PROVE  /\ sysCall \in CallIds /\ Kind(sysCall) = "all" /\ CpuList \in SUBSET AP /\ AP \subseteq CPU
         /\ \A p \in CpuList : Outstanding(p, sysCall) /\ ApFits(p) /\ Serves(p, sysCall) /\ State[p] \in Working
         /\ \A p \in CPU \ CpuList : ~Outstanding(p, sysCall)
         /\ \A p \in CPU, j \in CallIds : Outstanding(p, j) /\ j # sysCall => Kind(j) # "all"
<1> USE DEF Strong
<1>1. sysCall \in CallIds /\ Kind(sysCall) = "all" /\ result[sysCall] = "pending" /\ CpuList \subseteq given[sysCall]
  BY DEF Checked, Inv, Typing, KindInv, CallInv, CallIds
<1>2. CpuList \in SUBSET AP /\ AP \subseteq CPU /\ \A p \in CpuList : State[p] \in Working
  BY DEF Inv, Typing, CheckedInv, AP
<1>3. \A p \in CpuList : Outstanding(p, sysCall)
  BY <1>1 DEF Outstanding
<1>4. \A p \in CpuList : ApFits(p)
  BY <1>2 DEF ApInv
<1>5. \A p \in CpuList : Serves(p, sysCall)
  BY <1>1, <1>3, <1>4 DEF ApFits
<1>6. \A p \in CPU \ CpuList : ~Outstanding(p, sysCall)
  BY <1>1 DEF Outstanding
<1>7. \A p \in CPU, j \in CallIds : Outstanding(p, j) /\ j # sysCall => Kind(j) # "all"
  BY DEF Outstanding, CallInv
<1> QED BY <1>1, <1>2, <1>3, <1>4, <1>5, <1>6, <1>7

\* Nobody is woken.
LEMMA NobodyWoken ==
  ASSUME Shapes, NEW k, Assign({}, k), Launch({}, {})
  PROVE  UNCHANGED <<pc, proc, num, Procedure, ApLoopMode, StartupApSignal, ReadyToBootFlag>>
<1>1. /\ pc' = [p \in CPU |-> pc[p]] /\ proc' = [p \in CPU |-> proc[p]] /\ num' = [p \in CPU |-> num[p]]
      /\ ReadyToBootFlag' = [p \in CPU |-> ReadyToBootFlag[p]]
  <2>1. {} \cup {p \in {} : ApLoopMode[p] = "hlt"} = {}
    OBVIOUS
  <2>2. \A p \in CPU : (ReadyToBootFlag[p] /\ p \notin {}) = ReadyToBootFlag[p]
    BY DEF Shapes
  <2> QED BY <2>1, <2>2 DEF Launch
<1>2. /\ Procedure' = [p \in CPU |-> Procedure[p]] /\ ApLoopMode' = [p \in CPU |-> ApLoopMode[p]]
      /\ StartupApSignal' = [p \in CPU |-> StartupApSignal[p]]
  <2>1. \A p \in CPU : (StartupApSignal[p] \/ (p \in {} /\ ApLoopMode[p] # "hlt")) = StartupApSignal[p]
    BY DEF Shapes
  <2> QED BY <2>1 DEF Assign
<1> QED BY <1>1, <1>2 DEF Shapes

\* What CheckAllAPs does with the APs: those in S are idle again, and those in W
\* are woken.
Moved(S, W) ==
  /\ CpuList' = CpuList \ S
  /\ \A p \in S : State'[p] = "idle" /\ pc'[p] \in RestPc /\ StartupApSignal'[p] = FALSE
  /\ \A p \in W : /\ State'[p] = "ready" /\ State[p] = "ready" /\ ran[p][sysCall] = 0
                  /\ pc'[p] \in RestPc \cup {"enter"} /\ Procedure'[p] = sysCall
  /\ \A p \in CPU \ (S \cup W) : /\ State'[p] = State[p] /\ pc'[p] = pc[p] /\ proc'[p] = proc[p]
                                 /\ Procedure'[p] = Procedure[p] /\ StartupApSignal'[p] = StartupApSignal[p]
  /\ State' \in [CPU -> States] /\ pc' \in [CPU -> ProcPc] /\ proc' \in [CPU -> CallIds \cup {NULL, Swap}]
  /\ num' = num /\ Procedure' \in [CPU -> CallIds \cup {NULL, Swap}] /\ ApLoopMode' \in [CPU -> Modes]
  /\ StartupApSignal' \in [CPU -> BOOLEAN] /\ ReadyToBootFlag' \in [CPU -> BOOLEAN]
  /\ HltInv'
  /\ \A p \in CPU : /\ ReadyToBootFlag'[p] <=> ran[p][Bye] = 1
                    /\ ReadyToBootFlag'[p] => pc'[p] \in {"clear", "finish", "leave", "back", "loop", "hlt"}

\* CheckAllAPs finds all of them finished.
LEMMA AllFinishedMoves ==
  ASSUME Strong, Normal, Checked, AllFinished, UNCHANGED <<LoopMode, BspNumber, ran>>
  PROVE  /\ Moved(CpuList, {}) /\ \A p \in CpuList : ran[p][sysCall] = 1
<1> USE DEF Strong
<1>1. /\ \A p \in CpuList : Unlocked(p)
      /\ FinishCount + Cardinality(Finished) = StartCount
      /\ Collect(Finished, {})
      /\ Assign(NextWaiting(Finished), sysCall) /\ Launch(NextWaiting(Finished), {})
  BY DEF AllFinished
<1>2. Finished = CpuList
  <2>1. IsFiniteSet(CPU)
    BY NumAssumption, FS_Interval DEF CPU
  <2>2. IsFiniteSet(CpuList) /\ Finished \in SUBSET CpuList
    BY <2>1, FS_Subset DEF Finished, Inv, Typing
  <2>3. Cardinality(CpuList) \in Nat /\ Cardinality(Finished) \in Nat
    BY <2>2, FS_Subset, FS_CardinalityType
  <2>4. Cardinality(Finished) = Cardinality(CpuList)
    BY <1>1, <2>3 DEF Inv, Typing, CheckedInv
  <2> QED BY <2>2, <2>4, FS_Subset
<1>3. NextWaiting(Finished) = {}
  BY <1>2 DEF NextWaiting
<1>4. UNCHANGED <<pc, proc, num, Procedure, ApLoopMode, StartupApSignal, ReadyToBootFlag>>
  BY <1>1, <1>3, NobodyWoken
<1>5. State' = [p \in CPU |-> IF p \in CpuList THEN "idle" ELSE State[p]] /\ CpuList' = CpuList \ CpuList
  BY <1>1, <1>2 DEF Collect
<1>6. \A p \in CpuList : p \in CPU /\ pc[p] \in RestPc /\ StartupApSignal[p] = FALSE /\ ran[p][sysCall] = 1
  <2> SUFFICES ASSUME NEW p \in CpuList
               PROVE  p \in CPU /\ pc[p] \in RestPc /\ StartupApSignal[p] = FALSE /\ ran[p][sysCall] = 1
    OBVIOUS
  <2>1. p \in AP /\ p \in CPU /\ sysCall \in CallIds /\ Outstanding(p, sysCall) /\ State[p] = "finished" /\ Unlocked(p)
    BY <1>1, <1>2, Listed DEF Finished
  <2> QED BY <2>1, FoundFinished DEF Shapes
<1>7. State' \in [CPU -> States]
  BY <1>5 DEF Inv, Typing, States
<1>8. HltInv'
  BY <1>4 DEF HltInv
<1>9. \A p \in CPU : /\ ReadyToBootFlag'[p] <=> ran[p][Bye] = 1
                     /\ ReadyToBootFlag'[p] => pc'[p] \in {"clear", "finish", "leave", "back", "loop", "hlt"}
  BY <1>4 DEF BootInv
<1> QED BY <1>4, <1>5, <1>6, <1>7, <1>8, <1>9 DEF Moved, Shapes

\* It finds some of them finished, and wakes the next one of a single-threaded call.
LEMMA AllNotReadyMoves ==
  ASSUME Strong, Normal, Checked, AllNotReady, UNCHANGED <<LoopMode, BspNumber, ran>>,
         bsp = "update" \/ (bsp = "poll" /\ call = sysCall)
  PROVE  \E S \in SUBSET CpuList : \E W \in SUBSET (CpuList \ S) :
           /\ Moved(S, W) /\ \A p \in S : ran[p][sysCall] = 1
           /\ param[sysCall].single =>
                \E a \in CPU : \A p \in CpuList \ (S \cup {a}) : p \notin W /\ WaitsTurn(p)
<1> USE DEF Strong
<1> DEFINE S == Finished
           W == NextWaiting(Finished)
           rest == CpuList \ S
<1>1. /\ \A p \in CpuList : Unlocked(p)
      /\ Collect(S, {}) /\ Assign(W, sysCall) /\ Launch(W, {})
  BY DEF AllNotReady
<1>2. S \in SUBSET CpuList /\ \A p \in S : State[p] = "finished"
  BY DEF Finished
<1>3. W = IF param[sysCall].single /\ S # {} /\ rest # {} THEN {Min(rest)} ELSE {}
  BY DEF NextWaiting
<1>4. rest # {} => Min(rest) \in rest
  <2>1. rest \in SUBSET Nat
    <3>1. CPU \subseteq Nat
      BY NumAssumption DEF CPU
    <3>2. rest \subseteq CpuList
      OBVIOUS
    <3> QED BY <3>1, <3>2 DEF Inv, Typing
  <2> QED BY <2>1, Minimum, Zenon DEF Min
<1>5. W \in SUBSET rest
  BY <1>3, <1>4
<1> HIDE DEF S, W
<1>6. /\ State' = [p \in CPU |-> IF p \in S THEN "idle" ELSE State[p]] /\ CpuList' = CpuList \ S
  BY <1>1 DEF Collect
<1>7. /\ sysCall \in CallIds /\ CpuList \in SUBSET AP /\ AP \subseteq CPU
      /\ \A p \in CpuList : Outstanding(p, sysCall) /\ ApFits(p) /\ Serves(p, sysCall) /\ State[p] \in Working
  BY Listed
<1>8. \A p \in S : p \in CPU /\ pc[p] \in RestPc /\ StartupApSignal[p] = FALSE /\ ran[p][sysCall] = 1
  <2> SUFFICES ASSUME NEW p \in S
               PROVE  p \in CPU /\ pc[p] \in RestPc /\ StartupApSignal[p] = FALSE /\ ran[p][sysCall] = 1
    OBVIOUS
  <2>1. p \in AP /\ p \in CPU /\ Outstanding(p, sysCall) /\ State[p] = "finished" /\ Unlocked(p)
    BY <1>1, <1>2, <1>7
  <2> QED BY <1>7, <2>1, FoundFinished DEF Shapes
<1>9. W # {} => \A p \in rest : WaitsTurn(p)
  <2> SUFFICES ASSUME W # {} PROVE \A p \in rest : WaitsTurn(p)
    OBVIOUS
  <2>1. param[sysCall].single /\ S # {}
    BY <1>3
  <2>2. PICK a \in CPU : \A p \in CpuList \ {a} : WaitsTurn(p)
    BY <2>1 DEF SingleInv
  <2>3. \A p \in S : p = a
    BY <1>2, <2>2 DEF WaitsTurn
  <2> QED BY <2>1, <2>2, <2>3
<1>10. param[sysCall].single =>
         \E a \in CPU : \A p \in CpuList \ (S \cup {a}) : p \notin W /\ WaitsTurn(p)
  <2> SUFFICES ASSUME param[sysCall].single
               PROVE  \E a \in CPU : \A p \in CpuList \ (S \cup {a}) : p \notin W /\ WaitsTurn(p)
    OBVIOUS
  <2>1. CASE W = {}
    BY <2>1 DEF SingleInv
  <2>2. CASE W # {}
    <3>1. W = {Min(rest)} /\ Min(rest) \in CPU
      BY <1>3, <1>5, <1>7, <2>2
    <3>2. \A p \in CpuList \ (S \cup {Min(rest)}) : p \notin W /\ WaitsTurn(p)
      BY <1>9, <2>2, <3>1
    <3> QED BY <3>1, <3>2
  <2> QED BY <2>1, <2>2
<1>11. State' \in [CPU -> States]
  BY <1>6 DEF Inv, Typing, States
<1>12. Moved(S, W)
  <2>1. CASE W = {}
    <3>1. Assign({}, sysCall) /\ Launch({}, {})
      BY <1>1, <2>1
    <3>2. UNCHANGED <<pc, proc, num, Procedure, ApLoopMode, StartupApSignal, ReadyToBootFlag>>
      BY <3>1, NobodyWoken
    <3>3. HltInv'
      BY <3>2 DEF HltInv
    <3>4. \A p \in CPU : /\ ReadyToBootFlag'[p] <=> ran[p][Bye] = 1
                         /\ ReadyToBootFlag'[p] => pc'[p] \in {"clear", "finish", "leave", "back", "loop", "hlt"}
      BY <3>2 DEF BootInv
    <3> QED BY <1>6, <1>8, <1>11, <2>1, <3>2, <3>3, <3>4 DEF Moved, Shapes
  <2>2. CASE W # {}
    <3>1. result[Bye] = "none"
      <4>1. sysCall # Bye
        BY <1>3, <2>2, Numbers DEF ParamInv
      <4> QED BY <4>1 DEF CallInv
    <3>2. /\ W \in SUBSET AP /\ \A p \in W : pc[p] \in RestPc /\ ~StartupApSignal[p]
          /\ sysCall \in CallIds \cup {Swap}
      BY <1>5, <1>7, <1>9, <2>2 DEF WaitsTurn
    <3>3. /\ \A p \in CPU \ W : /\ pc'[p] = pc[p] /\ proc'[p] = proc[p] /\ Procedure'[p] = Procedure[p]
                                /\ StartupApSignal'[p] = StartupApSignal[p]
          /\ \A p \in W : pc'[p] \in RestPc \cup {"enter"} /\ Procedure'[p] = sysCall
          /\ num' = num
          /\ pc' \in [CPU -> ProcPc] /\ proc' \in [CPU -> CallIds \cup {NULL, Swap}]
          /\ Procedure' \in [CPU -> CallIds \cup {NULL, Swap}] /\ ApLoopMode' \in [CPU -> Modes]
          /\ StartupApSignal' \in [CPU -> BOOLEAN] /\ ReadyToBootFlag' \in [CPU -> BOOLEAN]
          /\ HltInv' /\ \A p \in CPU : ~ReadyToBootFlag'[p] /\ ran'[p][Bye] = 0
      BY <1>1, <1>7, <3>1, <3>2, Woken
    <3>4. \A p \in W : p \in CPU /\ p \notin S /\ State'[p] = "ready" /\ State[p] = "ready" /\ ran[p][sysCall] = 0
      BY <1>5, <1>6, <1>7, <1>9, <2>2 DEF WaitsTurn, Serves
    <3>5. \A p \in S : State'[p] = "idle" /\ pc'[p] \in RestPc /\ StartupApSignal'[p] = FALSE
      <4>1. \A p \in S : p \in CPU \ W
        BY <1>8, <3>4
      <4> QED BY <1>6, <1>8, <3>3, <4>1
    <3>6. \A p \in CPU : /\ ReadyToBootFlag'[p] <=> ran[p][Bye] = 1
                         /\ ReadyToBootFlag'[p] => pc'[p] \in {"clear", "finish", "leave", "back", "loop", "hlt"}
      BY <3>3
    <3>7. \A p \in CPU \ (S \cup W) : /\ State'[p] = State[p] /\ pc'[p] = pc[p] /\ proc'[p] = proc[p]
                                      /\ Procedure'[p] = Procedure[p] /\ StartupApSignal'[p] = StartupApSignal[p]
      BY <1>6, <3>3
    <3>8. \A p \in W : /\ State'[p] = "ready" /\ State[p] = "ready" /\ ran[p][sysCall] = 0
                       /\ pc'[p] \in RestPc \cup {"enter"} /\ Procedure'[p] = sysCall
      BY <3>3, <3>4
    <3> QED BY <1>6, <1>11, <3>3, <3>5, <3>6, <3>7, <3>8 DEF Moved
  <2> QED BY <2>1, <2>2
<1> QED BY <1>2, <1>5, <1>8, <1>10, <1>12

\* The time is up: all that are listed but were not finished are reset.
LEMMA AllTimeoutMoves ==
  ASSUME Strong, Normal, Checked, AllTimeout, UNCHANGED <<LoopMode, BspNumber, ran>>,
         bsp = "update" \/ (bsp = "poll" /\ call = sysCall)
  PROVE  /\ Moved(CpuList, {})
         /\ sysCall # Bye /\ result' = [result EXCEPT ![sysCall] = "timeout"]
         /\ \E late \in SUBSET CpuList : /\ failed' = [failed EXCEPT ![sysCall] = late]
                                         /\ \A p \in CpuList \ late : ran[p][sysCall] = 1
<1> USE DEF Strong
<1>1. PICK seen \in SUBSET Finished :
        LET late == CpuList \ seen
        IN  /\ \A p \in CpuList : Unlocked(p)
            /\ sysCall \in due
            /\ Collect(seen, late)
            /\ Assign(NextWaiting(seen), sysCall) /\ Launch({}, late)
            /\ result' = [result EXCEPT ![sysCall] = "timeout"]
            /\ failed' = [failed EXCEPT ![sysCall] = late]
  BY DEF AllTimeout
<1> DEFINE late == CpuList \ seen
           W == NextWaiting(seen)
<1>2. /\ \A p \in CpuList : Unlocked(p)
      /\ Assign(W, sysCall) /\ Launch({}, late)
      /\ failed' = [failed EXCEPT ![sysCall] = late] /\ late \in SUBSET CpuList
      /\ seen \in SUBSET CpuList /\ \A p \in seen : State[p] = "finished"
      /\ seen \cup late = CpuList /\ Collect(seen, late)
  BY <1>1 DEF Finished
<1>3. W \in SUBSET CpuList
  <2>1. W = IF param[sysCall].single /\ seen # {} /\ late # {} THEN {Min(late)} ELSE {}
    BY DEF NextWaiting
  <2>2. late # {} => Min(late) \in late
    <3>1. late \in SUBSET Nat
      BY <1>2, NumAssumption DEF CPU, Inv, Typing
    <3> QED BY <3>1, Minimum, Zenon DEF Min
  <2> QED BY <1>2, <2>1, <2>2
<1> HIDE DEF late, W
<1>4. /\ State' = [p \in CPU |-> IF p \in CpuList THEN "idle" ELSE State[p]] /\ CpuList' = CpuList \ CpuList
  BY <1>2 DEF Collect
<1>5. /\ sysCall \in CallIds /\ CpuList \in SUBSET AP /\ AP \subseteq CPU
      /\ \A p \in CpuList : Outstanding(p, sysCall)
  BY Listed
<1>6. LoopMode = "hlt" /\ sysCall # Bye
  <2>1. sysCall \in due /\ sysCall \in Ids
    BY <1>1 DEF Shapes
  <2> QED BY <2>1, Numbers DEF ParamInv
<1>7. result[Bye] = "none"
  BY <1>6 DEF CallInv
<1>8. /\ \A p \in late : pc'[p] = "loop"
      /\ \A p \in CPU \ late : pc'[p] = pc[p] /\ proc'[p] = proc[p]
      /\ num' = num /\ pc' \in [CPU -> ProcPc] /\ proc' \in [CPU -> CallIds \cup {NULL, Swap}]
      /\ ReadyToBootFlag' \in [CPU -> BOOLEAN]
      /\ \A p \in CPU : ~ReadyToBootFlag'[p] /\ ran'[p][Bye] = 0
      /\ \A p \in CPU : pc'[p] \notin {"armed", "sleep", "poll"}
  <2>1. late \in SUBSET AP
    BY <1>2, <1>5
  <2> QED BY <1>2, <1>6, <1>7, <2>1, Reset
<1>9. \A p \in seen : pc[p] \in RestPc /\ ran[p][sysCall] = 1
  <2> SUFFICES ASSUME NEW p \in seen PROVE pc[p] \in RestPc /\ ran[p][sysCall] = 1
    OBVIOUS
  <2>1. p \in AP /\ p \in CPU /\ Outstanding(p, sysCall) /\ State[p] = "finished" /\ Unlocked(p)
    BY <1>2, <1>5
  <2> QED BY <1>5, <2>1, FoundFinished
<1>10. /\ Procedure' = [p \in CPU |-> IF p \in W THEN sysCall ELSE Procedure[p]]
       /\ ApLoopMode' = [p \in CPU |-> IF p \in W THEN LoopMode ELSE ApLoopMode[p]]
       /\ StartupApSignal' = [p \in CPU |-> StartupApSignal[p] \/ (p \in W /\ ApLoopMode[p] # "hlt")]
  BY <1>2 DEF Assign
<1>11. \A p \in CPU : ApLoopMode'[p] = "hlt" /\ StartupApSignal'[p] = FALSE /\ StartupApSignal[p] = FALSE
  BY <1>6, <1>10 DEF HltInv, Shapes
<1>12. \A p \in CPU \ CpuList : Procedure'[p] = Procedure[p]
  BY <1>3, <1>10
<1>13. /\ Procedure' \in [CPU -> CallIds \cup {NULL, Swap}] /\ ApLoopMode' \in [CPU -> Modes]
       /\ StartupApSignal' \in [CPU -> BOOLEAN] /\ State' \in [CPU -> States]
  <2>1. Procedure' \in [CPU -> CallIds \cup {NULL, Swap}]
    BY <1>5, <1>10 DEF Shapes
  <2>2. ApLoopMode' \in [CPU -> Modes] /\ StartupApSignal' \in [CPU -> BOOLEAN]
    BY <1>10, <1>11 DEF Modes
  <2>3. State' \in [CPU -> States]
    BY <1>4 DEF Inv, Typing, States
  <2> QED BY <2>1, <2>2, <2>3
<1>14. HltInv'
  BY <1>8, <1>11 DEF HltInv
<1>15. \A p \in CpuList : State'[p] = "idle" /\ pc'[p] \in RestPc /\ StartupApSignal'[p] = FALSE
  <2> SUFFICES ASSUME NEW p \in CpuList
               PROVE  State'[p] = "idle" /\ pc'[p] \in RestPc /\ StartupApSignal'[p] = FALSE
    OBVIOUS
  <2>1. p \in CPU /\ State'[p] = "idle" /\ StartupApSignal'[p] = FALSE
    BY <1>4, <1>5, <1>11
  <2>2. CASE p \in late
    BY <1>8, <2>1, <2>2 DEF RestPc, LoopPc
  <2>3. CASE p \notin late
    <3>1. p \in seen /\ p \in CPU \ late
      BY <1>2, <2>1, <2>3
    <3> QED BY <1>8, <1>9, <2>1, <3>1
  <2> QED BY <2>2, <2>3
<1>16. \A p \in CPU \ CpuList : /\ State'[p] = State[p] /\ pc'[p] = pc[p] /\ proc'[p] = proc[p]
                                /\ Procedure'[p] = Procedure[p] /\ StartupApSignal'[p] = StartupApSignal[p]
  BY <1>2, <1>4, <1>8, <1>11, <1>12
<1>17. Moved(CpuList, {})
  <2>1. /\ pc' \in [CPU -> ProcPc] /\ proc' \in [CPU -> CallIds \cup {NULL, Swap}] /\ num' = num
        /\ ReadyToBootFlag' \in [CPU -> BOOLEAN]
        /\ \A p \in CPU : /\ ReadyToBootFlag'[p] <=> ran[p][Bye] = 1
                          /\ ReadyToBootFlag'[p] => pc'[p] \in {"clear", "finish", "leave", "back", "loop", "hlt"}
    BY <1>8
  <2>2. CpuList' = CpuList \ CpuList
    BY <1>4
  <2>3. \A p \in CPU \ (CpuList \cup {}) :
          /\ State'[p] = State[p] /\ pc'[p] = pc[p] /\ proc'[p] = proc[p]
          /\ Procedure'[p] = Procedure[p] /\ StartupApSignal'[p] = StartupApSignal[p]
    BY <1>16
  <2>4. \A p \in {} : /\ State'[p] = "ready" /\ State[p] = "ready" /\ ran[p][sysCall] = 0
                      /\ pc'[p] \in RestPc \cup {"enter"} /\ Procedure'[p] = sysCall
    OBVIOUS
  <2> QED BY <1>13, <1>14, <1>15, <2>1, <2>2, <2>3, <2>4, Zenon DEF Moved
<1> QED BY <1>1, <1>2, <1>6, <1>9, <1>17

\* What CheckAllAPs does with the APs and with its call.
LEMMA CheckAllMoves ==
  ASSUME Strong, Normal, Checked, CheckAll, UNCHANGED <<LoopMode, BspNumber, ran>>,
         bsp = "update" \/ (bsp = "poll" /\ call = sysCall)
  PROVE  \E S \in SUBSET CpuList : \E W \in SUBSET (CpuList \ S) :
           /\ Moved(S, W)
           /\ \/ /\ AllNotReady /\ UNCHANGED <<result, failed>> /\ \A p \in S : ran[p][sysCall] = 1
                 /\ param[sysCall].single =>
                      \E a \in CPU : \A p \in CpuList \ (S \cup {a}) : p \notin W /\ WaitsTurn(p)
              \/ /\ S = CpuList /\ (AllFinished \/ AllTimeout)
                 /\ \E x \in {"success", "timeout"} : \E late \in SUBSET CpuList :
                      /\ result' = [result EXCEPT ![sysCall] = x] /\ (x = "timeout" => sysCall # Bye)
                      /\ (x = "success" => UNCHANGED failed /\ late = {})
                      /\ (x = "timeout" => failed' = [failed EXCEPT ![sysCall] = late])
                      /\ \A p \in CpuList \ late : ran[p][sysCall] = 1
<1>1. CASE AllNotReady
  <2>1. UNCHANGED <<result, failed>>
    BY <1>1 DEF AllNotReady
  <2>2. PICK S \in SUBSET CpuList : \E W \in SUBSET (CpuList \ S) :
           /\ Moved(S, W) /\ \A p \in S : ran[p][sysCall] = 1
           /\ param[sysCall].single =>
                \E a \in CPU : \A p \in CpuList \ (S \cup {a}) : p \notin W /\ WaitsTurn(p)
    BY <1>1, AllNotReadyMoves
  <2>3. PICK W \in SUBSET (CpuList \ S) :
           /\ Moved(S, W) /\ \A p \in S : ran[p][sysCall] = 1
           /\ param[sysCall].single =>
                \E a \in CPU : \A p \in CpuList \ (S \cup {a}) : p \notin W /\ WaitsTurn(p)
    BY <2>2
  <2> QED BY <1>1, <2>1, <2>3
<1>2. {} \in SUBSET (CpuList \ CpuList) /\ CpuList \in SUBSET CpuList /\ {} \in SUBSET CpuList
  OBVIOUS
<1>3. CASE AllFinished
  <2>1. result' = [result EXCEPT ![sysCall] = "success"] /\ UNCHANGED failed
    BY <1>3 DEF AllFinished
  <2>2. Moved(CpuList, {}) /\ \A p \in CpuList : ran[p][sysCall] = 1
    BY <1>3, AllFinishedMoves
  <2>3. \A p \in CpuList \ {} : ran[p][sysCall] = 1
    BY <2>2
  <2> QED BY <1>2, <1>3, <2>1, <2>2, <2>3
<1>4. CASE AllTimeout
  <2>1. /\ Moved(CpuList, {})
        /\ sysCall # Bye /\ result' = [result EXCEPT ![sysCall] = "timeout"]
        /\ \E late \in SUBSET CpuList : /\ failed' = [failed EXCEPT ![sysCall] = late]
                                        /\ \A p \in CpuList \ late : ran[p][sysCall] = 1
    BY <1>4, AllTimeoutMoves
  <2> QED BY <1>2, <1>4, <2>1
<1> QED BY <1>1, <1>3, <1>4 DEF CheckAll

\* CheckAllAPs, called by a StartupAllAPs that waits or by CheckAndUpdateAPsStatus.
LEMMA CheckAllStrong ==
  ASSUME Strong, Inv', Checked, CheckAll,
         \/ bsp = "update" /\ UNCHANGED <<bsp, call>>
         \/ /\ bsp = "poll" /\ call = sysCall
            /\ (AllNotReady /\ UNCHANGED <<bsp, call>>) \/ ((AllFinished \/ AllTimeout) /\ Return),
         UNCHANGED <<WaitEvent, sysCall, param, given, due, calls, ran, off, roleVars>>
  PROVE  Strong'
<1> USE DEF Strong
<1> DEFINE k == sysCall
<1>1. UNCHANGED <<LoopMode, BspNumber, Info, mBspSwitched, mNewProcessorNumber, AP>>
  BY DEF roleVars, AP
<1>2. /\ bsp \in {"update", "poll"} /\ bsp' \in {"update", "poll", "free", "booted"}
      /\ bsp' \in {"update", "poll"} => UNCHANGED <<bsp, call>>
      /\ bsp' \in {"free", "booted"} => call' = NULL /\ bsp = "poll" /\ call = k
      /\ bsp = "poll" => call = k /\ (bsp' = "booted" <=> bsp' # "poll" /\ k = Bye)
  BY DEF Return
<1>3. Normal /\ Normal'
  <2>1. ~Switching /\ ~Switching'
    BY <1>2 DEF Switching
  <2>2. ~mBspSwitched
    BY <1>2, <2>1 DEF TailInv
  <2> QED BY <1>1, <2>1, <2>2 DEF Normal
<1>4. /\ sysCall \in CallIds /\ Kind(sysCall) = "all" /\ CpuList \in SUBSET AP /\ AP \subseteq CPU
      /\ \A p \in CpuList : Outstanding(p, sysCall) /\ ApFits(p) /\ Serves(p, sysCall) /\ State[p] \in Working
      /\ \A p \in CPU \ CpuList : ~Outstanding(p, sysCall)
      /\ \A p \in CPU, j \in CallIds : Outstanding(p, j) /\ j # sysCall => Kind(j) # "all"
  BY <1>3, Listed
<1>5. result[k] = "pending" /\ k # NULL /\ CpuList \subseteq given[k]
  BY DEF Checked, CallInv
<1>6. PICK S \in SUBSET CpuList, W \in SUBSET CpuList :
           /\ W \subseteq CpuList \ S /\ Moved(S, W)
           /\ \/ /\ AllNotReady /\ UNCHANGED <<result, failed>> /\ \A p \in S : ran[p][sysCall] = 1
                 /\ param[sysCall].single =>
                      \E a \in CPU : \A p \in CpuList \ (S \cup {a}) : p \notin W /\ WaitsTurn(p)
              \/ /\ S = CpuList /\ (AllFinished \/ AllTimeout)
                 /\ \E x \in {"success", "timeout"} : \E late \in SUBSET CpuList :
                      /\ result' = [result EXCEPT ![sysCall] = x] /\ (x = "timeout" => sysCall # Bye)
                      /\ (x = "success" => UNCHANGED failed /\ late = {})
                      /\ (x = "timeout" => failed' = [failed EXCEPT ![sysCall] = late])
                      /\ \A p \in CpuList \ late : ran[p][sysCall] = 1
  <2>1. bsp = "update" \/ (bsp = "poll" /\ call = sysCall)
    BY <1>2
  <2>2. PICK S \in SUBSET CpuList : \E W \in SUBSET (CpuList \ S) :
           /\ Moved(S, W)
           /\ \/ /\ AllNotReady /\ UNCHANGED <<result, failed>> /\ \A p \in S : ran[p][sysCall] = 1
                 /\ param[sysCall].single =>
                      \E a \in CPU : \A p \in CpuList \ (S \cup {a}) : p \notin W /\ WaitsTurn(p)
              \/ /\ S = CpuList /\ (AllFinished \/ AllTimeout)
                 /\ \E x \in {"success", "timeout"} : \E late \in SUBSET CpuList :
                      /\ result' = [result EXCEPT ![sysCall] = x] /\ (x = "timeout" => sysCall # Bye)
                      /\ (x = "success" => UNCHANGED failed /\ late = {})
                      /\ (x = "timeout" => failed' = [failed EXCEPT ![sysCall] = late])
                      /\ \A p \in CpuList \ late : ran[p][sysCall] = 1
    BY <1>1, <1>3, <2>1, CheckAllMoves
  <2>3. \A W \in SUBSET (CpuList \ S) : W \in SUBSET CpuList /\ W \subseteq CpuList \ S
    OBVIOUS
  <2> QED BY <2>2, <2>3
<1>7. \/ /\ UNCHANGED <<result, failed>> /\ \A p \in S : ran[p][k] = 1
         /\ param[k].single =>
              \E a \in CPU : \A p \in CpuList \ (S \cup {a}) : p \notin W /\ WaitsTurn(p)
      \/ /\ S = CpuList
         /\ \E x \in {"success", "timeout"} : \E late \in SUBSET CpuList :
              /\ result' = [result EXCEPT ![k] = x] /\ (x = "timeout" => k # Bye)
              /\ (x = "success" => UNCHANGED failed /\ late = {})
              /\ (x = "timeout" => failed' = [failed EXCEPT ![k] = late])
              /\ \A p \in CpuList \ late : ran[p][k] = 1
  BY <1>6
<1>8. bsp' = "booted" => result'[k] = "success" /\ k = Bye
  <2>1. SUFFICES ASSUME bsp' = "booted" PROVE result'[k] = "success" /\ k = Bye
    OBVIOUS
  <2>2. k = Bye /\ (AllFinished \/ AllTimeout)
    BY <1>2, <2>1
  <2>3. ~AllNotReady
    BY <2>2 DEF AllNotReady, AllFinished, AllTimeout
  <2> QED BY <1>4, <1>6, <2>2, <2>3 DEF Shapes
<1> USE DEF Moved
<1>9. /\ \A j \in CallIds \ {k} : result'[j] = result[j] /\ failed'[j] = failed[j]
      /\ result' \in [CallIds -> Results] /\ failed' \in [CallIds -> SUBSET CPU]
      /\ result'[k] \in {"pending", "success", "timeout"}
      /\ result'[k] = "pending" \/ S = CpuList
      /\ \A j \in CallIds : Kind(j)' = Kind(j)
  <2>1. CpuList \in SUBSET CPU
    BY <1>4
  <2>2. CASE UNCHANGED <<result, failed>>
    BY <1>5, <2>2 DEF Shapes, Kind
  <2>3. CASE ~UNCHANGED <<result, failed>>
    <3>1. PICK x \in {"success", "timeout"}, late \in SUBSET CpuList :
              /\ result' = [result EXCEPT ![k] = x]
              /\ (x = "success" => UNCHANGED failed)
              /\ (x = "timeout" => failed' = [failed EXCEPT ![k] = late])
              /\ S = CpuList
      BY <1>7, <2>3
    <3>2. result' \in [CallIds -> Results] /\ \A j \in CallIds \ {k} : result'[j] = result[j]
      BY <3>1 DEF Shapes, Results
    <3>3. failed' \in [CallIds -> SUBSET CPU] /\ \A j \in CallIds \ {k} : failed'[j] = failed[j]
      BY <2>1, <3>1 DEF Shapes
    <3>4. result'[k] = x
      BY <1>4, <3>1 DEF Shapes
    <3> QED BY <3>1, <3>2, <3>3, <3>4 DEF Kind
  <2> QED BY <2>2, <2>3
<1>10. \A p \in CPU, j \in CallIds :
         Outstanding(p, j)' <=> Outstanding(p, j) /\ ~(j = k /\ p \in S)
  <2> SUFFICES ASSUME NEW p \in CPU, NEW j \in CallIds
               PROVE  Outstanding(p, j)' <=> Outstanding(p, j) /\ ~(j = k /\ p \in S)
    OBVIOUS
  <2>1. CASE j = k
    BY <1>4, <1>5, <1>6, <1>9, <2>1 DEF Outstanding
  <2>2. CASE j # k
    <3>1. Outstanding(p, j) => Kind(j) # "all"
      BY <1>4, <2>2
    <3>2. Outstanding(p, j)' => Kind(j) # "all"
      BY <1>9, <2>2 DEF Outstanding, CallInv
    <3> QED BY <1>9, <2>2, <3>1, <3>2 DEF Outstanding
  <2> QED BY <2>1, <2>2
<1>11. \A p \in S, j \in CallIds : p \in CPU /\ ~Outstanding(p, j)'
  <2>1. \A p \in S : p \in CPU /\ Outstanding(p, k)
    BY <1>4
  <2> QED BY <1>4, <1>10, <2>1 DEF CallInv
<1>12. Enabled' = Enabled
  <2>1. \A p \in CPU : State'[p] = "disabled" <=> State[p] = "disabled"
    <3>1. \A p \in S \cup W : State[p] # "disabled" /\ State'[p] # "disabled"
      BY <1>4, <1>6 DEF Working
    <3> QED BY <1>6, <3>1
  <2> QED BY <1>1, <1>4, <2>1 DEF Enabled
<1>13. Shapes'
  <2>1. bsp' \in Services
    BY <1>2 DEF Services
  <2> QED BY <1>1, <1>6, <1>9, <2>1 DEF Shapes
<1>14. ParamInv' /\ HltInv'
  <2>1. \A j \in due : result'[j] # "none"
    <3>1. \A j \in due : j \in CallIds /\ result[j] # "none"
      BY Numbers DEF ParamInv, Shapes
    <3> QED BY <1>9, <3>1
  <2>2. ParamInv'
    BY <1>1, <1>9, <2>1 DEF ParamInv
  <2> QED BY <1>6, <2>2
<1>15. CallInv'
  <2>1. \A j \in CallIds : result'[j] = "none" => given'[j] = {} /\ \A q \in CPU : ran'[q][j] = 0
    BY <1>9 DEF CallInv
  <2>2. \A j \in Ids : calls' < j => result'[j] = "none"
    BY <1>5, <1>9, Numbers DEF CallInv
  <2>3. result'[Bye] # "none" => (bsp' = "poll" /\ call' = Bye) \/ bsp' = "booted"
    <3>1. result'[Bye] # "none" => result[Bye] # "none"
      BY <1>5, <1>9, Numbers
    <3> QED BY <1>2, <3>1 DEF CallInv
  <2>4. /\ bsp' \in {"update", "start"} /\ call' # NULL => result'[call'] = "none"
        /\ call' # NULL => Kind(call)' # "switch" /\ (Kind(call)' = "this" => param'[call'].target # BspNumber')
    <3>1. call' # NULL => call' = call /\ bsp = bsp'
      BY <1>2
    <3>2. call # NULL /\ bsp = "update" => call # k /\ result[call] = "none" /\ call \in CallIds
      <4>1. call # NULL => call \in CallIds
        BY NumAssumption DEF Inv, Typing, Ids, CallIds
      <4> QED BY <1>5, <4>1 DEF CallInv
    <3>3. Kind(call)' = param[call'].kind
      BY DEF Kind
    <3>4. call # NULL => Kind(call) # "switch"
      BY <1>2 DEF CallInv
    <3> QED BY <1>1, <1>2, <1>9, <3>1, <3>2, <3>3, <3>4 DEF CallInv, Kind
  <2>5. \A j \in CallIds : result'[j] = "pending" =>
       \/ Kind(j)' = "all" /\ j = sysCall'
       \/ /\ Kind(j)' = "this"
          /\ \E q \in AP' : given'[j] = {q} /\ (WaitEvent'[q] = j \/ (bsp' \in {"poll", "spin"} /\ call' = j))
       \/ Kind(j)' = "switch" /\ given'[j] = {} /\ bsp' \in {"switch", "switched"} /\ call' = j
    <3> SUFFICES ASSUME NEW j \in CallIds, result'[j] = "pending"
                 PROVE  \/ Kind(j)' = "all" /\ j = sysCall'
                        \/ /\ Kind(j)' = "this"
                           /\ \E q \in AP' : given'[j] = {q} /\ WaitEvent'[q] = j
      OBVIOUS
    <3>1. result[j] = "pending"
      BY <1>5, <1>9
    <3>2. bsp \in {"poll", "spin"} /\ call = j => Kind(j) = "all" /\ j = sysCall
      BY <1>2, <1>4
    <3>3. \/ Kind(j) = "all" /\ j = sysCall
          \/ Kind(j) = "this" /\ \E q \in AP : given[j] = {q} /\ WaitEvent[q] = j
      BY <1>2, <3>1, <3>2 DEF CallInv
    <3> QED BY <1>1, <1>9, <3>3
  <2>6. \A q \in CPU : WaitEvent'[q] # NULL => result'[WaitEvent'[q]] = "pending" /\ given'[WaitEvent'[q]] = {q}
    <3> SUFFICES ASSUME NEW q \in CPU, WaitEvent[q] # NULL
                 PROVE  result'[WaitEvent[q]] = "pending" /\ given'[WaitEvent[q]] = {q}
      OBVIOUS
    <3>1. WaitEvent[q] \in CallIds /\ result[WaitEvent[q]] = "pending" /\ given[WaitEvent[q]] = {q}
      BY Numbers DEF CallInv, Inv, Typing
    <3>2. WaitEvent[q] # k
      BY <1>4 DEF Inv, KindInv
    <3> QED BY <1>9, <3>1, <3>2
  <2>7. bsp' = "poll" => Kind(call)' = "all"
    BY <1>2, <1>4, <1>9
  <2>8. CpuList' \subseteq given'[sysCall']
    BY <1>5, <1>6
  <2>9. \A q \in CPU, i, j \in CallIds : Outstanding(q, i)' /\ Outstanding(q, j)' => i = j
    BY <1>10 DEF CallInv
  <2> QED BY <2>1, <2>2, <2>3, <2>4, <2>5, <2>6, <2>7, <2>8, <2>9 DEF CallInv
<1>16. ApInv'
  <2>1. ASSUME NEW q \in AP PROVE ApFits(q)'
    <3>1. ApFits(q) /\ q \in CPU
      BY <1>3 DEF ApInv, AP
    <3>2. CASE q \in S
      <4>1. num'[q] = q /\ State'[q] = "idle" /\ pc'[q] \in RestPc /\ StartupApSignal'[q] = FALSE
        BY <1>6, <3>1, <3>2 DEF ApFits
      <4>2. State'[q] \notin Working
        BY <4>1 DEF Working
      <4> QED BY <1>11, <3>2, <4>1, <4>2 DEF ApFits
    <3>3. CASE q \in W
      <4>1. /\ q \in CpuList /\ q \notin S /\ State'[q] = "ready" /\ ran[q][k] = 0
            /\ pc'[q] \in RestPc \cup {"enter"} /\ Procedure'[q] = k
        BY <1>6, <3>3
      <4>2. \A j \in CallIds : Outstanding(q, j)' <=> j = k
        BY <1>4, <1>10, <3>1, <4>1 DEF CallInv
      <4>3. Serves(q, k)'
        BY <4>1 DEF Serves
      <4>4. num'[q] = q /\ State'[q] \in Working
        BY <1>6, <3>1, <4>1 DEF ApFits, Working
      <4> QED BY <1>4, <4>2, <4>3, <4>4 DEF ApFits
    <3>4. CASE q \notin S \cup W
      <4>1. /\ State'[q] = State[q] /\ pc'[q] = pc[q] /\ proc'[q] = proc[q] /\ num'[q] = num[q]
            /\ Procedure'[q] = Procedure[q] /\ StartupApSignal'[q] = StartupApSignal[q] /\ ran'[q] = ran[q]
        BY <1>6, <3>1, <3>4
      <4>2. \A j \in CallIds : Outstanding(q, j)' <=> Outstanding(q, j)
        BY <1>10, <3>1, <3>4
      <4>3. bsp # "spin"
        BY <1>2
      <4>4. \A j \in CallIds : Serves(q, j) => Serves(q, j)'
        BY <4>1, <4>3 DEF Serves
      <4> QED BY <3>1, <4>1, <4>2, <4>4 DEF ApFits
    <3> QED BY <3>2, <3>3, <3>4
  <2>2. pc'[BspNumber] = "bsp" /\ num'[BspNumber] = BspStack
    <3>1. BspNumber \in CPU \ (S \cup W)
      BY <1>4, <1>6 DEF AP, Inv, Typing
    <3> QED BY <1>3, <1>6, <3>1 DEF ApInv
  <2> QED BY <1>1, <2>1, <2>2 DEF ApInv
<1>17. TailInv' /\ SwitchInv'
  BY <1>3 DEF TailInv, SwitchInv, Normal
<1>18. OffInv'
  <2>1. \A p \in off : p \in CPU \ (S \cup W)
    BY <1>4, <1>6 DEF OffInv, Working, Shapes
  <2>2. State[BspNumber] # "finished" /\ BspNumber \in CPU \ (S \cup W)
    BY <1>3, <1>4, <1>6 DEF OffInv, Normal, AP, Inv, Typing
  <2> QED BY <2>2, <1>1, <1>6, <2>1 DEF OffInv
<1>19. SingleInv'
  <2> SUFFICES ASSUME Checked', param[k].single
               PROVE  \E a \in CPU : \A p \in CpuList' \ {a} : WaitsTurn(p)'
    BY DEF SingleInv
  <2>1. CASE S = CpuList
    <3>1. CpuList' = {}
      BY <1>6, <2>1
    <3> QED BY <3>1 DEF Inv, Typing
  <2>2. CASE S # CpuList
    <3>1. PICK a \in CPU : \A p \in CpuList \ (S \cup {a}) : p \notin W /\ WaitsTurn(p)
      BY <1>7, <2>2
    <3>2. \A p \in CpuList' \ {a} : WaitsTurn(p)'
      <4> SUFFICES ASSUME NEW p \in CpuList' \ {a} PROVE WaitsTurn(p)'
        OBVIOUS
      <4>1. p \in CpuList \ (S \cup {a})
        BY <1>6
      <4>2. p \in CPU \ (S \cup W) /\ WaitsTurn(p)
        BY <1>4, <3>1, <4>1
      <4> QED BY <1>6, <4>2 DEF WaitsTurn
    <3> QED BY <3>2
  <2> QED BY <2>1, <2>2
<1>20. ReportInv'
  <2>1. \A p \in given[k] \ CpuList : ran[p][k] = 1
    BY DEF ReportInv
  <2>2. \A j \in CallIds : result'[j] \in {"success", "timeout"} =>
          \A q \in given'[j] \ failed'[j] : ran'[q][j] = 1
    <3> SUFFICES ASSUME NEW j \in CallIds, result'[j] \in {"success", "timeout"}, NEW q \in given[j] \ failed'[j]
                 PROVE  ran[q][j] = 1
      OBVIOUS
    <3>1. CASE j = k
      <4>1. PICK x \in {"success", "timeout"}, late \in SUBSET CpuList :
              /\ (x = "success" => UNCHANGED failed /\ late = {})
              /\ (x = "timeout" => failed' = [failed EXCEPT ![k] = late])
              /\ \A p \in CpuList \ late : ran[p][k] = 1
        BY <1>5, <1>7, <3>1
      <4>2. late = {} \/ late = failed'[k]
        BY <1>4, <4>1 DEF Shapes
      <4> QED BY <2>1, <3>1, <4>1, <4>2
    <3>2. CASE j # k
      BY <1>9, <3>2 DEF ReportInv
    <3> QED BY <3>1, <3>2
  <2>3. \A p \in given'[sysCall'] \ CpuList' : Checked' => ran'[p][sysCall'] = 1
    <3>1. Checked' => result'[k] = "pending"
      BY DEF Checked
    <3>2. \A p \in S : Checked' => ran[p][k] = 1
      <4>1. CASE UNCHANGED <<result, failed>> /\ \A p \in S : ran[p][k] = 1
        BY <4>1
      <4>2. CASE \E x \in {"success", "timeout"} : result' = [result EXCEPT ![k] = x]
        BY <1>4, <3>1, <4>2 DEF Shapes
      <4> QED BY <1>7, <4>1, <4>2
    <3> QED BY <1>6, <2>1, <3>2
  <2>4. \A j \in CallIds : result'[j] # "timeout" => failed'[j] = {}
    <3>1. CASE UNCHANGED <<result, failed>>
      BY <3>1 DEF ReportInv
    <3>2. CASE ~UNCHANGED <<result, failed>>
      <4>1. PICK x \in {"success", "timeout"} :
              /\ result' = [result EXCEPT ![k] = x]
              /\ (x = "success" => UNCHANGED failed)
        BY <1>7, <3>2
      <4>2. result'[k] = x
        BY <1>4, <4>1 DEF Shapes
      <4> QED BY <1>5, <1>9, <4>1, <4>2 DEF ReportInv
    <3> QED BY <3>1, <3>2
  <2> QED BY <2>2, <2>3, <2>4 DEF ReportInv
<1>21. BootInv'
  <2>1. \A p \in CPU : /\ ReadyToBootFlag'[p] <=> ran'[p][Bye] = 1
                       /\ ReadyToBootFlag'[p] => pc'[p] \in {"clear", "finish", "leave", "back", "loop", "hlt"}
    BY <1>6
  <2>2. ~mBspSwitched'
    BY <1>3 DEF Normal
  <2>3. call' = Bye => bsp' \in {"update", "poll"} /\ bsp' = bsp /\ call = Bye
    BY <1>2, Numbers
  <2>4. call' = Bye /\ bsp' \in {"update", "start"} => \A p \in AP' : State'[p] \in {"idle", "disabled"}
    <3> SUFFICES ASSUME call = Bye, bsp = "update" PROVE \A p \in AP : State'[p] \in {"idle", "disabled"}
      BY <1>1, <2>3
    <3>1. \A p \in AP : State[p] \in {"idle", "disabled"}
      BY DEF BootInv
    <3>2. \A p \in AP : p \notin CpuList
      BY <1>4, <3>1 DEF Working
    <3> QED BY <1>4, <1>6, <3>1, <3>2
  <2>5. call' = Bye /\ bsp' = "poll" => given'[Bye] = Enabled'
    BY <1>12, <2>3 DEF BootInv
  <2>6. bsp' = "booted" => result'[Bye] = "success" /\ given'[Bye] = Enabled'
    BY <1>2, <1>8, <1>12 DEF BootInv
  <2> QED BY <2>1, <2>2, <2>3, <2>4, <2>5, <2>6 DEF BootInv
<1> QED BY <1>13, <1>14, <1>15, <1>16, <1>17, <1>18, <1>19, <1>20, <1>21

\* CheckAllAPs as CheckAndUpdateAPsStatus calls it.
LEMMA UpdateAllStrong ==
  ASSUME Strong, Inv', UpdateAll
  PROVE  Strong'
<1>1. CASE sysEvent = NULL
  BY <1>1, UpdateStepsStrong
<1>2. CASE sysEvent # NULL
  <2>1. Checked
    BY <1>2 DEF Strong, Inv, KindInv
  <2>2. CheckAll
    BY <1>2 DEF UpdateAll, CheckAll
  <2>3. bsp = "update" /\ UNCHANGED <<bsp, call>>
    BY DEF UpdateAll
  <2>4. UNCHANGED <<WaitEvent, sysCall, param, given, due, calls, ran, off, roleVars>>
    BY <1>2 DEF UpdateAll
  <2> QED BY <2>1, <2>2, <2>3, <2>4, CheckAllStrong
<1> QED BY <1>1, <1>2

\* CheckAllAPs as a StartupAllAPs that waits calls it.
LEMMA PollAllStrong ==
  ASSUME Strong, Inv', PollAll
  PROVE  Strong'
<1>1. bsp = "poll" /\ call = sysCall /\ Checked
  BY DEF Strong, Inv, BspInv, PollAll, Kind
<1>2. CheckAll
  BY DEF PollAll, CheckAll
<1>3. (AllNotReady /\ UNCHANGED <<bsp, call>>) \/ ((AllFinished \/ AllTimeout) /\ Return)
  BY DEF PollAll
<1>4. UNCHANGED <<WaitEvent, sysCall, param, given, due, calls, ran, off, roleVars>>
  BY DEF PollAll
<1> QED BY <1>1, <1>2, <1>3, <1>4, CheckAllStrong

\* The BSP spins for a CpuDataLock that nobody will release.
LEMMA OrphanStrong ==
  ASSUME Strong, Inv', NEW p \in CPU, ResetOrphansLock(p)
  PROVE  Strong'
<1> USE DEF Strong
<1>1. /\ p \in ToReset /\ ~Unlocked(p) /\ Launch({}, {p}) /\ bsp' = "spin"
      /\ UNCHANGED <<State, Procedure, WaitEvent, ApLoopMode, StartupApSignal, CpuList, sysEvent, sysCall, call,
                     param, given, result, due, failed, calls, ran, off, LoopMode, BspNumber, Info, mBspSwitched,
                     mNewProcessorNumber, AP>>
  BY DEF ResetOrphansLock, blockVars, sysVars, callVars, roleVars, AP
<1>2. bsp \in {"poll", "update"} /\ (bsp = "poll" => call \in due) /\ due # {}
  BY <1>1 DEF ToReset
<1>3. Normal /\ Normal'
  <2>1. ~Switching /\ ~Switching'
    BY <1>1, <1>2 DEF Switching
  <2>2. ~mBspSwitched
    BY <1>2, <2>1 DEF TailInv
  <2> QED BY <1>1, <2>1, <2>2 DEF Normal
<1>4. LoopMode = "hlt" /\ result[Bye] = "none"
  <2>1. \A k \in due : k \in CallIds /\ k # Bye /\ LoopMode = "hlt"
    BY Numbers DEF ParamInv, Shapes
  <2> QED BY <1>2, <2>1 DEF CallInv
<1>5. p \in AP /\ ApFits(p) /\ pc[p] \in HeldPc
  <2>1. PICK c \in CPU : pc[c] \in HeldPc /\ p = (IF pc[c] = "leave" THEN Slot(c) ELSE num[c])
    BY <1>1 DEF Unlocked
  <2>2. c \in AP
    BY <1>3, <2>1 DEF ApInv, AP, HeldPc
  <2>3. ApFits(c) /\ num[c] = c
    BY <1>3, <2>2 DEF ApInv, ApFits
  <2> QED BY <2>1, <2>2, <2>3 DEF Slot
<1>6. State[p] \in {"busy", "finished"}
  <2>1. State[p] \in Working /\ \E k \in CallIds : Outstanding(p, k) /\ Serves(p, k)
    BY <1>5 DEF ApFits, HeldPc, RestPc, LoopPc
  <2> QED BY <1>5, <2>1 DEF Serves, Working, HeldPc, RestPc, LoopPc
<1>7. call # Bye
  <2>1. bsp = "update" => call # Bye
    BY <1>5, <1>6 DEF BootInv
  <2>2. bsp = "poll" => call # Bye
    BY <1>2, Numbers DEF Shapes
  <2> QED BY <1>2, <2>1, <2>2
<1> DEFINE late == {p}
<1>8. late \in SUBSET AP /\ Launch({}, late)
  BY <1>1, <1>5
<1> HIDE DEF late
<1>9. /\ \A q \in late : pc'[q] = "loop"
      /\ \A q \in CPU \ late : pc'[q] = pc[q] /\ proc'[q] = proc[q]
      /\ num' = num /\ pc' \in [CPU -> ProcPc] /\ proc' \in [CPU -> CallIds \cup {NULL, Swap}]
      /\ ReadyToBootFlag' \in [CPU -> BOOLEAN]
      /\ \A q \in CPU : ~ReadyToBootFlag'[q] /\ ran'[q][Bye] = 0
      /\ \A q \in CPU : pc'[q] \notin {"armed", "sleep", "poll"}
  BY <1>1, <1>3, <1>4, <1>8, Reset
<1>10. pc'[p] = "loop" /\ \A q \in CPU \ {p} : pc'[q] = pc[q] /\ proc'[q] = proc[q]
  BY <1>9 DEF late
<1>11. \A q \in CPU, k \in CallIds : Outstanding(q, k)' <=> Outstanding(q, k)
  BY <1>1 DEF Outstanding, Kind
<1>12. Shapes'
  BY <1>1, <1>9 DEF Shapes, Services
<1>13. ParamInv' /\ HltInv'
  BY <1>1, <1>9 DEF ParamInv, HltInv, Kind
<1>14. CallInv'
  <2>1. call' # NULL => Kind(call)' # "switch"
    BY <1>1, <1>2 DEF CallInv, Kind
  <2>2. \A k \in CallIds : result'[k] = "pending" =>
       \/ Kind(k)' = "all" /\ k = sysCall'
       \/ /\ Kind(k)' = "this"
          /\ \E q \in AP' : given'[k] = {q} /\ (WaitEvent'[q] = k \/ (bsp' \in {"poll", "spin"} /\ call' = k))
       \/ Kind(k)' = "switch" /\ given'[k] = {} /\ bsp' \in {"switch", "switched"} /\ call' = k
    BY <1>1, <1>2 DEF CallInv, Kind
  <2>3. \A q \in CPU, j, k \in CallIds : Outstanding(q, j)' /\ Outstanding(q, k)' => j = k
    BY <1>11 DEF CallInv
  <2>4. Checked' => CpuList' \subseteq given'[sysCall']
    BY <1>1 DEF CallInv, Checked
  <2>5. call' # NULL /\ Kind(call)' = "this" => param'[call'].target # BspNumber'
    BY <1>1 DEF CallInv, Kind
  <2>6. result'[Bye] = "none" /\ bsp' \notin {"update", "start", "poll"}
    BY <1>1, <1>4
  <2> QED BY <1>1, <2>1, <2>2, <2>3, <2>4, <2>5, <2>6 DEF CallInv
<1>15. ApInv'
  <2>1. ASSUME NEW q \in AP PROVE ApFits(q)'
    <3>1. ApFits(q) /\ q \in CPU
      BY <1>3 DEF ApInv, AP
    <3>2. \A k \in CallIds : Outstanding(q, k)' <=> Outstanding(q, k)
      BY <1>11, <3>1
    <3>3. CASE q = p
      <4>1. \A k \in CallIds : Serves(p, k) => Serves(p, k)'
        BY <1>1, <1>4, <1>6, <1>10 DEF Serves, RestPc, LoopPc
      <4>2. State'[p] \in Working
        BY <1>1, <1>6 DEF Working
      <4>3. num'[p] = p
        BY <1>9, <3>1, <3>3 DEF ApFits
      <4>4. State[p] \in Working
        BY <1>6 DEF Working
      <4> QED BY <3>1, <3>2, <3>3, <4>1, <4>2, <4>3, <4>4 DEF ApFits
    <3>4. CASE q # p
      <4>1. pc'[q] = pc[q] /\ proc'[q] = proc[q]
        BY <1>10, <3>1, <3>4
      <4>2. \A k \in CallIds : Serves(q, k) => Serves(q, k)'
        BY <1>1, <4>1 DEF Serves
      <4> QED BY <1>1, <1>9, <3>1, <3>2, <4>1, <4>2 DEF ApFits
    <3> QED BY <3>3, <3>4
  <2>2. pc'[BspNumber] = "bsp" /\ num'[BspNumber] = BspStack
    BY <1>3, <1>5, <1>9, <1>10 DEF ApInv, AP, Inv, Typing
  <2> QED BY <1>1, <2>1, <2>2 DEF ApInv
<1>16. TailInv' /\ SwitchInv'
  BY <1>3 DEF TailInv, SwitchInv, Normal
<1>17. OffInv' /\ ReportInv'
  <2>1. State[BspNumber] # "finished"
    BY <1>3 DEF OffInv, Normal
  <2> QED BY <1>1, <2>1 DEF OffInv, ReportInv, Checked
<1>18. SingleInv'
  <2>1. \A q \in CPU : WaitsTurn(q) => WaitsTurn(q)'
    <3> SUFFICES ASSUME NEW q \in CPU, WaitsTurn(q) PROVE WaitsTurn(q)'
      OBVIOUS
    <3>1. q # p
      BY <1>6 DEF WaitsTurn
    <3> QED BY <1>1, <1>10, <3>1 DEF WaitsTurn
  <2> QED BY <1>1, <2>1 DEF SingleInv, Checked, Inv, Typing
<1>19. BootInv'
  BY <1>1, <1>7, <1>9 DEF BootInv
<1> QED BY <1>12, <1>13, <1>14, <1>15, <1>16, <1>17, <1>18, <1>19

-----------------------------------------------------------------------------
(* The change of the BSP.                                                  *)

\* SwitchBSP up to AsmExchangeRole.
LEMMA SwitchStrong ==
  ASSUME Strong, Inv', Careful, NEW r \in SwitchParams, SwitchBSP(r)
  PROVE  Strong'
<1> USE DEF Strong
<1>0. PICK c : c = calls + 1
  OBVIOUS
<1> DEFINE n == r.target
           o == BspNumber
           woken == {n}
<1>1. /\ bsp = "free" /\ calls < MaxCalls /\ n # BspNumber /\ State[n] = "idle"
      /\ ~Pending /\ ~mBspSwitched /\ \A p \in AP : pc[p] \in LoopPc
      /\ calls' = calls + 1 /\ call' = c /\ param' = [param EXCEPT ![c] = r]
      /\ result' = [result EXCEPT ![c] = "pending"]
      /\ Info' = [k \in {"bsp", "ap"} |-> [Info[k] EXCEPT !.State = "idle"]]
      /\ Assign(woken, Swap) /\ Launch(woken, {}) /\ bsp' = "switch"
      /\ UNCHANGED <<State, WaitEvent, CpuList, sysEvent, sysCall, LoopMode, BspNumber, mBspSwitched,
                     mNewProcessorNumber, given, due, failed, ran, off, AP>>
  BY <1>0 DEF SwitchBSP, sysVars, AP
<1>2. /\ r.timeout = FALSE /\ r.single = FALSE /\ r.event = FALSE /\ r.kind = "switch" /\ n \in CPU
  BY DEF SwitchParams
<1>3. n \in AP /\ n \in CPU /\ BspNumber \in CPU /\ AP \subseteq CPU
  BY <1>1, <1>2 DEF AP, Inv, Typing
<1>4. c \in Ids /\ c # Bye /\ c \in CallIds /\ c # NULL
  BY <1>0, <1>1, Numbers, NumAssumption DEF Ids, Inv, Typing
<1>5. result[c] = "none" /\ given[c] = {}
  BY <1>0, <1>4, NumAssumption DEF CallInv, Inv, Typing
<1>6. Normal /\ Switching' /\ NoneWaits /\ NoneWaits' /\ result[Bye] = "none"
  BY <1>1 DEF Normal, Switching, NoneWaits, Pending, CallInv
<1>7. ~Checked /\ \A p \in CPU, k \in CallIds : ~Outstanding(p, k)
  BY <1>1, <1>6, NothingLeft
<1>8. \A p \in AP : Quiet(p) /\ num[p] = p /\ pc[p] \in RestPc /\ ~StartupApSignal[p]
  <2> SUFFICES ASSUME NEW p \in AP PROVE Quiet(p) /\ num[p] = p /\ pc[p] \in RestPc /\ ~StartupApSignal[p]
    OBVIOUS
  <2>1. ApFits(p) /\ p \in CPU /\ State[p] \in States
    BY <1>3, <1>6 DEF ApInv, Inv, Typing
  <2>2. State[p] \notin Working
    BY <1>7, <2>1 DEF ApFits
  <2> QED BY <1>1, <2>1, <2>2 DEF ApFits, Quiet, States, Working
<1>9. woken \in SUBSET AP /\ Swap \in CallIds \cup {Swap} /\ \A p \in woken : pc[p] \in RestPc /\ ~StartupApSignal[p]
  BY <1>3, <1>8
<1>10. /\ \A k \in CallIds \ {c} : param'[k] = param[k] /\ result'[k] = result[k]
       /\ param'[c] = r /\ result'[c] = "pending"
       /\ \A k \in CallIds \ {c} : Kind(k)' = Kind(k)
       /\ Kind(c)' = "switch"
  <2>1. \A k \in CallIds \ {c} : param'[k] = param[k] /\ result'[k] = result[k]
    BY <1>1 DEF Inv, Typing, Shapes, CallIds
  <2>2. param'[c] = r /\ result'[c] = "pending"
    BY <1>1, <1>4 DEF Inv, Typing, Shapes, CallIds
  <2> QED BY <1>2, <2>1, <2>2 DEF Kind
<1>11. pc'[n] = "enter" \/ (pc'[n] \in LoopPc /\ StartupApSignal'[n])
  <2>1. ApLoopMode[n] = "hlt" => pc'[n] = "enter"
    BY <1>1, <1>3 DEF Launch
  <2>2. ApLoopMode[n] # "hlt" => pc'[n] \in {pc[n], "poll"} /\ StartupApSignal'[n]
    BY <1>1, <1>3 DEF Launch, Assign
  <2> QED BY <1>1, <1>3, <2>1, <2>2 DEF LoopPc
<1> HIDE DEF woken
<1>12. /\ \A p \in CPU \ woken : /\ pc'[p] = pc[p] /\ proc'[p] = proc[p] /\ Procedure'[p] = Procedure[p]
                                 /\ StartupApSignal'[p] = StartupApSignal[p]
       /\ \A p \in woken : pc'[p] \in RestPc \cup {"enter"} /\ Procedure'[p] = Swap
       /\ num' = num
       /\ pc' \in [CPU -> ProcPc] /\ proc' \in [CPU -> CallIds \cup {NULL, Swap}]
       /\ Procedure' \in [CPU -> CallIds \cup {NULL, Swap}] /\ ApLoopMode' \in [CPU -> Modes]
       /\ StartupApSignal' \in [CPU -> BOOLEAN] /\ ReadyToBootFlag' \in [CPU -> BOOLEAN]
       /\ HltInv' /\ \A p \in CPU : ~ReadyToBootFlag'[p] /\ ran'[p][Bye] = 0
  BY <1>1, <1>6, <1>9, Woken
<1>13. /\ \A p \in CPU \ {n} : /\ pc'[p] = pc[p] /\ proc'[p] = proc[p] /\ StartupApSignal'[p] = StartupApSignal[p]
       /\ Procedure'[n] = Swap
  BY <1>12 DEF woken
<1> HIDE DEF n
<1>14. Shapes'
  <2>1. bsp' \in Services /\ result' \in [CallIds -> Results]
    BY <1>1, <1>4 DEF Services, Shapes, Results
  <2>2. Info' \in [{"bsp", "ap"} -> [State : {"idle", "stored", "loaded"}, StackPointer : 0..BspStack]]
    BY <1>1 DEF Shapes
  <2>3. num' \in [CPU -> 0..BspStack]
    BY <1>12 DEF Shapes
  <2> QED BY <1>1, <1>12, <2>1, <2>2, <2>3 DEF Shapes
<1>15. ParamInv'
  <2>1. \A k \in due : k \in CallIds /\ k # c
    BY <1>5, Numbers DEF ParamInv, Shapes
  <2>2. \A k \in CallIds :
          /\ param'[k].timeout \in BOOLEAN /\ (param'[k].timeout => k # Bye /\ LoopMode' = "hlt")
          /\ param'[k].single \in BOOLEAN /\ (param'[k].single => k # Bye /\ Kind(k)' = "all")
    BY <1>1, <1>2, <1>10 DEF ParamInv
  <2>3. ~param'[Bye].event
    BY <1>4, <1>10, Numbers DEF ParamInv
  <2>4. \A k \in due' : param'[k].timeout /\ result'[k] # "none"
    BY <1>1, <1>10, <2>1 DEF ParamInv
  <2> QED BY <2>2, <2>3, <2>4 DEF ParamInv
<1>16. ~Checked'
  <2>1. sysCall # NULL => sysCall \in CallIds /\ sysCall # c
    BY <1>0, <1>1, NumAssumption DEF Inv, Typing, KindInv, CallIds
  <2> QED BY <1>1, <1>7, <1>10, <2>1 DEF Checked
<1>17. \A k \in CallIds : result'[k] = "pending" => k = c
  <2> SUFFICES ASSUME NEW k \in CallIds, result[k] = "pending" PROVE FALSE
    BY <1>10
  <2>1. \/ Kind(k) = "all" /\ k = sysCall
        \/ \E p \in AP : given[k] = {p} /\ WaitEvent[p] = k
    BY <1>1 DEF CallInv
  <2>2. k # NULL
    BY Numbers
  <2> QED BY <1>3, <1>6, <1>7, <2>1, <2>2 DEF Checked, NoneWaits
<1>18. \A p \in CPU, k \in CallIds : ~Outstanding(p, k)'
  BY <1>1, <1>5, <1>17 DEF Outstanding
<1>19. CallInv'
  <2>1. \A k \in CallIds : result'[k] = "none" => given'[k] = {} /\ \A p \in CPU : ran'[p][k] = 0
    BY <1>1, <1>10 DEF CallInv
  <2>2. \A k \in Ids : calls' < k => result'[k] = "none"
    <3>1. \A k \in Ids : calls' < k => k # c /\ calls < k
      BY <1>0, <1>1, NumAssumption DEF Ids, Inv, Typing
    <3> QED BY <1>10, <3>1, Numbers DEF CallInv
  <2>3. result'[Bye] = "none"
    BY <1>4, <1>6, <1>10, Numbers
  <2>4. /\ bsp' \notin {"update", "start", "poll"} /\ bsp' = "switch"
        /\ Kind(call)' = "switch"
    BY <1>1, <1>10
  <2>5. \A k \in CallIds : result'[k] = "pending" =>
       \/ Kind(k)' = "all" /\ k = sysCall'
       \/ /\ Kind(k)' = "this"
          /\ \E p \in AP' : given'[k] = {p} /\ (WaitEvent'[p] = k \/ (bsp' \in {"poll", "spin"} /\ call' = k))
       \/ Kind(k)' = "switch" /\ given'[k] = {} /\ bsp' \in {"switch", "switched"} /\ call' = k
    BY <1>1, <1>5, <1>10, <1>17
  <2>6. \A p \in CPU : WaitEvent'[p] = NULL
    BY <1>6 DEF NoneWaits
  <2> QED BY <1>16, <1>18, <2>1, <2>2, <2>3, <2>4, <2>5, <2>6 DEF CallInv
<1>20. ApInv' /\ TailInv'
  BY <1>6 DEF ApInv, TailInv, Normal
<1>21. SwitchInv'
  <2>1. \A p \in AP \ {n} : Quiet(p)'
    BY <1>1, <1>3, <1>8, <1>12, <1>13 DEF Quiet
  <2>2. Exchanges(BspNumber, n)'
    <3>1. pc'[o] = "bsp" /\ num'[o] = BspStack /\ num'[n] = n
      BY <1>1, <1>3, <1>6, <1>8, <1>12, <1>13 DEF ApInv
    <3>2. Info'["bsp"].State = "idle" /\ Info'["ap"].State = "idle"
      BY <1>1 DEF Shapes
    <3>3. "bsp" \notin LoopPc /\ "load" \notin LoopPc /\ "unload" \notin LoopPc /\ "enter" \notin LoopPc
      BY DEF LoopPc
    <3>4. mBspSwitched' = FALSE /\ State'[n] = "idle"
      BY <1>1 DEF Shapes
    <3>6. State'[o] # "finished"
      <4>1. State' = State /\ ~Switching
        BY <1>1, <1>6 DEF Normal
      <4> QED BY <4>1 DEF OffInv
    <3>7. pc'[o] \notin {"leave", "back"} \cup LoopPc
      BY <3>1, <3>3
    <3>5. pc'[n] \notin {"fetch", "store", "load", "unload", "bsp"} /\ pc'[n] \in NewFirst
      BY <1>11, <3>3 DEF LoopPc, NewFirst
    <3>8. PICK b : b = BspNumber
      OBVIOUS
    <3>9. pc'[b] = "bsp" /\ num'[b] = BspStack /\ State'[b] # "finished" /\ BspNumber' = b
          /\ pc'[b] \notin {"leave", "back"} \cup LoopPc
      BY <1>1, <3>1, <3>6, <3>7, <3>8
    <3>10. Procedure'[n] = Swap /\ bsp' = "switch" /\ mBspSwitched' = FALSE /\ num'[n] = n
      BY <1>1, <1>13, <3>1, <3>4
    <3>11. Exchanges(b, n)'
      BY <1>11, <3>2, <3>3, <3>4, <3>5, <3>9, <3>10 DEF Exchanges, OldEnd, OldAfter
    <3> QED BY <3>9, <3>11
  <2>3. param'[call'].target = n /\ result'[call'] = "pending" /\ BspNumber' = BspNumber /\ n # BspNumber
        /\ AP' = AP
    BY <1>1, <1>10 DEF n
  <2> QED BY <1>6, <2>1, <2>2, <2>3 DEF SwitchInv
<1>24. BootInv' /\ HltInv'
  BY <1>1, <1>4, <1>12 DEF BootInv
<1>22. OffInv' /\ SingleInv'
  BY <1>1, <1>6, <1>16 DEF OffInv, SingleInv
<1>23. ReportInv'
  <2>1. failed[c] = {}
    BY <1>4, <1>5 DEF ReportInv
  <2>2. \A k \in CallIds \ {c} : result'[k] = result[k]
    BY <1>10
  <2> QED BY <1>1, <1>10, <1>16, <2>1, <2>2 DEF ReportInv
<1> QED BY <1>14, <1>15, <1>19, <1>20, <1>21, <1>24, <1>22, <1>23

\* The statement a processor is at says which of its steps it takes.
LEMMA StepAt ==
  ASSUME NEW c, ApStep(c) \/ ApRun(c) \/ ApBreak(c) \/ Exchange(c)
  PROVE  /\ pc[c] \in LoopPc => ApLoop(c) \/ ApMwait(c) \/ ApBreak(c) \/ ApPoll(c)
         /\ pc[c] = "enter" => ApBusy(c)
         /\ pc[c] = "fetch" => ApFetch(c)
         /\ pc[c] = "run" => ApRun(c)
         /\ pc[c] = "clear" => ApClear(c)
         /\ pc[c] = "flag" => ApFlag(c)
         /\ pc[c] = "number" => ApNumber(c)
         /\ pc[c] = "finish" => ApFinish(c)
         /\ pc[c] = "leave" => ApLeave(c)
         /\ pc[c] = "back" => ApBack(c)
         /\ pc[c] = "store" => SwapStore(c)
         /\ pc[c] = "load" => SwapLoad(c)
         /\ pc[c] = "unload" => SwapUnload(c)
         /\ pc[c] = "bsp" => SwapStore(c) /\ bsp = "switch"
<1>1. \/ pc[c] = "loop" /\ ApLoop(c)
      \/ pc[c] = "armed" /\ ApMwait(c)
      \/ pc[c] = "sleep" /\ ApBreak(c)
      \/ pc[c] = "poll" /\ ApPoll(c)
      \/ pc[c] = "enter" /\ ApBusy(c)
      \/ pc[c] = "fetch" /\ ApFetch(c)
      \/ pc[c] = "run" /\ ApRun(c)
      \/ pc[c] = "clear" /\ ApClear(c)
      \/ pc[c] = "flag" /\ ApFlag(c)
      \/ pc[c] = "number" /\ ApNumber(c)
      \/ pc[c] = "finish" /\ ApFinish(c)
      \/ pc[c] = "leave" /\ ApLeave(c)
      \/ pc[c] = "back" /\ ApBack(c)
      \/ pc[c] = "store" /\ SwapStore(c)
      \/ pc[c] = "load" /\ SwapLoad(c)
      \/ pc[c] = "unload" /\ SwapUnload(c)
      \/ pc[c] = "bsp" /\ bsp = "switch" /\ SwapStore(c)
  BY DEF ApStep, ApRun, ApBreak, Exchange, ApLoop, ApMwait, ApPoll, ApBusy, ApFetch, ApClear, ApFlag, ApNumber,
         ApFinish, ApLeave, ApBack, SwapStore, SwapLoad, SwapUnload
<1> QED BY <1>1 DEF LoopPc

\* While the roles are exchanged no call is outstanding.
LEMMA WhileSwitching ==
  ASSUME Strong, Switching
  PROVE  /\ ~Checked /\ \A p \in CPU, k \in CallIds : ~Outstanding(p, k)
         /\ result[Bye] = "none" /\ call # Bye /\ call # NULL /\ call \in CallIds /\ Kind(call) = "switch"
         /\ \A p \in CPU : ReadyToBootFlag[p] = FALSE /\ ran[p][Bye] = 0
         /\ BspNumber \in CPU /\ param[call].target \in CPU /\ param[call].target # BspNumber
<1> USE DEF Strong
<1>1. bsp \in {"switch", "switched"} /\ NoneWaits /\ param[call].target # BspNumber
  BY DEF Switching, SwitchInv
<1>2. ~Checked /\ \A p \in CPU, k \in CallIds : ~Outstanding(p, k)
  BY <1>1, NothingLeft
<1>3. result[Bye] = "none" /\ call # Bye /\ call # NULL /\ Kind(call) = "switch"
  BY <1>1 DEF CallInv, BootInv, Inv, BspInv
<1>4. param[call].target \in CPU /\ call \in CallIds
  BY <1>3, TargetInCPU DEF Inv, CallIds
<1>5. \A p \in CPU : ReadyToBootFlag[p] = FALSE /\ ran[p][Bye] = 0
  BY <1>3, Numbers DEF CallInv, BootInv, Shapes
<1> QED BY <1>1, <1>2, <1>3, <1>4, <1>5 DEF Inv, Typing

\* A step of the exchange of roles between the old BSP o and the new one n.
LEMMA SwitchMoves ==
  ASSUME Strong, Inv', Switching, Shapes', HltInv', NEW o, NEW n, o = BspNumber, n = param[call].target,
         UNCHANGED <<WaitEvent, sysVars, LoopMode, BspNumber, call, callVars, ran, off>>,
         bsp' \in {"switch", "switched"},
         \A p \in off : State'[p] = State[p],
         \A p \in CPU : ~ReadyToBootFlag'[p],
         \A p \in AP \ {n} : Quiet(p)',
         Exchanges(o, n)'
  PROVE  Strong'
<1> USE DEF Strong
<1>1. /\ UNCHANGED <<CpuList, sysEvent, sysCall, param, given, result, due, failed, calls, AP>>
      /\ Switching' /\ bsp \in {"switch", "switched"}
  BY DEF sysVars, callVars, AP, Switching
<1>2. /\ ~Checked /\ \A p \in CPU, k \in CallIds : ~Outstanding(p, k)
      /\ result[Bye] = "none" /\ call # Bye /\ call # NULL /\ call \in CallIds /\ Kind(call) = "switch"
      /\ \A p \in CPU : ReadyToBootFlag[p] = FALSE /\ ran[p][Bye] = 0
      /\ BspNumber \in CPU /\ param[call].target \in CPU /\ param[call].target # BspNumber
  BY WhileSwitching
<1>3. ~Checked' /\ \A p \in CPU, k \in CallIds : ~Outstanding(p, k)'
  BY <1>1, <1>2 DEF Checked, Outstanding, Kind
<1>4. ParamInv' /\ OffInv' /\ SingleInv' /\ ReportInv'
  BY <1>1, <1>3 DEF ParamInv, OffInv, SingleInv, ReportInv, Kind, Shapes
<1>5. CallInv'
  <2>1. \A k \in CallIds : result'[k] = "pending" =>
       \/ Kind(k)' = "all" /\ k = sysCall'
       \/ /\ Kind(k)' = "this"
          /\ \E p \in AP' : given'[k] = {p} /\ (WaitEvent'[p] = k \/ (bsp' \in {"poll", "spin"} /\ call' = k))
       \/ Kind(k)' = "switch" /\ given'[k] = {} /\ bsp' \in {"switch", "switched"} /\ call' = k
    BY <1>1 DEF CallInv, Kind
  <2>2. /\ result'[Bye] = "none" /\ bsp' \notin {"update", "start", "poll"}
        /\ Kind(call)' = "switch"
    BY <1>1, <1>2 DEF Kind
  <2> QED BY <1>1, <1>3, <2>1, <2>2 DEF CallInv
<1>6. ApInv' /\ TailInv'
  BY <1>1 DEF ApInv, TailInv, Normal
<1>7. SwitchInv'
  <2>1. NoneWaits'
    BY <1>1 DEF SwitchInv, NoneWaits
  <2> QED BY <1>1, <1>2, <2>1 DEF SwitchInv
<1>8. BootInv'
  BY <1>1, <1>2 DEF BootInv
<1> QED BY <1>4, <1>5, <1>6, <1>7, <1>8

\* The steps of a processor in its loop.
LEMMA LoopSteps ==
  ASSUME Strong, NEW c \in CPU, pc[c] \in LoopPc, num[c] = c, ~ReadyToBootFlag[c],
         ApStep(c) \/ ApRun(c) \/ ApBreak(c) \/ Exchange(c)
  PROVE  /\ UNCHANGED <<State, Procedure, WaitEvent, StartupApSignal, ReadyToBootFlag, ApLoopMode, proc, num, ran,
                        sysVars, roleVars, bsp, call, callVars, off>>
         /\ \E q \in LoopPc \cup {"enter"} :
              /\ pc' = [pc EXCEPT ![c] = q] /\ (q = "enter" => StartupApSignal[c])
              /\ LoopMode = "hlt" => q \notin {"armed", "sleep", "poll"}
<1> USE DEF Strong
<1>1. ApLoop(c) \/ ApMwait(c) \/ ApBreak(c) \/ ApPoll(c)
  BY StepAt
<1>2. UNCHANGED <<State, Procedure, WaitEvent, StartupApSignal, ReadyToBootFlag, ApLoopMode, proc, num, ran,
                  sysVars, roleVars, bsp, call, callVars, off>>
  BY <1>1 DEF ApLoop, ApMwait, ApBreak, ApPoll, ApUnchanged, bspVars
<1>3. CASE ApLoop(c)
  <2>1. pc' = [pc EXCEPT ![c] = WakeUpManner(c)] /\ pc[c] = "loop"
    BY <1>3 DEF ApLoop
  <2>2. WakeUpManner(c) \in LoopPc /\ (LoopMode = "hlt" => WakeUpManner(c) = "hlt")
    BY DEF WakeUpManner, LoopPc
  <2>3. WakeUpManner(c) # "enter"
    BY <2>2 DEF LoopPc
  <2> QED BY <1>2, <2>1, <2>2, <2>3
<1>4. CASE ApMwait(c) \/ ApBreak(c)
  <2>1. pc[c] \in {"armed", "sleep"} /\ \E q \in {"sleep", "poll"} : pc' = [pc EXCEPT ![c] = q]
    BY <1>4 DEF ApMwait, ApBreak
  <2>2. LoopMode # "hlt"
    BY <2>1 DEF HltInv
  <2> QED BY <1>2, <2>1, <2>2 DEF LoopPc
<1>5. CASE ApPoll(c)
  <2>1. /\ pc[c] = "poll"
        /\ \/ pc' = [pc EXCEPT ![c] = "loop"]
           \/ StartupApSignal[c] /\ pc' = [pc EXCEPT ![c] = "enter"]
    BY <1>5 DEF ApPoll
  <2>2. "loop" \in LoopPc
    BY DEF LoopPc
  <2> QED BY <1>2, <2>1, <2>2
<1> QED BY <1>1, <1>3, <1>4, <1>5

\* An AP that has nothing to do with the exchange.
LEMMA OthersLoop ==
  ASSUME Strong, Inv', Switching, NEW c \in AP \ {param[call].target},
         ApStep(c) \/ ApRun(c) \/ ApBreak(c) \/ Exchange(c)
  PROVE  Strong'
<1> USE DEF Strong
<1>1. PICK o, n : o = BspNumber /\ n = param[call].target
  OBVIOUS
<1>2. /\ Exchanges(o, n) /\ \A p \in AP \ {n} : Quiet(p)
      /\ c \in CPU \ {o, n} /\ bsp \in {"switch", "switched"}
  BY <1>1 DEF SwitchInv, AP, Switching
<1>3. /\ \A p \in CPU : ReadyToBootFlag[p] = FALSE
      /\ BspNumber \in CPU /\ param[call].target \in CPU /\ param[call].target # BspNumber
  BY WhileSwitching
<1>4. pc[c] \in LoopPc /\ num[c] = c /\ ~StartupApSignal[c] /\ c \in CPU
  BY <1>1, <1>2 DEF Quiet
<1>5. /\ UNCHANGED <<State, Procedure, WaitEvent, StartupApSignal, ReadyToBootFlag, ApLoopMode, proc, num, ran,
                     sysVars, roleVars, bsp, call, callVars, off>>
      /\ \E q \in LoopPc \cup {"enter"} :
           /\ pc' = [pc EXCEPT ![c] = q] /\ (q = "enter" => StartupApSignal[c])
           /\ LoopMode = "hlt" => q \notin {"armed", "sleep", "poll"}
  BY <1>3, <1>4, LoopSteps
<1>6. PICK q \in LoopPc : pc' = [pc EXCEPT ![c] = q] /\ (LoopMode = "hlt" => q \notin {"armed", "sleep", "poll"})
  BY <1>4, <1>5
<1>7. UNCHANGED <<LoopMode, BspNumber, Info, mBspSwitched, mNewProcessorNumber, AP>>
  BY <1>5 DEF roleVars, AP
<1>8. /\ pc'[c] = q /\ \A p \in CPU \ {c} : pc'[p] = pc[p]
      /\ pc' \in [CPU -> ProcPc]
  BY <1>2, <1>6 DEF Shapes, ProcPc
<1>9. Shapes' /\ HltInv'
  <2>1. UNCHANGED <<param, given, result, due, failed, calls>>
    BY <1>5 DEF callVars
  <2>2. Shapes'
    BY <1>5, <1>7, <1>8, <2>1 DEF Shapes
  <2> QED BY <1>5, <1>6, <1>7, <1>8, <2>2 DEF HltInv
<1>10. \A p \in AP \ {n} : Quiet(p)'
  BY <1>1, <1>2, <1>5, <1>6, <1>8 DEF Quiet, AP
<1>11. Exchanges(o, n)'
  <2>1. pc'[o] = pc[o] /\ pc'[n] = pc[n]
    BY <1>1, <1>2, <1>3, <1>8
  <2> QED BY <1>2, <1>5, <1>7, <2>1 DEF Exchanges
<1>12. UNCHANGED <<WaitEvent, sysVars, LoopMode, BspNumber, call, callVars, ran, off>> /\ bsp' \in {"switch", "switched"}
  BY <1>2, <1>5, <1>7
<1>13. /\ \A p \in off : State'[p] = State[p]
       /\ \A p \in CPU : ~ReadyToBootFlag'[p]
  BY <1>3, <1>5
<1> QED BY <1>1, <1>9, <1>10, <1>11, <1>12, <1>13, SwitchMoves

\* A step of one of the two processors that exchange their roles.
LEMMA SwitchStep ==
  ASSUME Strong, Inv', Switching, NEW o, NEW n, o = BspNumber, n = param[call].target, NEW c \in {o, n},
         UNCHANGED <<WaitEvent, sysVars, LoopMode, BspNumber, call, callVars, ran, off>>,
         bsp' \in {"switch", "switched"},
         pc' \in [CPU -> ProcPc], num' \in [CPU -> 0..BspStack], proc' \in [CPU -> CallIds \cup {NULL, Swap}],
         Procedure' \in [CPU -> CallIds \cup {NULL, Swap}], StartupApSignal' \in [CPU -> BOOLEAN],
         ReadyToBootFlag' \in [CPU -> BOOLEAN], ApLoopMode' \in [CPU -> Modes],
         Info' \in [{"bsp", "ap"} -> [State : {"idle", "stored", "loaded"}, StackPointer : 0..BspStack]],
         mBspSwitched' \in BOOLEAN, mNewProcessorNumber' \in CPU,
         \A p \in CPU \ {c} : pc'[p] = pc[p] /\ num'[p] = num[p] /\ State'[p] = State[p],
         \A p \in CPU \ {o, n} : StartupApSignal'[p] = StartupApSignal[p],
         State'[c] = State[c] \/ c \notin off,
         LoopMode = "hlt" => /\ pc'[c] \notin {"armed", "sleep", "poll"}
                             /\ \A p \in CPU : ApLoopMode'[p] = "hlt" /\ ~StartupApSignal'[p],
         \A p \in CPU : ~ReadyToBootFlag'[p],
         Exchanges(o, n)'
  PROVE  Strong'
<1> USE DEF Strong
<1>1. BspNumber \in CPU /\ param[call].target \in CPU /\ param[call].target # BspNumber
  BY WhileSwitching
<1>2. Shapes'
  <2>1. UNCHANGED <<param, given, result, due, failed, calls>>
    BY DEF callVars
  <2>2. bsp' \in Services
    BY DEF Services
  <2> QED BY <2>1, <2>2 DEF Shapes
<1>3. HltInv'
  BY DEF HltInv
<1>4. \A p \in AP \ {n} : Quiet(p)'
  <2>1. AP' = AP
    BY DEF AP
  <2>2. \A p \in AP \ {n} : p \in CPU \ {o, n} /\ Quiet(p)
    BY DEF AP, SwitchInv
  <2> QED BY <2>2 DEF Quiet
<1>5. \A p \in off : State'[p] = State[p]
  BY DEF Shapes
<1> QED BY <1>2, <1>3, <1>4, <1>5, SwitchMoves

\* One that leaves the monitor data alone.
LEMMA PlainStep ==
  ASSUME Strong, Inv', Switching, NEW o, NEW n, o = BspNumber, n = param[call].target, NEW c \in {o, n},
         UNCHANGED <<WaitEvent, sysVars, LoopMode, BspNumber, call, callVars, ran, off>>,
         UNCHANGED <<ApLoopMode, StartupApSignal, ReadyToBootFlag, mNewProcessorNumber>>,
         bsp' \in {"switch", "switched"},
         pc' \in [CPU -> ProcPc], num' \in [CPU -> 0..BspStack], proc' \in [CPU -> CallIds \cup {NULL, Swap}],
         Procedure' \in [CPU -> CallIds \cup {NULL, Swap}],
         Info' \in [{"bsp", "ap"} -> [State : {"idle", "stored", "loaded"}, StackPointer : 0..BspStack]],
         mBspSwitched' \in BOOLEAN,
         \A p \in CPU \ {c} : pc'[p] = pc[p] /\ num'[p] = num[p] /\ State'[p] = State[p],
         State'[c] = State[c] \/ c \notin off,
         LoopMode = "hlt" => pc'[c] \notin {"armed", "sleep", "poll"},
         Exchanges(o, n)'
  PROVE  Strong'
<1>1. \A p \in CPU : ReadyToBootFlag[p] = FALSE
  BY WhileSwitching
<1>2. /\ StartupApSignal' \in [CPU -> BOOLEAN] /\ ReadyToBootFlag' \in [CPU -> BOOLEAN]
      /\ ApLoopMode' \in [CPU -> Modes] /\ mNewProcessorNumber' \in CPU
  BY DEF Strong, Shapes
<1>3. /\ \A p \in CPU \ {o, n} : StartupApSignal'[p] = StartupApSignal[p]
      /\ LoopMode = "hlt" => /\ pc'[c] \notin {"armed", "sleep", "poll"}
                             /\ \A p \in CPU : ApLoopMode'[p] = "hlt" /\ ~StartupApSignal'[p]
      /\ \A p \in CPU : ~ReadyToBootFlag'[p]
  BY <1>1 DEF Strong, HltInv
<1> QED BY <1>2, <1>3, SwitchStep

\* The AP that becomes the BSP.
LEMMA NewBspSteps ==
  ASSUME Strong, Inv', Switching, NEW n, n = param[call].target,
         ApStep(n) \/ ApRun(n) \/ ApBreak(n) \/ Exchange(n)
  PROVE  Strong'
<1> USE DEF Strong
<1>1. PICK o : o = BspNumber
  OBVIOUS
<1>2. Exchanges(o, n) /\ bsp \in {"switch", "switched"}
  BY <1>1 DEF SwitchInv, Switching
<1>3. o \in CPU /\ n \in CPU /\ n # o /\ \A p \in CPU : ReadyToBootFlag[p] = FALSE
  BY <1>1, WhileSwitching
<1>4. n # BspStack /\ BspStack \in 0..BspStack /\ n \in 0..BspStack /\ n \in {o, n}
  BY <1>3, Numbers
<1>5. /\ pc \in [CPU -> ProcPc] /\ num \in [CPU -> 0..BspStack] /\ proc \in [CPU -> CallIds \cup {NULL, Swap}]
      /\ Procedure \in [CPU -> CallIds \cup {NULL, Swap}] /\ State \in [CPU -> States]
      /\ Info \in [{"bsp", "ap"} -> [State : {"idle", "stored", "loaded"}, StackPointer : 0..BspStack]]
      /\ mBspSwitched \in BOOLEAN
  BY DEF Shapes, Inv, Typing
<1>6. CASE pc[n] \in LoopPc
  <2>1. num[n] = n
    BY <1>2, <1>6 DEF Exchanges, LoopPc
  <2>2. /\ UNCHANGED <<State, Procedure, WaitEvent, StartupApSignal, ReadyToBootFlag, ApLoopMode, proc, num, ran,
                       sysVars, roleVars, bsp, call, callVars, off>>
        /\ \E q \in LoopPc \cup {"enter"} :
             /\ pc' = [pc EXCEPT ![n] = q] /\ (q = "enter" => StartupApSignal[n])
             /\ LoopMode = "hlt" => q \notin {"armed", "sleep", "poll"}
    BY <1>3, <1>6, <2>1, LoopSteps
  <2>3. UNCHANGED <<LoopMode, BspNumber, Info, mBspSwitched, mNewProcessorNumber>>
    BY <2>2 DEF roleVars
  <2>4. PICK q \in LoopPc \cup {"enter"} :
          pc' = [pc EXCEPT ![n] = q] /\ (LoopMode = "hlt" => q \notin {"armed", "sleep", "poll"})
    BY <2>2
  <2>5. /\ pc'[n] = q /\ pc'[o] = pc[o] /\ \A p \in CPU \ {n} : pc'[p] = pc[p]
        /\ pc' \in [CPU -> ProcPc]
    BY <1>3, <1>5, <2>4 DEF ProcPc, WorkPc
  <2>6. Exchanges(o, n)'
    <3>1. pc'[n] \notin {"fetch", "store", "load", "unload", "bsp"}
      BY <2>5 DEF LoopPc
    <3>2. pc[n] \in NewFirst /\ pc'[n] \in NewFirst /\ pc'[n] \notin {"fetch", "store", "load", "unload", "bsp"}
      BY <1>6, <2>5 DEF NewFirst, LoopPc
    <3>3. pc[n] \notin {"enter", "fetch", "store", "load", "unload", "bsp"}
      BY <1>6 DEF LoopPc
    <3> QED BY <1>2, <2>2, <2>3, <2>5, <3>1, <3>2, <3>3 DEF Exchanges
  <2> QED BY <1>1, <1>2, <1>4, <1>5, <2>2, <2>3, <2>4, <2>5, <2>6, PlainStep
<1>7. CASE pc[n] = "enter"
  <2>0. n \notin off
    BY <1>2, <1>7 DEF Exchanges, LoopPc, OffInv
  <2>1. ApBusy(n) /\ num[n] = n /\ State[n] = "idle"
    BY <1>2, <1>7, StepAt DEF Exchanges, LoopPc
  <2>2. /\ pc' = [pc EXCEPT ![n] = "fetch"] /\ State' = [State EXCEPT ![n] = "busy"]
        /\ UNCHANGED <<Procedure, WaitEvent, StartupApSignal, ReadyToBootFlag, ApLoopMode, proc, num, ran,
                       sysVars, roleVars, bsp, call, callVars, off>>
    BY <2>1 DEF ApBusy, ApUnchanged, bspVars
  <2>3. UNCHANGED <<LoopMode, BspNumber, Info, mBspSwitched, mNewProcessorNumber>>
    BY <2>2 DEF roleVars
  <2>4. /\ pc'[n] = "fetch" /\ pc'[o] = pc[o] /\ \A p \in CPU \ {n} : pc'[p] = pc[p] /\ State'[p] = State[p]
        /\ pc' \in [CPU -> ProcPc] /\ State'[n] = "busy" /\ State'[o] = State[o]
    BY <1>3, <1>5, <2>2 DEF ProcPc, WorkPc
  <2>5. Exchanges(o, n)'
    BY <1>2, <1>7, <2>1, <2>2, <2>3, <2>4 DEF Exchanges, NewFirst, LoopPc
  <2> QED BY <1>1, <1>2, <1>4, <1>5, <2>0, <2>1, <2>2, <2>3, <2>4, <2>5, PlainStep
<1>8. CASE pc[n] = "fetch"
  <2>1. ApFetch(n) /\ num[n] = n /\ Procedure[n] = Swap
    BY <1>2, <1>8, StepAt DEF Exchanges, NewFirst
  <2>2. /\ pc' = [pc EXCEPT ![n] = "store"] /\ proc' = [proc EXCEPT ![n] = Swap]
        /\ UNCHANGED <<State, Procedure, WaitEvent, StartupApSignal, ReadyToBootFlag, ApLoopMode, num, ran,
                       sysVars, roleVars, bsp, call, callVars, off>>
    BY <2>1, Numbers DEF ApFetch, ApUnchanged, bspVars
  <2>3. UNCHANGED <<LoopMode, BspNumber, Info, mBspSwitched, mNewProcessorNumber>>
    BY <2>2 DEF roleVars
  <2>4. /\ pc'[n] = "store" /\ pc'[o] = pc[o] /\ \A p \in CPU \ {n} : pc'[p] = pc[p]
        /\ pc' \in [CPU -> ProcPc] /\ proc'[o] = proc[o] /\ proc' \in [CPU -> CallIds \cup {NULL, Swap}]
    BY <1>3, <1>5, <2>2 DEF ProcPc, SwapPc
  <2>5. Exchanges(o, n)'
    BY <1>2, <1>8, <2>1, <2>2, <2>3, <2>4 DEF Exchanges, NewFirst, LoopPc
  <2> QED BY <1>1, <1>2, <1>4, <1>5, <2>1, <2>2, <2>3, <2>4, <2>5, PlainStep
<1>9. My(n) = "ap" /\ Others(n) = "bsp"
  BY <1>1, <1>3 DEF My, Others
<1>10. CASE pc[n] = "store"
  <2>1. SwapStore(n) /\ num[n] = n /\ State[n] = "busy"
    BY <1>2, <1>10, StepAt DEF Exchanges, LoopPc
  <2>2. /\ pc' = [pc EXCEPT ![n] = "load"] /\ Info' = [Info EXCEPT !["ap"] = [State |-> "stored", StackPointer |-> n]]
        /\ UNCHANGED <<State, Procedure, WaitEvent, StartupApSignal, ReadyToBootFlag, ApLoopMode, num, proc, ran,
                       sysVars, LoopMode, BspNumber, mBspSwitched, mNewProcessorNumber, bsp, call, callVars, off>>
    BY <1>9, <2>1 DEF SwapStore, SwapUnchanged, wakeVars
  <2>3. /\ pc'[n] = "load" /\ pc'[o] = pc[o] /\ \A p \in CPU \ {n} : pc'[p] = pc[p]
        /\ pc' \in [CPU -> ProcPc] /\ Info'["bsp"] = Info["bsp"]
        /\ Info'["ap"] = [State |-> "stored", StackPointer |-> n]
        /\ Info' \in [{"bsp", "ap"} -> [State : {"idle", "stored", "loaded"}, StackPointer : 0..BspStack]]
    BY <1>3, <1>4, <1>5, <2>2 DEF ProcPc, SwapPc
  <2>4. proc[n] = Swap
    BY <1>2, <1>10 DEF Exchanges
  <2>5. Exchanges(o, n)'
    BY <1>2, <1>10, <2>1, <2>2, <2>3, <2>4 DEF Exchanges, NewFirst, LoopPc
  <2> QED BY <1>1, <1>2, <1>4, <1>5, <2>1, <2>2, <2>3, <2>5, PlainStep
<1>11. CASE pc[n] = "load"
  <2>1. SwapLoad(n) /\ num[n] = n /\ State[n] = "busy" /\ Info["ap"].StackPointer = n
    BY <1>2, <1>11, StepAt DEF Exchanges, NewFirst, LoopPc
  <2>2. Info["bsp"].State = "stored" /\ pc[o] # "bsp" /\ Info["bsp"].StackPointer = BspStack
    BY <1>2, <1>9, <2>1 DEF SwapLoad, Exchanges
  <2>3. /\ pc' = [pc EXCEPT ![n] = "unload"] /\ num' = [num EXCEPT ![n] = BspStack] /\ proc' = [proc EXCEPT ![n] = NULL]
        /\ Info' = [Info EXCEPT !["bsp"].State = "loaded"]
        /\ UNCHANGED <<State, Procedure, WaitEvent, StartupApSignal, ReadyToBootFlag, ApLoopMode, ran,
                       sysVars, LoopMode, BspNumber, mBspSwitched, mNewProcessorNumber, bsp, call, callVars, off>>
    BY <1>9, <2>1, <2>2 DEF SwapLoad, SwapUnchanged, wakeVars
  <2>4. /\ pc'[n] = "unload" /\ pc'[o] = pc[o] /\ \A p \in CPU \ {n} : pc'[p] = pc[p] /\ num'[p] = num[p]
        /\ pc' \in [CPU -> ProcPc] /\ Info'["ap"] = Info["ap"] /\ num'[n] = BspStack /\ num'[o] = num[o]
        /\ Info'["bsp"].State = "loaded" /\ Info'["bsp"].StackPointer = Info["bsp"].StackPointer
        /\ proc'[o] = proc[o] /\ proc' \in [CPU -> CallIds \cup {NULL, Swap}] /\ num' \in [CPU -> 0..BspStack]
    BY <1>3, <1>4, <1>5, <2>3 DEF ProcPc, SwapPc
  <2>5. Info' \in [{"bsp", "ap"} -> [State : {"idle", "stored", "loaded"}, StackPointer : 0..BspStack]]
    BY <1>5, <2>3
  <2>6. Exchanges(o, n)'
    BY <1>2, <1>11, <2>1, <2>2, <2>3, <2>4 DEF Exchanges, NewFirst, LoopPc
  <2> QED BY <1>1, <1>2, <1>4, <1>5, <2>1, <2>3, <2>4, <2>5, <2>6, PlainStep
<1>12. CASE pc[n] = "unload"
  <2>1. SwapUnload(n) /\ num[n] = BspStack /\ State[n] = "busy" /\ Info["ap"].State = "loaded"
    BY <1>2, <1>9, <1>12, StepAt DEF Exchanges, OtherLoaded, LoopPc, SwapUnload
  <2>2. /\ pc' = [pc EXCEPT ![n] = "bsp"] /\ bsp' = "switched" /\ bsp = "switch"
        /\ UNCHANGED <<State, Procedure, WaitEvent, StartupApSignal, ReadyToBootFlag, ApLoopMode, num, proc, ran, Info,
                       sysVars, LoopMode, BspNumber, mBspSwitched, mNewProcessorNumber, call, callVars, off>>
    BY <2>1 DEF SwapUnload, SwapUnchanged, wakeVars
  <2>3. /\ pc'[n] = "bsp" /\ pc'[o] = pc[o] /\ \A p \in CPU \ {n} : pc'[p] = pc[p]
        /\ pc' \in [CPU -> ProcPc]
    BY <1>3, <1>5, <2>2 DEF ProcPc
  <2>4. pc[o] \notin {"bsp", "load"}
    BY <1>2, <1>12, <2>1 DEF Exchanges, NewFirst, LoopPc
  <2>5. Exchanges(o, n)'
    BY <1>2, <1>12, <2>1, <2>2, <2>3, <2>4 DEF Exchanges, NewFirst, LoopPc
  <2> QED BY <1>1, <1>2, <1>4, <1>5, <2>2, <2>3, <2>5, PlainStep
<1>13. CASE pc[n] = "bsp"
  <2>1. bsp = "switched"
    BY <1>2, <1>13 DEF Exchanges
  <2>2. FALSE
    BY <1>13, <2>1, StepAt
  <2> QED BY <2>2
<1>14. pc[n] \in LoopPc \cup {"enter", "fetch", "store", "load", "unload", "bsp"}
  BY <1>2 DEF Exchanges
<1> QED BY <1>6, <1>7, <1>8, <1>10, <1>11, <1>12, <1>13, <1>14

\* The BSP that becomes an AP.
LEMMA OldBspSteps ==
  ASSUME Strong, Inv', Switching, NEW o, o = BspNumber,
         ApStep(o) \/ ApRun(o) \/ ApBreak(o) \/ Exchange(o)
  PROVE  Strong'
<1> USE DEF Strong
<1>1. PICK n : n = param[call].target
  OBVIOUS
<1>2. Exchanges(o, n) /\ bsp \in {"switch", "switched"}
  BY <1>1 DEF SwitchInv, Switching
<1>3. o \in CPU /\ n \in CPU /\ n # o /\ \A p \in CPU : ReadyToBootFlag[p] = FALSE
  BY <1>1, WhileSwitching
<1>4. n # BspStack /\ BspStack \in 0..BspStack /\ n \in 0..BspStack /\ o \in 0..BspStack /\ o \in {o, n} /\ Swap # NULL
  BY <1>3, Numbers
<1>5. /\ pc \in [CPU -> ProcPc] /\ num \in [CPU -> 0..BspStack] /\ proc \in [CPU -> CallIds \cup {NULL, Swap}]
      /\ Procedure \in [CPU -> CallIds \cup {NULL, Swap}] /\ State \in [CPU -> States]
      /\ Info \in [{"bsp", "ap"} -> [State : {"idle", "stored", "loaded"}, StackPointer : 0..BspStack]]
      /\ mBspSwitched \in BOOLEAN /\ StartupApSignal \in [CPU -> BOOLEAN]
      /\ ApLoopMode \in [CPU -> Modes] /\ ReadyToBootFlag \in [CPU -> BOOLEAN] /\ mNewProcessorNumber \in CPU
  BY DEF Shapes, Inv, Typing
<1>6. My(o) = "bsp" /\ Others(o) = "ap"
  BY <1>3 DEF My, Others
<1>7. CASE pc[o] = "bsp"
  <2>1. SwapStore(o) /\ num[o] = BspStack
    BY <1>2, <1>7, StepAt DEF Exchanges, LoopPc
  <2>2. /\ pc' = [pc EXCEPT ![o] = "load"]
        /\ Info' = [Info EXCEPT !["bsp"] = [State |-> "stored", StackPointer |-> BspStack]]
        /\ UNCHANGED <<State, Procedure, WaitEvent, StartupApSignal, ReadyToBootFlag, ApLoopMode, num, proc, ran,
                       sysVars, LoopMode, BspNumber, mBspSwitched, mNewProcessorNumber, bsp, call, callVars, off>>
    BY <1>6, <2>1 DEF SwapStore, SwapUnchanged, wakeVars
  <2>3. /\ pc'[o] = "load" /\ pc'[n] = pc[n] /\ \A p \in CPU \ {o} : pc'[p] = pc[p]
        /\ pc' \in [CPU -> ProcPc] /\ Info'["ap"] = Info["ap"]
        /\ Info'["bsp"] = [State |-> "stored", StackPointer |-> BspStack]
        /\ Info' \in [{"bsp", "ap"} -> [State : {"idle", "stored", "loaded"}, StackPointer : 0..BspStack]]
    BY <1>3, <1>4, <1>5, <2>2 DEF ProcPc, SwapPc
  <2>4. Exchanges(o, n)'
    BY <1>2, <1>7, <2>1, <2>2, <2>3 DEF Exchanges, NewFirst, OldEnd, OldAfter, LoopPc
  <2> QED BY <1>1, <1>2, <1>4, <1>5, <2>1, <2>2, <2>3, <2>4, PlainStep
<1>8. CASE pc[o] = "load"
  <2>1. SwapLoad(o) /\ num[o] = BspStack
    BY <1>2, <1>8, StepAt DEF Exchanges, LoopPc
  <2>2. Info["ap"].State = "stored" /\ pc[n] \notin NewFirst /\ Info["ap"].StackPointer = n
    BY <1>2, <1>6, <2>1 DEF SwapLoad, Exchanges
  <2>3. /\ pc' = [pc EXCEPT ![o] = "unload"] /\ num' = [num EXCEPT ![o] = n] /\ proc' = [proc EXCEPT ![o] = Swap]
        /\ Info' = [Info EXCEPT !["ap"].State = "loaded"]
        /\ UNCHANGED <<State, Procedure, WaitEvent, StartupApSignal, ReadyToBootFlag, ApLoopMode, ran,
                       sysVars, LoopMode, BspNumber, mBspSwitched, mNewProcessorNumber, bsp, call, callVars, off>>
    BY <1>4, <1>6, <2>1, <2>2 DEF SwapLoad, SwapUnchanged, wakeVars
  <2>4. /\ pc'[o] = "unload" /\ pc'[n] = pc[n] /\ \A p \in CPU \ {o} : pc'[p] = pc[p] /\ num'[p] = num[p]
        /\ pc' \in [CPU -> ProcPc] /\ Info'["bsp"] = Info["bsp"] /\ num'[o] = n /\ num'[n] = num[n]
        /\ Info'["ap"].State = "loaded" /\ Info'["ap"].StackPointer = Info["ap"].StackPointer
        /\ proc'[o] = Swap /\ proc'[n] = proc[n] /\ proc' \in [CPU -> CallIds \cup {NULL, Swap}]
        /\ num' \in [CPU -> 0..BspStack]
    BY <1>3, <1>4, <1>5, <2>3 DEF ProcPc, SwapPc
  <2>5. Info' \in [{"bsp", "ap"} -> [State : {"idle", "stored", "loaded"}, StackPointer : 0..BspStack]]
    BY <1>5, <2>3
  <2>6. Exchanges(o, n)'
    BY <1>2, <1>8, <2>1, <2>2, <2>3, <2>4 DEF Exchanges, NewFirst, OldEnd, OldAfter, LoopPc
  <2> QED BY <1>1, <1>2, <1>4, <1>5, <2>1, <2>3, <2>4, <2>5, <2>6, PlainStep
<1>9. CASE pc[o] = "unload"
  <2>1. SwapUnload(o) /\ num[o] = n /\ Info["bsp"].State = "loaded"
    BY <1>2, <1>6, <1>9, StepAt DEF Exchanges, OtherLoaded, LoopPc, SwapUnload
  <2>2. /\ pc' = [pc EXCEPT ![o] = "clear"] /\ Procedure' = [Procedure EXCEPT ![n] = NULL]
        /\ UNCHANGED <<State, WaitEvent, StartupApSignal, ReadyToBootFlag, ApLoopMode, num, proc, ran, Info, bsp,
                       sysVars, LoopMode, BspNumber, mBspSwitched, mNewProcessorNumber, call, callVars, off>>
    BY <1>4, <2>1 DEF SwapUnload, SwapUnchanged, wakeVars
  <2>3. /\ pc'[o] = "clear" /\ pc'[n] = pc[n] /\ \A p \in CPU \ {o} : pc'[p] = pc[p]
        /\ pc' \in [CPU -> ProcPc] /\ Procedure' \in [CPU -> CallIds \cup {NULL, Swap}]
    BY <1>3, <1>5, <2>2 DEF ProcPc, WorkPc
  <2>4. pc[n] \in {"unload", "bsp"}
    BY <1>2, <1>9, <2>1 DEF Exchanges
  <2>5. Exchanges(o, n)'
    BY <1>2, <1>9, <2>1, <2>2, <2>3, <2>4 DEF Exchanges, NewFirst, OldEnd, OldAfter, LoopPc
  <2> QED BY <1>1, <1>2, <1>4, <1>5, <2>2, <2>3, <2>5, PlainStep
<1>10. /\ \A p \in CPU : ~ReadyToBootFlag[p]
       /\ LoopMode = "hlt" => \A p \in CPU : ApLoopMode[p] = "hlt" /\ StartupApSignal[p] = FALSE
  BY <1>3, <1>5 DEF HltInv
<1>11. CASE pc[o] = "clear"
  <2>1. ApClear(o) /\ num[o] = n /\ proc[o] = Swap /\ pc[n] \in {"unload", "bsp"}
    BY <1>2, <1>11, StepAt DEF Exchanges, OldAfter, LoopPc
  <2>2. /\ pc' = [pc EXCEPT ![o] = "flag"] /\ StartupApSignal' = [StartupApSignal EXCEPT ![n] = FALSE]
        /\ UNCHANGED <<State, Procedure, WaitEvent, ReadyToBootFlag, ApLoopMode, num, proc, ran, bsp,
                       sysVars, roleVars, call, callVars, off>>
    BY <2>1 DEF ApClear, ApUnchanged, bspVars
  <2>3. UNCHANGED <<LoopMode, BspNumber, Info, mBspSwitched, mNewProcessorNumber>>
    BY <2>2 DEF roleVars
  <2>4. /\ pc'[o] = "flag" /\ pc'[n] = pc[n] /\ \A p \in CPU \ {o} : pc'[p] = pc[p]
        /\ pc' \in [CPU -> ProcPc] /\ StartupApSignal'[n] = FALSE
        /\ \A p \in CPU \ {o, n} : StartupApSignal'[p] = StartupApSignal[p]
        /\ StartupApSignal' \in [CPU -> BOOLEAN]
        /\ LoopMode = "hlt" => \A p \in CPU : ApLoopMode[p] = "hlt" /\ StartupApSignal'[p] = FALSE
    BY <1>3, <1>5, <1>10, <2>2 DEF ProcPc, WorkPc
  <2>5. Exchanges(o, n)'
    BY <1>2, <1>11, <2>1, <2>2, <2>3, <2>4 DEF Exchanges, NewFirst, OldEnd, OldAfter, LoopPc
  <2> QED BY <1>1, <1>2, <1>4, <1>5, <1>10, <2>2, <2>3, <2>4, <2>5, SwitchStep
<1>12. CASE pc[o] = "flag"
  <2>1. ApFlag(o) /\ pc[n] \in {"unload", "bsp"}
    BY <1>2, <1>12, StepAt DEF Exchanges, OldAfter, LoopPc
  <2>2. /\ pc' = [pc EXCEPT ![o] = "number"] /\ mBspSwitched' = TRUE
        /\ UNCHANGED <<State, Procedure, WaitEvent, StartupApSignal, ReadyToBootFlag, ApLoopMode, num, proc, ran, bsp,
                       sysVars, LoopMode, BspNumber, Info, mNewProcessorNumber, call, callVars, off>>
    BY <2>1 DEF ApFlag, bspVars, blockVars, wakeVars
  <2>3. /\ pc'[o] = "number" /\ pc'[n] = pc[n] /\ \A p \in CPU \ {o} : pc'[p] = pc[p]
        /\ pc' \in [CPU -> ProcPc]
    BY <1>3, <1>5, <2>2 DEF ProcPc
  <2>4. Exchanges(o, n)'
    BY <1>2, <1>12, <2>1, <2>2, <2>3 DEF Exchanges, NewFirst, OldEnd, OldAfter, LoopPc
  <2> QED BY <1>1, <1>2, <1>4, <1>5, <2>2, <2>3, <2>4, PlainStep
<1>13. CASE pc[o] = "number"
  <2>1. ApNumber(o) /\ num[o] = n /\ StartupApSignal[n] = FALSE /\ pc[n] \in {"unload", "bsp"}
    BY <1>2, <1>3, <1>5, <1>13, StepAt DEF Exchanges, OldAfter, OldEnd, LoopPc
  <2>2. /\ pc' = [pc EXCEPT ![o] = "finish"] /\ mNewProcessorNumber' = o
        /\ ApLoopMode' = [ApLoopMode EXCEPT ![o] = ApLoopMode[n]]
        /\ StartupApSignal' = [StartupApSignal EXCEPT ![o] = FALSE]
        /\ ReadyToBootFlag' = [ReadyToBootFlag EXCEPT ![o] = FALSE]
        /\ UNCHANGED <<State, Procedure, WaitEvent, num, proc, ran, bsp,
                       sysVars, LoopMode, BspNumber, Info, mBspSwitched, call, callVars, off>>
    BY <1>3, <2>1 DEF ApNumber, bspVars, blockVars
  <2>3. /\ pc'[o] = "finish" /\ pc'[n] = pc[n] /\ \A p \in CPU \ {o} : pc'[p] = pc[p]
        /\ pc' \in [CPU -> ProcPc] /\ StartupApSignal'[n] = FALSE /\ StartupApSignal'[o] = FALSE
        /\ \A p \in CPU \ {o, n} : StartupApSignal'[p] = StartupApSignal[p]
        /\ StartupApSignal' \in [CPU -> BOOLEAN]
    BY <1>3, <1>5, <2>1, <2>2 DEF ProcPc, WorkPc
  <2>4. /\ ApLoopMode' \in [CPU -> Modes] /\ ReadyToBootFlag' \in [CPU -> BOOLEAN]
        /\ \A p \in CPU : ~ReadyToBootFlag'[p]
    BY <1>3, <1>5, <2>2
  <2>5. LoopMode = "hlt" => \A p \in CPU : ApLoopMode'[p] = "hlt" /\ ~StartupApSignal'[p]
    BY <1>3, <1>5, <1>10, <2>2
  <2>6. Exchanges(o, n)'
    BY <1>2, <1>13, <2>1, <2>2, <2>3 DEF Exchanges, NewFirst, OldEnd, OldAfter, LoopPc
  <2>7. mNewProcessorNumber' \in CPU
    BY <1>3, <2>2
  <2> QED BY <1>1, <1>2, <1>4, <1>5, <2>2, <2>3, <2>4, <2>5, <2>6, <2>7, SwitchStep
<1>14. CASE pc[o] = "finish"
  <2>1. ApFinish(o) /\ proc[o] = Swap /\ pc[n] \in {"unload", "bsp"}
    BY <1>2, <1>14, StepAt DEF Exchanges, OldAfter, OldEnd, LoopPc
  <2>2. /\ pc' = [pc EXCEPT ![o] = "leave"] /\ State' = [State EXCEPT ![o] = "finished"]
        /\ UNCHANGED <<Procedure, WaitEvent, StartupApSignal, ReadyToBootFlag, ApLoopMode, num, proc, ran, bsp,
                       sysVars, roleVars, call, callVars, off>>
    BY <2>1 DEF ApFinish, ApUnchanged, bspVars, Slot
  <2>3. UNCHANGED <<LoopMode, BspNumber, Info, mBspSwitched, mNewProcessorNumber>>
    BY <2>2 DEF roleVars
  <2>4. /\ pc'[o] = "leave" /\ pc'[n] = pc[n] /\ \A p \in CPU \ {o} : pc'[p] = pc[p] /\ State'[p] = State[p]
        /\ pc' \in [CPU -> ProcPc] /\ State'[o] = "finished" /\ State'[n] = State[n]
    BY <1>3, <1>5, <2>2 DEF ProcPc
  <2>5. Exchanges(o, n)'
    BY <1>2, <1>14, <2>1, <2>2, <2>3, <2>4 DEF Exchanges, NewFirst, OldEnd, OldAfter, LoopPc
  <2>6. o \notin off
    BY DEF OffInv
  <2> QED BY <1>1, <1>2, <1>4, <1>5, <2>2, <2>3, <2>4, <2>5, <2>6, PlainStep
<1>15. CASE pc[o] = "leave"
  <2>1. ApLeave(o) /\ proc[o] = Swap /\ pc[n] \in {"unload", "bsp"}
    BY <1>2, <1>15, StepAt DEF Exchanges, OldAfter, OldEnd, LoopPc
  <2>2. /\ pc' = [pc EXCEPT ![o] = "back"]
        /\ UNCHANGED <<State, Procedure, WaitEvent, StartupApSignal, ReadyToBootFlag, ApLoopMode, num, proc, ran, bsp,
                       sysVars, roleVars, call, callVars, off>>
    BY <2>1 DEF ApLeave, ApUnchanged, bspVars
  <2>3. UNCHANGED <<LoopMode, BspNumber, Info, mBspSwitched, mNewProcessorNumber>>
    BY <2>2 DEF roleVars
  <2>4. /\ pc'[o] = "back" /\ pc'[n] = pc[n] /\ \A p \in CPU \ {o} : pc'[p] = pc[p]
        /\ pc' \in [CPU -> ProcPc]
    BY <1>3, <1>5, <2>2 DEF ProcPc
  <2>5. Exchanges(o, n)'
    BY <1>2, <1>15, <2>1, <2>2, <2>3, <2>4 DEF Exchanges, NewFirst, OldEnd, OldAfter, LoopPc
  <2> QED BY <1>1, <1>2, <1>4, <1>5, <2>2, <2>3, <2>4, <2>5, PlainStep
<1>16. CASE pc[o] = "back"
  <2>1. ApBack(o) /\ mBspSwitched /\ mNewProcessorNumber = o /\ pc[n] \in {"unload", "bsp"}
    BY <1>2, <1>16, StepAt DEF Exchanges, OldAfter, OldEnd, LoopPc
  <2>2. /\ pc' = [pc EXCEPT ![o] = WakeUpManner(num'[o])] /\ num' = [num EXCEPT ![o] = o]
        /\ proc' = [proc EXCEPT ![o] = NULL] /\ mBspSwitched' = FALSE
        /\ UNCHANGED <<State, Procedure, WaitEvent, StartupApSignal, ReadyToBootFlag, ApLoopMode, ran, bsp,
                       sysVars, LoopMode, BspNumber, Info, mNewProcessorNumber, call, callVars, off>>
    BY <2>1 DEF ApBack, bspVars, blockVars, wakeVars
  <2>3. num'[o] = o
    BY <1>3, <1>5, <2>2
  <2>4. PICK q : q = WakeUpManner(o)
    OBVIOUS
  <2>5. q \in LoopPc /\ q \in ProcPc /\ (LoopMode = "hlt" => q = "hlt")
    BY <2>4 DEF WakeUpManner, LoopPc, ProcPc
  <2>6. /\ pc'[o] = q /\ pc'[n] = pc[n] /\ \A p \in CPU \ {o} : pc'[p] = pc[p] /\ num'[p] = num[p]
        /\ pc' \in [CPU -> ProcPc] /\ num'[n] = num[n] /\ num' \in [CPU -> 0..BspStack]
        /\ proc' \in [CPU -> CallIds \cup {NULL, Swap}] /\ proc'[n] = proc[n]
    BY <1>3, <1>4, <1>5, <2>2, <2>3, <2>4, <2>5
  <2>7. Exchanges(o, n)'
    BY <1>2, <1>16, <2>1, <2>2, <2>3, <2>5, <2>6 DEF Exchanges, NewFirst, OldEnd, OldAfter, LoopPc
  <2> QED BY <1>1, <1>2, <1>4, <1>5, <2>2, <2>5, <2>6, <2>7, PlainStep
<1>17. CASE pc[o] \in LoopPc
  <2>1. num[o] = o /\ ~StartupApSignal[o] /\ pc[n] \in {"unload", "bsp"}
    BY <1>2, <1>17 DEF Exchanges, OldAfter, LoopPc
  <2>2. /\ UNCHANGED <<State, Procedure, WaitEvent, StartupApSignal, ReadyToBootFlag, ApLoopMode, proc, num, ran,
                       sysVars, roleVars, bsp, call, callVars, off>>
        /\ \E q \in LoopPc \cup {"enter"} :
             /\ pc' = [pc EXCEPT ![o] = q] /\ (q = "enter" => StartupApSignal[o])
             /\ LoopMode = "hlt" => q \notin {"armed", "sleep", "poll"}
    BY <1>3, <1>17, <2>1, LoopSteps
  <2>3. UNCHANGED <<LoopMode, BspNumber, Info, mBspSwitched, mNewProcessorNumber>>
    BY <2>2 DEF roleVars
  <2>4. PICK q \in LoopPc :
          pc' = [pc EXCEPT ![o] = q] /\ (LoopMode = "hlt" => q \notin {"armed", "sleep", "poll"})
    BY <2>1, <2>2
  <2>5. /\ pc'[o] = q /\ pc'[n] = pc[n] /\ \A p \in CPU \ {o} : pc'[p] = pc[p]
        /\ pc' \in [CPU -> ProcPc]
    BY <1>3, <1>5, <2>4 DEF ProcPc, WorkPc
  <2>6. Exchanges(o, n)'
    <3>1. pc[o] \notin {"bsp", "load", "unload", "clear", "flag", "number", "finish", "leave", "back"}
      BY <1>17 DEF LoopPc
    <3>2. pc'[o] \notin {"bsp", "load", "unload", "clear", "flag", "number", "finish", "leave", "back"}
      BY <2>5 DEF LoopPc
    <3>3. pc[n] \notin NewFirst
      BY <2>1 DEF NewFirst, LoopPc
    <3> QED BY <1>2, <1>17, <2>1, <2>2, <2>3, <2>5, <3>1, <3>2, <3>3 DEF Exchanges, OldEnd, OldAfter
  <2> QED BY <1>1, <1>2, <1>4, <1>5, <2>2, <2>3, <2>4, <2>5, <2>6, PlainStep
<1>18. pc[o] \in {"bsp", "load", "unload", "clear", "flag", "number", "finish", "leave", "back"} \cup LoopPc
  BY <1>2 DEF Exchanges, OldAfter, OldEnd
<1> QED BY <1>7, <1>8, <1>9, <1>11, <1>12, <1>13, <1>14, <1>15, <1>16, <1>17, <1>18

\* SwitchBSP ends: the AP is the BSP.
LEMMA SwitchDoneStrong ==
  ASSUME Strong, Inv', SwitchDone
  PROVE  Strong'
<1> USE DEF Strong
<1>1. PICK o, n, k : o = BspNumber /\ n = param[call].target /\ k = call
  OBVIOUS
<1>2. PICK s \in {"idle", "disabled"} : s = IF param[call].enable THEN "idle" ELSE "disabled"
  OBVIOUS
<1>3. /\ bsp = "switched" /\ Unlocked(o) /\ State[o] = "finished"
      /\ State' = [State EXCEPT ![o] = s] /\ BspNumber' = n
      /\ off' = IF s = "idle" THEN off \ {o} ELSE off \cup {o}
      /\ result' = [result EXCEPT ![k] = "success"] /\ bsp' = "free" /\ call' = NULL
      /\ UNCHANGED <<Procedure, WaitEvent, ApLoopMode, StartupApSignal, ReadyToBootFlag, CpuList, sysEvent, sysCall,
                     pc, proc, num, LoopMode, Info, mBspSwitched, mNewProcessorNumber, param, given, due,
                     failed, calls, ran>>
  BY <1>1, <1>2 DEF SwitchDone, OldBspFinished, wakeVars, sysVars, apVars
<1>4. /\ Switching /\ Exchanges(o, n) /\ NoneWaits /\ result[k] = "pending"
      /\ \A p \in AP \ {n} : Quiet(p)
  BY <1>1, <1>3 DEF Switching, SwitchInv
<1>5. /\ ~Checked /\ \A p \in CPU, j \in CallIds : ~Outstanding(p, j)
      /\ result[Bye] = "none" /\ k # Bye /\ k # NULL /\ k \in CallIds /\ Kind(k) = "switch"
      /\ \A p \in CPU : ReadyToBootFlag[p] = FALSE /\ ran[p][Bye] = 0
      /\ o \in CPU /\ n \in CPU /\ n # o
  BY <1>1, <1>4, WhileSwitching
<1>6. /\ pc[n] = "bsp" /\ num[n] = BspStack /\ State[n] = "busy"
      /\ pc[o] \in LoopPc \cup {"back"} /\ ~StartupApSignal[o]
      /\ num[o] = IF pc[o] \in LoopPc THEN o ELSE n
      /\ mBspSwitched = (pc[o] = "back") /\ (pc[o] = "back" => mNewProcessorNumber = o)
  <2>1. pc[n] = "bsp"
    BY <1>3, <1>4 DEF Exchanges
  <2>2. num[n] = BspStack /\ State[n] = "busy"
    BY <1>4, <2>1 DEF Exchanges, LoopPc
  <2>3. pc[o] # "leave"
    <3>1. pc[o] = "leave" => proc[o] = Swap
      BY <1>4 DEF Exchanges, LoopPc
    <3> QED BY <1>3, <1>5, <3>1 DEF Unlocked, HeldPc, Slot
  <2>4. pc[o] \in LoopPc \cup {"back"}
    BY <1>3, <1>4, <2>3 DEF Exchanges
  <2>5. pc[o] \notin {"bsp", "load", "number", "finish", "leave"}
    BY <2>4 DEF LoopPc
  <2>6. "back" \notin LoopPc /\ mBspSwitched \in BOOLEAN
    BY DEF LoopPc, Shapes
  <2> QED BY <1>4, <2>1, <2>2, <2>4, <2>5, <2>6 DEF Exchanges, OldEnd
<1>7. /\ State'[o] = s /\ \A p \in CPU \ {o} : State'[p] = State[p]
      /\ result'[k] = "success" /\ \A j \in CallIds \ {k} : result'[j] = result[j]
      /\ result' \in [CallIds -> Results]
  BY <1>3, <1>5 DEF Inv, Typing, Shapes, Results
<1>8. given[k] = {} /\ failed[k] = {}
  BY <1>4, <1>5 DEF CallInv, ReportInv
<1>9. /\ AP' = CPU \ {n} /\ \A p \in AP' \ {o} : p \in AP \ {n} /\ p \in CPU \ {o}
      /\ o \in AP' /\ n \notin AP' /\ AP' \subseteq CPU
  BY <1>1, <1>3, <1>5 DEF AP
<1>10. ~Switching' /\ \A j \in CallIds : Kind(j)' = Kind(j)
  BY <1>3 DEF Switching, Kind
<1>11. ~Checked' /\ \A p \in CPU, j \in CallIds : ~Outstanding(p, j)'
  <2>1. \A j \in CallIds : result'[j] = "pending" => result[j] = "pending"
    BY <1>7
  <2>2. sysCall # NULL => sysCall \in CallIds
    BY DEF Inv, Typing, CallIds
  <2>3. \A p \in CPU, j \in CallIds : ~Outstanding(p, j)'
    BY <1>3, <1>5, <1>10, <2>1 DEF Outstanding
  <2> QED BY <1>3, <1>5, <2>1, <2>2, <2>3 DEF Checked
<1>12. Shapes'
  <2>1. bsp' \in Services /\ off' \in SUBSET CPU
    BY <1>3, <1>5 DEF Services, Shapes
  <2> QED BY <1>3, <1>7, <2>1 DEF Shapes
<1>13. ParamInv'
  <2>1. \A j \in due : j \in CallIds /\ (result[j] # "none" => result'[j] # "none")
    BY <1>7, Numbers DEF Shapes
  <2> QED BY <1>3, <1>10, <2>1 DEF ParamInv
<1>14. HltInv'
  BY <1>3 DEF HltInv
<1>15. CallInv'
  <2>1. \A j \in CallIds : result'[j] = "none" => given'[j] = {} /\ \A p \in CPU : ran'[p][j] = 0
    BY <1>3, <1>7 DEF CallInv
  <2>2. \A j \in Ids : calls' < j => result'[j] = "none"
    BY <1>3, <1>4, <1>7, Numbers DEF CallInv
  <2>3. result'[Bye] = "none"
    BY <1>5, <1>7, Numbers
  <2>4. \A j \in CallIds : result'[j] # "pending"
    <3> SUFFICES ASSUME NEW j \in CallIds, result'[j] = "pending" PROVE FALSE
      OBVIOUS
    <3>1. result[j] = "pending" /\ j # k
      BY <1>7
    <3>2. \/ Kind(j) = "all" /\ j = sysCall
          \/ \E p \in AP : WaitEvent[p] = j
      BY <1>1, <1>3, <3>1 DEF CallInv
    <3>3. j # NULL /\ AP \subseteq CPU
      BY Numbers DEF AP
    <3> QED BY <1>4, <1>5, <3>1, <3>2, <3>3 DEF Checked, NoneWaits
  <2>5. \A p \in CPU : WaitEvent'[p] = NULL
    BY <1>3, <1>4 DEF NoneWaits
  <2> QED BY <1>3, <1>11, <2>1, <2>2, <2>3, <2>4, <2>5 DEF CallInv
<1>16. \A p \in AP' \ {o} : Quiet(p)'
  BY <1>3, <1>4, <1>7, <1>9 DEF Quiet
<1>17. ApInv'
  <2> SUFFICES ASSUME Normal'
               PROVE  /\ pc'[n] = "bsp" /\ num'[n] = BspStack /\ \A p \in AP' : ApFits(p)'
    BY <1>3 DEF ApInv
  <2>1. pc[o] \in LoopPc /\ num[o] = o
    BY <1>3, <1>6 DEF Normal
  <2>2. \A p \in AP' : Quiet(p)'
    BY <1>3, <1>6, <1>7, <1>9, <1>16, <2>1 DEF Quiet
  <2>3. ASSUME NEW p \in AP'
        PROVE  num'[p] = p /\ pc'[p] \in RestPc /\ StartupApSignal'[p] = FALSE /\ State'[p] \notin Working
    <3>1. Quiet(p)' /\ p \in CPU /\ StartupApSignal' \in [CPU -> BOOLEAN]
      BY <1>9, <1>12, <2>2 DEF Shapes
    <3> QED BY <3>1 DEF Quiet, RestPc, Working
  <2>4. ASSUME NEW p \in AP' PROVE ApFits(p)'
    <3>1. p \in CPU
      BY <1>9
    <3>2. \A j \in CallIds : ~Outstanding(p, j)'
      BY <1>11, <3>1
    <3> QED BY <2>3, <3>2 DEF ApFits
  <2> QED BY <1>3, <1>6, <2>4
<1>18. TailInv'
  <2> SUFFICES ASSUME mBspSwitched'
               PROVE  /\ NoneWaits' /\ pc'[n] = "bsp" /\ num'[n] = BspStack /\ mNewProcessorNumber' = o
                      /\ o # n /\ pc'[o] = "back" /\ num'[o] = n
                      /\ State'[o] \in {"idle", "disabled"} /\ ~StartupApSignal'[o]
    BY <1>3, <1>16 DEF TailInv
  <2>1. pc[o] = "back" /\ pc[o] \notin LoopPc
    BY <1>3, <1>6 DEF LoopPc
  <2> QED BY <1>3, <1>4, <1>5, <1>6, <1>7, <2>1 DEF NoneWaits
<1>19. SwitchInv'
  BY <1>10 DEF SwitchInv
<1>20. OffInv'
  <2>1. n \notin off'
    BY <1>3, <1>5, <1>6 DEF OffInv
  <2>2. \A p \in off' : State'[p] = "disabled"
    BY <1>3, <1>7, <1>12 DEF OffInv, Shapes
  <2>3. State'[n] # "finished"
    BY <1>5, <1>6, <1>7
  <2> QED BY <1>3, <2>1, <2>2, <2>3 DEF OffInv
<1>21. SingleInv'
  BY <1>11 DEF SingleInv
<1>22. ReportInv'
  BY <1>3, <1>7, <1>8, <1>11 DEF ReportInv
<1>23. BootInv'
  <2>1. call' # Bye
    BY <1>3, Numbers
  <2> QED BY <1>3, <2>1 DEF BootInv
<1> QED BY <1>12, <1>13, <1>14, <1>15, <1>17, <1>18, <1>19, <1>20, <1>21, <1>22, <1>23

\* The old BSP gets back to its loop, and takes the number and the stack of an AP.
LEMMA TailAp ==
  ASSUME Strong, Inv', ~Switching, mBspSwitched, NEW c \in CPU,
         ApStep(c) \/ ApRun(c) \/ ApBreak(c) \/ Exchange(c)
  PROVE  Strong'
<1> USE DEF Strong
<1>1. PICK o, b : o = mNewProcessorNumber /\ b = BspNumber
  OBVIOUS
<1>2. /\ bsp = "free" /\ NoneWaits /\ pc[b] = "bsp" /\ num[b] = BspStack
      /\ o # b /\ pc[o] = "back" /\ State[o] \in {"idle", "disabled"} /\ ~StartupApSignal[o]
      /\ \A p \in AP \ {o} : Quiet(p)
  BY <1>1 DEF TailInv
<1>3. o \in AP /\ AP = CPU \ {b} /\ b \in CPU
  BY <1>1, <1>2 DEF AP, Shapes, Inv, Typing
<1>4. ~Checked /\ \A p \in CPU, k \in CallIds : ~Outstanding(p, k)
  BY <1>2, NothingLeft
<1>5. result[Bye] = "none" /\ \A p \in CPU : ReadyToBootFlag[p] = FALSE
  BY <1>2, Numbers DEF CallInv, BootInv, Shapes
<1>6. c # b
  BY <1>2, StepAt
<1>7. /\ UNCHANGED <<State, Procedure, WaitEvent, StartupApSignal, ReadyToBootFlag, ApLoopMode, ran, CpuList,
                     sysEvent, sysCall, LoopMode, BspNumber, Info, mNewProcessorNumber, bsp, call, param,
                     given, result, due, failed, calls, off>>
      /\ \E q \in LoopPc : pc' = [pc EXCEPT ![c] = q] /\ (LoopMode = "hlt" => q \notin {"armed", "sleep", "poll"})
      /\ proc' \in [CPU -> CallIds \cup {NULL, Swap}]
      /\ IF c = o THEN mBspSwitched' = FALSE /\ num' = [num EXCEPT ![o] = o]
                  ELSE UNCHANGED <<mBspSwitched, num>>
  <2>1. CASE c = o
    <3>1. ApBack(o)
      BY <1>2, <2>1, StepAt
    <3>2. /\ pc' = [pc EXCEPT ![o] = WakeUpManner(num'[o])] /\ num' = [num EXCEPT ![o] = o]
          /\ proc' = [proc EXCEPT ![o] = NULL] /\ mBspSwitched' = FALSE
          /\ UNCHANGED <<State, Procedure, WaitEvent, StartupApSignal, ReadyToBootFlag, ApLoopMode, ran, CpuList,
                         sysEvent, sysCall, LoopMode, BspNumber, Info, mNewProcessorNumber, bsp, call, param,
                         given, result, due, failed, calls, off>>
      BY <1>1, <3>1 DEF ApBack, bspVars, blockVars, wakeVars, sysVars, callVars
    <3>3. PICK q : q = WakeUpManner(num'[o])
      OBVIOUS
    <3>4. q \in LoopPc /\ (LoopMode = "hlt" => q \notin {"armed", "sleep", "poll"})
      BY <3>3 DEF WakeUpManner, LoopPc
    <3>5. proc' \in [CPU -> CallIds \cup {NULL, Swap}]
      BY <3>2 DEF Shapes
    <3> QED BY <2>1, <3>2, <3>3, <3>4, <3>5
  <2>2. CASE c # o
    <3>1. Quiet(c) /\ ~ReadyToBootFlag[c]
      BY <1>2, <1>3, <1>5, <1>6, <2>2
    <3>2. pc[c] \in LoopPc /\ num[c] = c /\ ~StartupApSignal[c]
      BY <3>1 DEF Quiet
    <3>3. /\ UNCHANGED <<State, Procedure, WaitEvent, StartupApSignal, ReadyToBootFlag, ApLoopMode, proc, num, ran,
                         sysVars, roleVars, bsp, call, callVars, off>>
          /\ \E q \in LoopPc \cup {"enter"} :
               /\ pc' = [pc EXCEPT ![c] = q] /\ (q = "enter" => StartupApSignal[c])
               /\ LoopMode = "hlt" => q \notin {"armed", "sleep", "poll"}
      BY <3>1, <3>2, LoopSteps
    <3>4. proc' \in [CPU -> CallIds \cup {NULL, Swap}]
      BY <3>3 DEF Shapes
    <3>5. UNCHANGED <<CpuList, sysEvent, sysCall, LoopMode, BspNumber, Info, mBspSwitched, mNewProcessorNumber,
                      param, given, result, due, failed, calls>>
      BY <3>3 DEF sysVars, roleVars, callVars
    <3>6. \E q \in LoopPc : pc' = [pc EXCEPT ![c] = q] /\ (LoopMode = "hlt" => q \notin {"armed", "sleep", "poll"})
      BY <3>2, <3>3
    <3> QED BY <2>2, <3>3, <3>4, <3>5, <3>6
  <2> QED BY <2>1, <2>2
<1>8. PICK q \in LoopPc : pc' = [pc EXCEPT ![c] = q] /\ (LoopMode = "hlt" => q \notin {"armed", "sleep", "poll"})
  BY <1>7
<1>9. /\ pc'[c] = q /\ \A p \in CPU \ {c} : pc'[p] = pc[p]
      /\ pc' \in [CPU -> ProcPc]
  BY <1>8 DEF Shapes, ProcPc
<1>10. /\ \A p \in CPU \ {o} : num'[p] = num[p]
       /\ num' \in [CPU -> 0..BspStack] /\ (c = o => num'[o] = o) /\ mBspSwitched' = (c # o)
  <2>1. num \in [CPU -> 0..BspStack] /\ o \in CPU /\ o \in 0..BspStack /\ mBspSwitched = TRUE
    BY <1>3, Numbers DEF Shapes
  <2>2. CASE c = o
    BY <1>7, <2>1, <2>2
  <2>3. CASE c # o
    BY <1>7, <2>1, <2>3
  <2> QED BY <2>2, <2>3
<1>11. ~Switching' /\ AP' = AP /\ ~Checked' /\ \A p \in CPU, k \in CallIds : ~Outstanding(p, k)'
  BY <1>4, <1>7 DEF Switching, AP, Checked, Outstanding, Kind
<1>12. Shapes'
  BY <1>7, <1>9, <1>10 DEF Shapes
<1>13. ParamInv'
  BY <1>7 DEF ParamInv, Kind
<1>14. HltInv'
  BY <1>7, <1>8, <1>9 DEF HltInv
<1>15. CallInv'
  <2>1. \A k \in CallIds : result'[k] = "none" => given'[k] = {} /\ \A p \in CPU : ran'[p][k] = 0
    BY <1>7 DEF CallInv
  <2>2. \A k \in Ids : calls' < k => result'[k] = "none"
    BY <1>7 DEF CallInv
  <2>3. result'[Bye] = "none" /\ bsp' = "free" /\ (call' # NULL => Kind(call)' # "switch")
    BY <1>2, <1>5, <1>7 DEF CallInv, Kind
  <2>4. call' # NULL /\ Kind(call)' = "this" => param'[call'].target # BspNumber'
    BY <1>7 DEF CallInv, Kind
  <2>5. \A k \in CallIds : result'[k] = "pending" =>
       \/ Kind(k)' = "all" /\ k = sysCall'
       \/ /\ Kind(k)' = "this"
          /\ \E p \in AP' : given'[k] = {p} /\ (WaitEvent'[p] = k \/ (bsp' \in {"poll", "spin"} /\ call' = k))
       \/ Kind(k)' = "switch" /\ given'[k] = {} /\ bsp' \in {"switch", "switched"} /\ call' = k
    BY <1>7, <1>11 DEF CallInv, Kind
  <2>6. \A p \in CPU : WaitEvent'[p] = NULL
    BY <1>2, <1>7 DEF NoneWaits
  <2> QED BY <1>11, <2>1, <2>2, <2>3, <2>4, <2>5, <2>6 DEF CallInv
<1>16. \A p \in AP \ {o} : Quiet(p)'
  BY <1>2, <1>3, <1>7, <1>8, <1>9, <1>10 DEF Quiet
<1>17. ApInv'
  <2> SUFFICES ASSUME Normal'
               PROVE  /\ pc'[b] = "bsp" /\ num'[b] = BspStack /\ \A p \in AP : ApFits(p)'
    BY <1>1, <1>7, <1>11 DEF ApInv
  <2>1. c = o
    BY <1>10 DEF Normal
  <2>2. \A p \in AP : Quiet(p)'
    BY <1>2, <1>7, <1>8, <1>9, <1>10, <1>16, <2>1 DEF Quiet
  <2>3. ASSUME NEW p \in AP PROVE ApFits(p)'
    <3>1. Quiet(p)' /\ p \in CPU /\ StartupApSignal' \in [CPU -> BOOLEAN]
      BY <1>3, <1>12, <2>2 DEF Shapes
    <3>2. num'[p] = p /\ pc'[p] \in RestPc /\ StartupApSignal'[p] = FALSE /\ State'[p] \notin Working
      BY <3>1 DEF Quiet, RestPc, Working
    <3>3. \A k \in CallIds : ~Outstanding(p, k)'
      BY <1>11, <3>1
    <3> QED BY <3>2, <3>3 DEF ApFits
  <2> QED BY <1>2, <1>3, <1>6, <1>9, <1>10, <2>3
<1>18. TailInv'
  <2> SUFFICES ASSUME mBspSwitched'
               PROVE  /\ NoneWaits' /\ pc'[b] = "bsp" /\ num'[b] = BspStack /\ pc'[o] = "back" /\ num'[o] = b
    BY <1>1, <1>2, <1>7, <1>11, <1>16 DEF TailInv
  <2>1. c # o /\ num[o] = b
    BY <1>1, <1>10 DEF TailInv
  <2> QED BY <1>2, <1>3, <1>6, <1>7, <1>9, <2>1 DEF NoneWaits
<1>19. SwitchInv' /\ OffInv' /\ SingleInv'
  BY <1>7, <1>11 DEF SwitchInv, OffInv, SingleInv, Switching
<1>20. ReportInv'
  BY <1>7, <1>11 DEF ReportInv
<1>21. BootInv'
  <2>1. bsp' = "free" /\ call' # Bye
    BY <1>2, <1>7, Numbers DEF Inv, BspInv
  <2> QED BY <1>5, <1>7, <2>1 DEF BootInv
<1> QED BY <1>12, <1>13, <1>14, <1>15, <1>17, <1>18, <1>19, <1>20, <1>21

\* A step of the BSP.
LEMMA BspStepStrong ==
  ASSUME Strong, Inv', Careful, BspStep
  PROVE  Strong'
<1>1. CASE CheckAPsStatus \/ UpdateDone
  BY <1>1, UpdateStepsStrong
<1>2. CASE UpdateAll \/ UpdateThis
  BY <1>2, UpdateAllStrong, UpdateThisStrong
<1>3. CASE StartAllNotReady \/ StartAllNone \/ StartThisRefused
  BY <1>3, StartRefusedStrong
<1>4. CASE StartAll \/ StartThis
  BY <1>4, StartAllStrong, StartThisStrong
<1>5. CASE PollAll \/ PollThis
  BY <1>5, PollAllStrong, PollThisStrong
<1>6. CASE SwitchDone
  BY <1>6, SwitchDoneStrong
<1>7. CASE ChangeApLoopModeCallBack
  BY <1>7, ExitStrong
<1>8. CASE \E p \in CPU : ResetOrphansLock(p)
  BY <1>8, OrphanStrong
<1> QED BY <1>1, <1>2, <1>3, <1>4, <1>5, <1>6, <1>7, <1>8 DEF BspStep

\* A step of a processor: with its task or in its loop, in the exchange of roles, on
\* its way back from it.
LEMMA ApStrong ==
  ASSUME Strong, Inv', NEW c \in CPU, ApStep(c) \/ ApRun(c) \/ ApBreak(c) \/ Exchange(c)
  PROVE  Strong'
<1>1. CASE Normal
  BY <1>1, NormalAp
<1>2. CASE ~Switching /\ mBspSwitched
  BY <1>2, TailAp
<1>3. CASE Switching
  <2>1. CASE c = param[call].target
    BY <1>3, <2>1, NewBspSteps
  <2>2. CASE c = BspNumber
    BY <1>3, <2>2, OldBspSteps
  <2>3. CASE c \notin {BspNumber, param[call].target}
    <3>1. c \in AP \ {param[call].target}
      BY <2>3 DEF AP
    <3> QED BY <1>3, <3>1, OthersLoop
  <2> QED BY <2>1, <2>2, <2>3
<1> QED BY <1>1, <1>2, <1>3 DEF Normal

\* Every step of the system keeps all of it.
LEMMA StrongKept ==
  ASSUME Careful, TimeoutsInHlt, Strong, [Next]_vars
  PROVE  Strong'
<1>0. Inv'
  BY InvKept DEF Strong
<1>1. CASE BspStep
  BY <1>0, <1>1, BspStepStrong
<1>2. CASE \E r \in Wanted : Startup(r)
  BY <1>0, <1>2, StartupStrong
<1>3. CASE \E p \in CPU, b \in BOOLEAN : EnableDisableAP(p, b)
  BY <1>0, <1>3, EnableDisableStrong
<1>4. CASE \E r \in SwitchParams : SwitchBSP(r) \/ SwitchRefused(r)
  BY <1>0, <1>4, SwitchStrong, SwitchRefusedStrong
<1>5. CASE ExitBootServices
  BY <1>0, <1>5, ExitStrong
<1>6. CASE \E c \in CPU : ApStep(c) \/ ApRun(c) \/ ApBreak(c) \/ Exchange(c)
  BY <1>0, <1>6, ApStrong
<1>7. CASE \E k \in Ids : Expire(k)
  BY <1>0, <1>7, ExpireStrong
<1>8. CASE Idle \/ UNCHANGED vars
  BY <1>0, <1>8, UpdateStepsStrong DEF Idle
<1> QED BY <1>1, <1>2, <1>3, <1>4, <1>5, <1>6, <1>7, <1>8 DEF Next

\* It holds when the driver has been started.
LEMMA InitStrong == Init => Strong
<1> SUFFICES ASSUME Init PROVE Strong
  OBVIOUS
<1>1. Inv
  BY Initially
<1>2. /\ pc = [p \in CPU |-> IF p = 0 THEN "bsp" ELSE "hlt"] /\ BspNumber = 0 /\ 0 \in CPU
      /\ num = [p \in CPU |-> IF p = 0 THEN BspStack ELSE p] /\ State = [p \in CPU |-> "idle"]
      /\ StartupApSignal = [p \in CPU |-> FALSE] /\ ReadyToBootFlag = [p \in CPU |-> FALSE]
      /\ result = [k \in CallIds |-> "none"] /\ given = [k \in CallIds |-> {}] /\ due = {}
      /\ failed = [k \in CallIds |-> {}] /\ ran = [p \in CPU |-> [k \in CallIds |-> 0]]
      /\ param = [k \in CallIds |-> NoParam] /\ bsp = "free" /\ call = NULL /\ mBspSwitched = FALSE
      /\ WaitEvent = [p \in CPU |-> NULL] /\ sysCall = NULL /\ sysEvent = NULL /\ off = {}
      /\ ApLoopMode = [p \in CPU |-> "hlt"] /\ LoopMode \in DOMAIN Calls /\ mNewProcessorNumber = 0
  BY NumAssumption DEF Init, CallIds, CPU
<1>3. ~Switching /\ ~Checked /\ \A p \in CPU, k \in CallIds : ~Outstanding(p, k)
  BY <1>2 DEF Switching, Checked, Outstanding
<1>4. Shapes
  <2>1. num \in [CPU -> 0..BspStack] /\ BspStack \in 0..BspStack
    BY <1>2, Numbers
  <2>2. proc = [p \in CPU |-> NULL] /\ Procedure = [p \in CPU |-> NULL]
        /\ Info = [r \in {"bsp", "ap"} |-> [State |-> "idle", StackPointer |-> BspStack]]
    BY DEF Init
  <2> QED BY <1>2, <2>1, <2>2 DEF Shapes, ProcPc, LoopPc, Modes, Results, Services
<1>5. ParamInv /\ HltInv
  <2>1. "hlt" \notin {"armed", "sleep", "poll"} /\ "bsp" \notin {"armed", "sleep", "poll"}
    OBVIOUS
  <2> QED BY <1>2, <2>1, Numbers DEF ParamInv, HltInv, NoParam
<1>6. CallInv
  BY <1>2, <1>3, Numbers DEF CallInv
<1>7. ApInv
  <2>1. ASSUME NEW p \in AP PROVE ApFits(p)
    <3>1. p \in CPU /\ p # 0
      BY <1>2 DEF AP
    <3> QED BY <1>2, <1>3, <3>1 DEF ApFits, RestPc, LoopPc, Working
  <2> QED BY <1>2, <2>1 DEF ApInv
<1>8. TailInv /\ SwitchInv /\ OffInv /\ SingleInv
  BY <1>2, <1>3 DEF TailInv, SwitchInv, OffInv, SingleInv
<1>9. ReportInv /\ BootInv
  BY <1>2, <1>3, Numbers DEF ReportInv, BootInv
<1> QED BY <1>1, <1>4, <1>5, <1>6, <1>7, <1>8, <1>9 DEF Strong

\* No call of the boot phase is left when the OS starts, and none is left when the
\* callback of ExitBootServices has its own procedure executed.
BootedInv ==
  /\ call = Bye => \A p \in CPU : WaitEvent[p] = NULL
  /\ bsp = "booted" => NoneWaits

\* Every step keeps that.
LEMMA BootedKept ==
  ASSUME Strong, BootedInv, [Next]_vars
  PROVE  BootedInv'
<1> USE DEF Strong
<1>1. /\ bsp = "free" => call = NULL
      /\ bsp \in {"exit", "booted"} => call = NULL
      /\ bsp = "start" /\ Kind(call) = "all" => sysEvent = NULL
      /\ bsp = "poll" /\ Kind(call) = "all" => sysEvent = NULL
      /\ Kind(Bye) # "this" /\ ~param[Bye].event /\ NULL # Bye
  BY Numbers DEF Inv, BspInv, KindInv, ParamInv
<1>2. CASE /\ UNCHANGED <<WaitEvent, sysEvent>> /\ call' \in {call, NULL}
           /\ bsp' = "booted" => bsp = "booted" \/ (sysEvent = NULL /\ call = Bye)
  BY <1>1, <1>2 DEF BootedInv, NoneWaits
<1>3. CASE \/ CheckAPsStatus \/ UpdateDone \/ SwitchDone \/ (\E p \in CPU : ResetOrphansLock(p)) \/ ExitBootServices
           \/ (\E p \in CPU, b \in BOOLEAN : EnableDisableAP(p, b)) \/ (\E r \in SwitchParams : SwitchRefused(r))
           \/ (\E k \in Ids : Expire(k)) \/ Idle \/ UNCHANGED vars
  BY <1>2, <1>3 DEF CheckAPsStatus, UpdateDone, SwitchDone, ResetOrphansLock, ExitBootServices, EnableDisableAP,
     SwitchRefused, Expire, Idle, vars, blockVars, sysVars, bspVars, callVars
<1>4. CASE \E c \in CPU : ApStep(c) \/ ApRun(c) \/ ApBreak(c) \/ Exchange(c)
  <2>1. PICK c \in CPU : ApStep(c) \/ ApRun(c) \/ ApBreak(c) \/ Exchange(c)
    BY <1>4
  <2>2. CASE ApStep(c) \/ ApRun(c) \/ ApBreak(c)
    BY <1>2, <2>2 DEF ApStep, ApRun, ApBreak, ApLoop, ApMwait, ApPoll, ApBusy, ApFetch, ApClear, ApFlag, ApNumber,
       ApFinish, ApLeave, ApBack, ApUnchanged, blockVars, sysVars, bspVars
  <2>3. CASE Exchange(c)
    BY <1>2, <2>3 DEF Exchange, SwapStore, SwapLoad, SwapUnload, SwapUnchanged, sysVars
  <2> QED BY <2>1, <2>2, <2>3
<1>5. CASE UpdateAll
  BY <1>5 DEF UpdateAll, BootedInv
<1>6. CASE UpdateThis
  <2>1. bsp = "update" /\ bsp' = bsp /\ call' = call
    BY <1>6 DEF UpdateThis
  <2>2. \A p \in CPU : WaitEvent[p] = NULL => WaitEvent'[p] = NULL
    BY <1>6 DEF UpdateThis, Inv, Typing
  <2> QED BY <2>1, <2>2 DEF BootedInv
<1>7. CASE StartAllNotReady \/ StartAllNone
  BY <1>1, <1>2, <1>7 DEF StartAllNotReady, StartAllNone, Return, Kind, blockVars
<1>8. CASE StartAll
  <2>1. UNCHANGED WaitEvent /\ (call = Bye => bsp' = "poll") /\ call' \in {call, NULL} /\ bsp' # "booted"
    BY <1>1, <1>8 DEF StartAll, Return
  <2> QED BY <1>1, <2>1 DEF BootedInv
<1>9. CASE PollAll
  <2>1. UNCHANGED <<WaitEvent, sysEvent>> /\ sysEvent = NULL
    BY <1>1, <1>9 DEF PollAll, Kind
  <2>2. UNCHANGED <<bsp, call>> \/ Return
    BY <1>9 DEF PollAll
  <2> QED BY <1>2, <1>9, <2>1, <2>2 DEF PollAll, Return
<1>10. CASE StartThisRefused \/ StartThis \/ PollThis
  <2>1. Kind(call) = "this" /\ bsp # "booted"
    BY <1>10 DEF StartThisRefused, StartThis, PollThis, Kind
  <2>2. UNCHANGED <<bsp, call>> \/ Return \/ (bsp' = "poll" /\ UNCHANGED call)
    BY <1>10 DEF StartThisRefused, StartThis, PollThis
  <2>3. call # Bye /\ call' # Bye /\ bsp' # "booted"
    BY <1>1, <2>1, <2>2 DEF Return
  <2> QED BY <2>3 DEF BootedInv
<1>11. CASE ChangeApLoopModeCallBack
  <2>1. UNCHANGED WaitEvent /\ bsp' = "update" /\ bsp = "exit" /\ ~ApRunning
    BY <1>11 DEF ChangeApLoopModeCallBack, blockVars
  <2>2. ASSUME NEW p \in CPU, WaitEvent[p] # NULL PROVE FALSE
    <3>1. PICK k \in CallIds : k = WaitEvent[p]
      BY <2>2 DEF Inv, Typing, CallIds
    <3>2. result[k] = "pending" /\ given[k] = {p} /\ Kind(k) = "this" /\ State[p] \in Working
      BY <2>2, <3>1 DEF CallInv, Inv, KindInv
    <3>3. p \in AP
      BY <3>1, <3>2 DEF CallInv
    <3> QED BY <2>1, <3>2, <3>3 DEF ApRunning, Working
  <2> QED BY <2>1, <2>2 DEF BootedInv
<1>12. CASE \E r \in Wanted : Startup(r)
  <2>1. call' = calls + 1 /\ bsp' = "update" /\ calls < MaxCalls
    BY <1>12 DEF Startup
  <2>2. call' # Bye
    BY <2>1, NumAssumption DEF Bye, Inv, Typing
  <2> QED BY <2>1, <2>2 DEF BootedInv
<1>13. CASE \E r \in SwitchParams : SwitchBSP(r)
  <2>1. call' = calls + 1 /\ bsp' = "switch" /\ calls < MaxCalls
    BY <1>13 DEF SwitchBSP
  <2>2. call' # Bye
    BY <2>1, NumAssumption DEF Bye, Inv, Typing
  <2> QED BY <2>1, <2>2 DEF BootedInv
<1> QED BY <1>3, <1>4, <1>5, <1>6, <1>7, <1>8, <1>9, <1>10, <1>11, <1>12, <1>13 DEF Next, BspStep

-----------------------------------------------------------------------------
(* What follows.                                                           *)

\* Whose turn it is, by what goes on.
LEMMA OneOfThree == Normal \/ (~Switching /\ mBspSwitched) \/ Switching
BY DEF Normal

\* While no switch goes on, an AP at work works on the call that is outstanding on it.
LEMMA AtWork ==
  ASSUME Strong, Normal, NEW c \in CPU, pc[c] \in WorkPc
  PROVE  /\ c \in AP
         /\ \E k \in CallIds : /\ Outstanding(c, k) /\ (Procedure[c] # NULL => Procedure[c] = k)
                               /\ pc[c] = "run" => proc[c] = k
<1>1. pc[c] # "bsp" /\ pc[c] \notin RestPc /\ pc[c] # "leave" /\ pc[c] \notin LoopPc
  BY DEF WorkPc, RestPc, LoopPc
<1>2. c \in AP /\ State[c] \in Working /\ \E k \in CallIds : Outstanding(c, k) /\ Serves(c, k)
  BY <1>1, HasWork
<1>3. PICK k \in CallIds : Outstanding(c, k) /\ Serves(c, k)
  BY <1>2
<1>4. (Procedure[c] # NULL => Procedure[c] = k) /\ (pc[c] = "run" => proc[c] = k)
  BY <1>1, <1>2, <1>3 DEF Serves, Working
<1> QED BY <1>2, <1>3, <1>4

\* While one goes on only the two processors that exchange their roles are at work,
\* and the one that becomes the BSP on nothing else.
LEMMA AtWorkSwitching ==
  ASSUME Strong, ~Normal, NEW c \in CPU, pc[c] \in WorkPc
  PROVE  /\ Switching /\ c \in {BspNumber, param[call].target} /\ pc[c] # "run"
         /\ c # BspNumber => Procedure[c] = Swap /\ bsp = "switch"
<1> USE DEF Strong
<1>1. pc[c] # "bsp" /\ pc[c] # "back" /\ pc[c] \notin LoopPc /\ pc[c] \in {"enter", "fetch", "run", "clear", "finish"}
  BY DEF WorkPc, LoopPc
<1>2. Switching
  <2> SUFFICES ASSUME ~Switching PROVE FALSE
    OBVIOUS
  <2>1. mBspSwitched
    BY DEF Normal
  <2>2. c # BspNumber /\ c # mNewProcessorNumber
    BY <1>1, <2>1 DEF TailInv
  <2>3. c \in AP \ {mNewProcessorNumber}
    BY <2>2 DEF AP
  <2> QED BY <1>1, <2>1, <2>3 DEF TailInv, Quiet
<1>3. c \in {BspNumber, param[call].target}
  BY <1>1, <1>2 DEF SwitchInv, Quiet, AP
<1>4. PICK o, n : o = BspNumber /\ n = param[call].target
  OBVIOUS
<1>5. Exchanges(o, n) /\ n # o
  BY <1>2, <1>4 DEF SwitchInv
<1>6. CASE c = o
  <2>1. pc[o] # "run"
    BY <1>5 DEF Exchanges, OldAfter, OldEnd, LoopPc
  <2> QED BY <1>2, <1>3, <1>4, <1>6, <2>1
<1>7. CASE c = n
  <2>1. pc[n] \in {"enter", "fetch"} /\ pc[n] # "bsp"
    BY <1>1, <1>5, <1>7 DEF Exchanges
  <2>2. Procedure[n] = Swap /\ bsp = "switch"
    BY <1>5, <2>1 DEF Exchanges, NewFirst
  <2> QED BY <1>2, <1>3, <1>4, <1>7, <2>1, <2>2
<1> QED BY <1>3, <1>4, <1>6, <1>7

\* A processor that runs a procedure serves the call that is outstanding on it.
LEMMA RunsPending == Strong => RunsOnlyWhilePending
<1> SUFFICES ASSUME Strong, NEW c \in CPU, pc[c] = "run" PROVE result[proc[c]] = "pending"
  BY DEF RunsOnlyWhilePending
<1>1. pc[c] \in WorkPc
  BY DEF WorkPc
<1>2. Normal
  BY <1>1, AtWorkSwitching
<1> QED BY <1>1, <1>2, AtWork DEF Outstanding

\* An AP at work has a call outstanding, and so is ready, busy or finished.
LEMMA TrueStates == Strong => StatesTrue
<1> SUFFICES ASSUME Strong PROVE StatesTrue
  OBVIOUS
<1>1. ASSUME bsp # "switch", NEW p \in AP, State[p] = "idle", pc[p] \in WorkPc
      PROVE  FALSE
  <2>1. p \in CPU /\ p # BspNumber
    BY DEF AP
  <2>2. Normal
    BY <1>1, <2>1, AtWorkSwitching
  <2>3. pc[p] \notin RestPc /\ pc[p] # "bsp"
    BY <1>1 DEF WorkPc, RestPc, LoopPc
  <2>4. State[p] \in Working
    BY <2>1, <2>2, <2>3, HasWork
  <2> QED BY <1>1, <2>4 DEF Working
<1> QED BY <1>1 DEF StatesTrue, Strong, OffInv

\* The account of the calls says it of all of them.
LEMMA TrueReports == Strong => ReportsTrue
BY Numbers DEF Strong, ReportInv, ReportsTrue

\* Three cases: no exchange, an exchange, the way back from it.
LEMMA Apart == Strong => StacksApart
<1> SUFFICES ASSUME Strong PROVE StacksApart
  OBVIOUS
<1> USE DEF Strong
<1>1. BspNumber \in CPU /\ (\A p \in CPU : p # BspStack) /\ AP = CPU \ {BspNumber}
  BY Numbers DEF Inv, Typing, AP
<1>2. CASE Normal
  <2>1. /\ pc[BspNumber] = "bsp" /\ num[BspNumber] = BspStack
        /\ \A p \in CPU : p # BspNumber => num[p] = p
    BY <1>1, <1>2 DEF ApInv, ApFits
  <2>2. pc[BspNumber] \notin LoopPc
    BY <2>1 DEF LoopPc
  <2> QED BY <1>1, <2>1, <2>2 DEF StacksApart
<1>3. CASE ~Switching /\ mBspSwitched
  <2>1. PICK o : o = mNewProcessorNumber
    OBVIOUS
  <2>2. /\ pc[BspNumber] = "bsp" /\ num[BspNumber] = BspStack /\ pc[o] = "back" /\ num[o] = BspNumber
        /\ \A p \in CPU : p \notin {BspNumber, o} => num[p] = p
    BY <1>1, <1>3, <2>1 DEF TailInv, Quiet
  <2>3. pc[BspNumber] \notin LoopPc /\ pc[o] \notin LoopPc
    BY <2>2 DEF LoopPc
  <2> QED BY <1>1, <2>2, <2>3 DEF StacksApart
<1>4. CASE Switching
  <2>1. PICK o, n : o = BspNumber /\ n = param[call].target
    OBVIOUS
  <2>2. Exchanges(o, n) /\ o \in CPU /\ n \in CPU /\ n # o
    BY <1>4, <2>1, WhileSwitching DEF SwitchInv
  <2>3. \A p \in CPU : p \notin {o, n} => num[p] = p
    BY <1>1, <1>4, <2>1 DEF SwitchInv, Quiet
  <2>4. num[o] \in {BspStack, o, n} /\ num[n] \in {BspStack, n}
    BY <2>2 DEF Exchanges
  <2>5. pc[n] \in LoopPc => num[n] = n
    BY <2>2 DEF Exchanges, LoopPc
  <2>6. pc[o] \in LoopPc => num[o] = o
    BY <2>2 DEF Exchanges, LoopPc
  <2>7. ASSUME num[o] = num[n] PROVE pc[o] \in SwapPc /\ pc[n] \in SwapPc
    <3>1. CASE num[n] = BspStack
      <4>1. pc[n] \in {"unload", "bsp"}
        BY <1>1, <2>2, <3>1 DEF Exchanges
      <4>2. pc[o] \in {"bsp", "load"}
        BY <1>1, <2>2, <2>7, <3>1 DEF Exchanges
      <4>3. pc[o] = "load" /\ pc[n] = "unload"
        BY <2>2, <4>1, <4>2 DEF Exchanges
      <4> QED BY <4>3 DEF SwapPc
    <3>2. CASE num[n] = n
      <4>1. pc[n] \notin {"unload", "bsp"}
        BY <1>1, <2>2, <3>2 DEF Exchanges
      <4>2. pc[o] \notin {"bsp", "load"} \cup LoopPc
        BY <1>1, <2>2, <2>7, <3>2 DEF Exchanges, LoopPc
      <4>3. pc[o] = "unload" /\ pc[n] \notin NewFirst
        BY <2>2, <4>1, <4>2 DEF Exchanges
      <4>4. pc[n] = "load"
        BY <2>2, <4>1, <4>3 DEF Exchanges, NewFirst
      <4> QED BY <4>3, <4>4 DEF SwapPc
    <3> QED BY <2>4, <3>1, <3>2
  <2>8. ASSUME NEW c \in CPU, NEW d \in CPU, c # d, num[c] = num[d]
        PROVE  pc[c] \in SwapPc /\ pc[d] \in SwapPc
    <3>1. c \in {o, n} /\ d \in {o, n}
      BY <1>1, <2>2, <2>3, <2>4, <2>8
    <3> QED BY <2>7, <2>8, <3>1
  <2>9. ASSUME NEW c \in CPU, pc[c] \in LoopPc PROVE num[c] = c
    BY <2>3, <2>5, <2>6, <2>9
  <2> QED BY <2>8, <2>9 DEF StacksApart
<1> QED BY <1>2, <1>3, <1>4, OneOfThree

\* Only the AP whose turn it is can be at work for a single-threaded call.
LEMMA OneOnly == Strong => OneAtATime
<1> SUFFICES ASSUME Strong, NEW k \in Ids, param[k].single
             PROVE  Cardinality({p \in given[k] : pc[p] \in WorkPc /\ Procedure[p] = k}) <= 1
  BY DEF OneAtATime
<1> DEFINE W == {p \in given[k] : pc[p] \in WorkPc /\ Procedure[p] = k}
<1>1. k \in CallIds /\ k # NULL /\ k # Swap /\ W \subseteq CPU
  BY Numbers DEF Strong, Shapes
<1>2. Kind(k) = "all"
  BY <1>1 DEF Strong, ParamInv
<1>3. \E a : W \subseteq {a}
  <2>1. CASE Normal
    <3>1. ASSUME NEW p \in W PROVE Outstanding(p, k) /\ p \in CpuList /\ Checked /\ k = sysCall /\ pc[p] \notin RestPc
      <4>1. p \in CPU /\ pc[p] \in WorkPc /\ Procedure[p] = k
        BY <1>1
      <4>2. Outstanding(p, k)
        BY <1>1, <2>1, <4>1, AtWork
      <4>3. pc[p] \notin RestPc
        BY <4>1 DEF WorkPc, RestPc, LoopPc
      <4> QED BY <1>1, <1>2, <4>2, <4>3, OnAp DEF Strong, Outstanding
    <3>2. CASE W = {}
      BY <3>2
    <3>3. CASE W # {}
      <4>1. Checked /\ k = sysCall
        BY <3>1, <3>3
      <4>2. PICK a \in CPU : \A p \in CpuList \ {a} : WaitsTurn(p)
        BY <4>1 DEF Strong, SingleInv
      <4> QED BY <3>1, <4>2 DEF WaitsTurn
    <3> QED BY <3>2, <3>3
  <2>2. CASE ~Normal
    <3>1. \A p \in W : p = BspNumber
      BY <1>1, <2>2, AtWorkSwitching
    <3> QED BY <3>1
  <2> QED BY <2>1, <2>2
<1>4. PICK a : W \subseteq {a}
  BY <1>3
<1>5. IsFiniteSet({a}) /\ Cardinality({a}) = 1
  BY FS_Singleton
<1>6. Cardinality(W) <= Cardinality({a})
  BY <1>4, <1>5, FS_Subset
<1> QED BY <1>5, <1>6

\* All APs have run the last procedure, and none has a task left.
LEMMA Parked == Strong /\ BootedInv => ParkedAtBoot
<1> SUFFICES ASSUME Strong, BootedInv, bsp = "booted", NEW p \in Enabled
             PROVE  ReadyToBootFlag[p] /\ pc[p] \in {"leave", "back", "loop", "hlt"}
  BY DEF ParkedAtBoot
<1> USE DEF Strong
<1>1. p \in CPU /\ p \in AP /\ Bye \in CallIds
  BY Numbers DEF Enabled, AP
<1>2. Normal /\ NoneWaits /\ result[Bye] = "success" /\ given[Bye] = Enabled
  BY DEF Normal, Switching, BootInv, BootedInv
<1>3. failed[Bye] = {} /\ ran[p][Bye] = 1
  BY <1>1, <1>2 DEF ReportInv
<1>4. ReadyToBootFlag[p] /\ pc[p] \in {"clear", "finish", "leave", "back", "loop", "hlt"}
  BY <1>1, <1>3 DEF BootInv
<1>5. \A k \in CallIds : ~Outstanding(p, k)
  BY <1>1, <1>2, NothingLeft
<1>6. pc[p] \in RestPc
  BY <1>1, <1>2, <1>5 DEF ApInv, ApFits
<1> QED BY <1>4, <1>6 DEF RestPc, LoopPc

-----------------------------------------------------------------------------
\* The invariant.
LEMMA StrongAlways == ASSUME Careful, TimeoutsInHlt PROVE Spec => [](Strong /\ BootedInv)
<1>1. Init => Strong /\ BootedInv
  <2>1. Init => BootedInv
    BY Numbers DEF Init, BootedInv
  <2> QED BY <2>1, InitStrong
<1>2. (Strong /\ BootedInv) /\ [Next]_vars => (Strong /\ BootedInv)'
  BY StrongKept, BootedKept
<1> QED BY <1>1, <1>2, PTL DEF Spec

\* Two processors are on one stack only while they exchange their roles
\* (AsmExchangeRole), and an AP in its loop is on its own stack by its own
\* number, through any sequence of calls of SwitchBSP.
THEOREM StacksAlwaysApart == ASSUME Careful, TimeoutsInHlt PROVE Spec => []StacksApart
BY StrongAlways, Apart, PTL

\* An AP whose CpuData says Idle is in its loop without a task, unless it is
\* becoming the BSP, and one that EnableDisableAP or SwitchBSP has disabled stays
\* Disabled: nothing is ever put in the place of a procedure in progress.
THEOREM StatesAlwaysTrue == ASSUME Careful, TimeoutsInHlt PROVE Spec => []StatesTrue
BY StrongAlways, TrueStates, PTL

\* No processor runs the procedure of a call that has been reported done or timed
\* out: ResetProcessorToIdleState ends it for good, with TimeoutsInHlt.
THEOREM NeverRunsInVain == ASSUME Careful, TimeoutsInHlt PROVE Spec => []RunsOnlyWhilePending
BY StrongAlways, RunsPending, PTL

\* When CheckAllAPs or CheckThisAP reports success, or a timeout of other APs, every
\* AP that the call was given to has run its procedure exactly once.
THEOREM ReportsAlwaysTrue == ASSUME Careful, TimeoutsInHlt PROVE Spec => []ReportsTrue
BY StrongAlways, TrueReports, PTL

\* StartupAllAPs in single-thread mode: at most one AP has the procedure at any
\* time, the next one gets it from CheckAllAPs.
THEOREM AlwaysOneAtATime == ASSUME Careful, TimeoutsInHlt PROVE Spec => []OneAtATime
BY StrongAlways, OneOnly, PTL

\* When ChangeApLoopModeCallBack is done and the OS starts, every enabled AP has run
\* ChangeApLoopMode and waits in its last loop or is on its way to it.
THEOREM AlwaysParkedAtBoot == ASSUME Careful, TimeoutsInHlt PROVE Spec => []ParkedAtBoot
BY StrongAlways, Parked, PTL
-----------------------------------------------------------------------------
(* The refinement of MpCalls.                                              *)

\* What the protocol speaks of.
Visible == <<result, given, failed, ran, BspNumber, off>>

\* An AP is disabled only by the caller.
OnlyOff == \A p \in CPU : State[p] = "disabled" => p \in off

\* An AP that no call is outstanding on owes no call anything.
LEMMA OwesNothing ==
  ASSUME Strong, NEW p \in CPU, \A k \in CallIds : ~Outstanding(p, k)
  PROVE  Protocol!Free(p)
<1> SUFFICES ASSUME NEW k \in CallIds, Protocol!Owes(p, k) PROVE FALSE
  BY DEF Protocol!Free, CallIds
<1>1. result[k] = "pending" /\ p \in given[k] /\ ran[p][k] = 0
  BY DEF Protocol!Owes
<1>2. Kind(k) = "all" /\ p \notin CpuList
  BY <1>1 DEF Outstanding
<1>3. k = sysCall /\ k # NULL
  BY <1>1, <1>2, Numbers DEF Strong, CallInv
<1>4. Checked
  BY <1>1, <1>3 DEF Checked
<1> QED BY <1>1, <1>2, <1>3, <1>4 DEF Strong, ReportInv

\* The last call is made when the BSP waits for it.
LEMMA StillInService ==
  ASSUME Strong, ~(bsp = "poll" /\ call = Bye), bsp # "booted"
  PROVE  Protocol!InService
BY DEF Strong, CallInv, Protocol!InService

\* A call that is answered has been executed by those that it reports on.
LEMMA AnswerMaps ==
  ASSUME Strong, Strong', NEW k \in CallIds, result[k] = "pending",
         UNCHANGED <<given, ran, BspNumber, off>>,
         \/ result' = [result EXCEPT ![k] = "success"] /\ UNCHANGED failed
         \/ /\ Protocol!InService /\ result' = [result EXCEPT ![k] = "timeout"]
            /\ \E late \in SUBSET given[k] : late # {} /\ failed' = [failed EXCEPT ![k] = late]
  PROVE  Protocol!Next
<1>1. result'[k] \in {"success", "timeout"} => \A p \in given[k] \ failed'[k] : ran[p][k] = 1
  BY DEF Strong, ReportInv
<1>2. result \in [CallIds -> Results] /\ failed \in [CallIds -> SUBSET CPU] /\ given[k] \in SUBSET CPU
  BY DEF Strong, Shapes
<1>3. CASE result' = [result EXCEPT ![k] = "success"] /\ UNCHANGED failed
  <2>1. result'[k] = "success"
    BY <1>2, <1>3
  <2>2. failed'[k] = {}
    BY <2>1 DEF Strong, ReportInv
  <2>3. Protocol!Succeed(k)
    BY <1>1, <1>3, <2>1, <2>2 DEF Protocol!Succeed, Protocol!Report
  <2> QED BY <2>3 DEF Protocol!Next, CallIds
<1>4. ASSUME Protocol!InService, result' = [result EXCEPT ![k] = "timeout"],
             NEW late \in SUBSET given[k], late # {}, failed' = [failed EXCEPT ![k] = late]
      PROVE  Protocol!Next
  <2>1. result'[k] = "timeout" /\ failed'[k] = late
    BY <1>2, <1>4
  <2>2. Protocol!TimeOut(k, late) /\ late \in SUBSET CPU
    BY <1>1, <1>2, <1>4, <2>1 DEF Protocol!TimeOut, Protocol!Report
  <2> QED BY <2>2 DEF Protocol!Next, CallIds
<1> QED BY <1>3, <1>4

\* CheckAllAPs leaves what the protocol speaks of alone, or answers.
LEMMA CheckAllMaps ==
  ASSUME Strong, Strong', Checked, CheckAll, sysCall \in due => Protocol!InService,
         UNCHANGED <<given, ran, BspNumber, off>>
  PROVE  Protocol!Next \/ UNCHANGED Visible
<1>1. sysCall \in CallIds /\ result[sysCall] = "pending"
  BY DEF Checked, Strong, Inv, Typing, CallIds
<1>2. CASE AllNotReady
  BY <1>2 DEF AllNotReady, Visible
<1>3. CASE AllFinished
  BY <1>1, <1>3, AnswerMaps DEF AllFinished
<1>4. CASE AllTimeout
  <2>1. PICK seen \in SUBSET Finished :
          /\ FinishCount + Cardinality(seen) # StartCount /\ sysCall \in due
          /\ result' = [result EXCEPT ![sysCall] = "timeout"]
          /\ failed' = [failed EXCEPT ![sysCall] = CpuList \ seen]
    BY <1>4 DEF AllTimeout
  <2>2. CpuList \ seen # {}
    <3> SUFFICES ASSUME CpuList \ seen = {} PROVE FALSE
      OBVIOUS
    <3>1. seen = CpuList
      BY DEF Finished
    <3> QED BY <2>1, <3>1 DEF Strong, Inv, CheckedInv
  <2>3. CpuList \ seen \in SUBSET given[sysCall]
    BY DEF Strong, CallInv
  <2> QED BY <1>1, <2>1, <2>2, <2>3, AnswerMaps
<1> QED BY <1>2, <1>3, <1>4 DEF CheckAll

\* So does CheckThisAP.
LEMMA CheckThisMaps ==
  ASSUME Strong, Strong', NEW k \in CallIds, NEW p, result[k] = "pending", given[k] = {p},
         ThisNotReady(p, k) \/ ThisFinished(p, k) \/ ThisTimeout(p, k), Protocol!InService,
         UNCHANGED <<given, ran, BspNumber, off>>
  PROVE  Protocol!Next \/ UNCHANGED Visible
<1>1. CASE ThisNotReady(p, k)
  BY <1>1 DEF ThisNotReady, Visible, apVars
<1>2. CASE ThisFinished(p, k)
  BY <1>2, AnswerMaps DEF ThisFinished
<1>3. CASE ThisTimeout(p, k)
  <2>1. result' = [result EXCEPT ![k] = "timeout"] /\ failed' = [failed EXCEPT ![k] = {p}]
    BY <1>3 DEF ThisTimeout
  <2>2. {p} \in SUBSET given[k] /\ {p} # {}
    OBVIOUS
  <2> QED BY <2>1, <2>2, AnswerMaps
<1> QED BY <1>1, <1>2, <1>3

\* CheckAndUpdateAPsStatus and the loops that wait for a call.
LEMMA ChecksMap ==
  ASSUME Strong, Strong', UpdateAll \/ UpdateThis \/ PollAll \/ PollThis
  PROVE  Protocol!Next \/ UNCHANGED Visible
<1> USE DEF Strong
<1>1. UNCHANGED <<given, ran, BspNumber, off, param>>
  BY DEF UpdateAll, UpdateThis, PollAll, PollThis, roleVars
<1>2. CASE UpdateAll
  <2>1. CASE sysEvent = NULL
    BY <1>1, <1>2, <2>1 DEF UpdateAll, Visible
  <2>2. CASE sysEvent # NULL
    <3>1. Checked /\ CheckAll
      BY <1>2, <2>2 DEF UpdateAll, CheckAll, Inv, KindInv
    <3>2. Protocol!InService
      BY <1>2, StillInService DEF UpdateAll
    <3> QED BY <1>1, <3>1, <3>2, CheckAllMaps
  <2> QED BY <2>1, <2>2
<1>3. CASE PollAll
  <2>1. bsp = "poll" /\ Kind(call) = "all" /\ CheckAll
    BY <1>3 DEF PollAll, CheckAll, Kind
  <2>2. call = sysCall /\ Checked
    BY <2>1 DEF Inv, BspInv
  <2>3. sysCall \in due => Protocol!InService
    <3> SUFFICES ASSUME sysCall \in due PROVE call # Bye
      BY <2>1, <2>2, StillInService
    <3> QED BY <2>2, Numbers DEF Shapes
  <2> QED BY <1>1, <2>1, <2>2, <2>3, CheckAllMaps
<1>4. CASE UpdateThis
  <2>1. PICK p : p = Min(Waiting)
    OBVIOUS
  <2>0. /\ p \in CPU /\ WaitEvent[p] # NULL
        /\ ThisNotReady(p, WaitEvent[p]) \/ ThisFinished(p, WaitEvent[p]) \/ ThisTimeout(p, WaitEvent[p])
    <3>1. Waiting # {} /\ Waiting \subseteq CPU /\ \A q \in Waiting : WaitEvent[q] # NULL
      BY <1>4 DEF UpdateThis, Waiting
    <3>2. p \in Waiting
      <4>1. Waiting \in SUBSET Nat
        BY <3>1, NumAssumption DEF CPU
      <4> QED BY <2>1, <3>1, <4>1, Minimum, Zenon DEF Min
    <3> QED BY <1>4, <2>1, <3>1, <3>2 DEF UpdateThis
  <2>2. PICK k : k = WaitEvent[p]
    OBVIOUS
  <2>3. result[k] = "pending" /\ given[k] = {p} /\ k \in CallIds
    BY <2>0, <2>2, Numbers DEF CallInv, Inv, Typing
  <2>4. Protocol!InService
    BY <1>4, StillInService DEF UpdateThis
  <2> QED BY <1>1, <2>0, <2>2, <2>3, <2>4, CheckThisMaps
<1>5. CASE PollThis
  <2>1. PICK p : p = param[call].target
    OBVIOUS
  <2>2. /\ bsp = "poll" /\ Kind(call) = "this"
        /\ ThisNotReady(p, call) \/ ThisFinished(p, call) \/ ThisTimeout(p, call)
    BY <1>5, <2>1 DEF PollThis, Kind
  <2>3. result[call] = "pending" /\ given[call] = {p} /\ call # Bye
    BY <2>1, <2>2 DEF CallInv, Inv, KindInv
  <2>4. call \in CallIds
    BY <2>2, TargetInCPU DEF Inv, BspInv, CallIds
  <2>5. Protocol!InService
    BY <2>2, <2>3, StillInService
  <2> QED BY <1>1, <2>2, <2>3, <2>4, <2>5, CheckThisMaps
<1> QED BY <1>2, <1>3, <1>4, <1>5

\* An AP is idle or disabled: it owes nothing.
LEMMA RestingIsFree ==
  ASSUME Strong, ~Switching, NEW p \in AP, State[p] \in {"idle", "disabled"}
  PROVE  Protocol!Free(p)
<1> USE DEF Strong
<1>1. p \in CPU
  BY DEF AP
<1>2. CASE Normal
  <2>1. \A k \in CallIds : ~Outstanding(p, k)
    BY <1>2 DEF ApInv, ApFits, Working
  <2> QED BY <1>1, <2>1, OwesNothing
<1>3. CASE ~Normal
  <2>1. bsp = "free" /\ NoneWaits
    BY <1>3 DEF Normal, TailInv
  <2> QED BY <1>1, <2>1, NothingLeft, OwesNothing
<1> QED BY <1>2, <1>3

\* A call is refused.
LEMMA RefusalMaps ==
  ASSUME Strong, NEW k \in CallIds, result[k] = "none", k # Bye, Protocol!InService,
         result' = [result EXCEPT ![k] = "notready"], UNCHANGED <<given, failed, ran, BspNumber, off>>
  PROVE  Protocol!Next
<1>1. Protocol!Refuse(k)
  BY DEF Protocol!Refuse, Protocol!Report
<1> QED BY <1>1 DEF Protocol!Next, CallIds

LEMMA RefusalsMap ==
  ASSUME Strong, StartAllNotReady \/ StartThisRefused \/ \E r \in SwitchParams : SwitchRefused(r)
  PROVE  Protocol!Next
<1> USE DEF Strong
<1>1. CASE StartAllNotReady \/ StartThisRefused
  <2>1. /\ bsp = "start" /\ call # NULL /\ result' = [result EXCEPT ![call] = "notready"]
        /\ UNCHANGED <<given, failed, ran, BspNumber, off>>
    BY <1>1 DEF StartAllNotReady, StartThisRefused, Inv, BspInv, roleVars
  <2>2. result[call] = "none" /\ call \in CallIds
    BY <2>1, NumAssumption DEF CallInv, Inv, Typing, CallIds, Ids
  <2>3. call # Bye
    <3>1. CASE StartAllNotReady
      <4>1. PICK p \in AP : State[p] # "disabled" /\ State[p] # "idle"
        BY <3>1 DEF StartAllNotReady, NotIdle, Enabled
      <4> QED BY <2>1, <4>1 DEF BootInv
    <3>2. CASE StartThisRefused
      BY <3>2 DEF StartThisRefused, Inv, KindInv, Kind
    <3> QED BY <1>1, <3>1, <3>2
  <2>4. Protocol!InService
    BY <2>1, StillInService
  <2> QED BY <2>1, <2>2, <2>3, <2>4, RefusalMaps
<1>2. ASSUME NEW r \in SwitchParams, SwitchRefused(r) PROVE Protocol!Next
  <2>1. /\ bsp = "free" /\ calls < MaxCalls /\ result' = [result EXCEPT ![calls + 1] = "notready"]
        /\ UNCHANGED <<given, failed, ran, BspNumber, off>>
    BY <1>2 DEF SwitchRefused, roleVars
  <2>2. calls + 1 \in Ids /\ calls < calls + 1
    BY <2>1, NumAssumption DEF Inv, Typing, Ids
  <2>3. result[calls + 1] = "none"
    BY <2>2 DEF CallInv
  <2>4. Protocol!InService
    BY <2>1, StillInService
  <2> QED BY <2>1, <2>2, <2>3, <2>4, Numbers, RefusalMaps
<1> QED BY <1>1, <1>2

\* A call is given to a team.
LEMMA BeginMaps ==
  ASSUME Strong, NEW k \in CallIds, result[k] = "none", Protocol!InService, NEW S \in SUBSET AP,
         result' = [result EXCEPT ![k] = "pending"],
         given' = [given EXCEPT ![k] = S], UNCHANGED <<failed, ran, BspNumber, off>>,
         \A p \in S : State[p] # "disabled" /\ Protocol!Free(p),
         k = Bye => S = CPU \ (off \cup {BspNumber}) /\ \A p \in CPU : Protocol!Free(p)
  PROVE  Protocol!Next
<1>1. S \cap (off \cup {BspNumber}) = {} /\ S \in SUBSET CPU
  BY DEF AP, Strong, OffInv
<1>2. Protocol!Begin(k, S)
  BY <1>1 DEF Protocol!Begin, Protocol!Report
<1> QED BY <1>1, <1>2 DEF Protocol!Next, CallIds

LEMMA StartAllMaps ==
  ASSUME Strong, OnlyOff, StartAll \/ StartAllNone
  PROVE  Protocol!Next
<1> USE DEF Strong
<1>1. /\ bsp = "start" /\ call # NULL /\ Kind(call) = "all"
      /\ UNCHANGED <<failed, ran, BspNumber, off>>
  BY DEF StartAll, StartAllNone, Inv, BspInv, roleVars, Kind
<1>2. result[call] = "none" /\ call \in CallIds
  BY <1>1, NumAssumption DEF CallInv, Inv, Typing, CallIds, Ids
<1>3. Protocol!InService
  BY <1>1, StillInService
<1>4. Enabled = CPU \ (off \cup {BspNumber})
  BY DEF Enabled, AP, OnlyOff, OffInv, Shapes
<1>5. CASE StartAll
  <2>1. NotIdle = {} /\ result' = [result EXCEPT ![call] = "pending"]
        /\ given' = [given EXCEPT ![call] = Enabled]
    BY <1>5 DEF StartAll
  <2>2. \A p \in Enabled : p \in AP /\ State[p] = "idle"
    BY <2>1 DEF NotIdle, Enabled
  <2>3. ~Switching
    BY <1>1 DEF Switching
  <2>4. \A p \in AP : State[p] = "idle" \/ State[p] = "disabled"
    BY <2>2 DEF Enabled
  <2>5. \A p \in AP : Protocol!Free(p)
    BY <2>3, <2>4, RestingIsFree
  <2>6. Protocol!Free(BspNumber)
    <3>1. BspNumber \in CPU /\ \A k \in CallIds : ~Outstanding(BspNumber, k)
      BY OnAp DEF Inv, Typing, AP
    <3> QED BY <3>1, OwesNothing
  <2>7. \A p \in CPU : Protocol!Free(p)
    BY <2>5, <2>6 DEF AP
  <2>8. Enabled \in SUBSET AP /\ \A p \in Enabled : State[p] # "disabled"
    BY DEF Enabled
  <2> QED BY <1>1, <1>2, <1>3, <1>4, <2>1, <2>7, <2>8, BeginMaps
<1>6. CASE StartAllNone
  <2>1. Enabled = {} /\ result' = [result EXCEPT ![call] = "success"] /\ UNCHANGED given
    BY <1>6 DEF StartAllNone
  <2>2. CPU = off \cup {BspNumber}
    BY <1>4, <2>1 DEF Shapes, Inv, Typing
  <2>3. Protocol!Vacuous(call)
    BY <1>1, <1>2, <1>3, <2>1, <2>2 DEF Protocol!Vacuous, Protocol!Report
  <2> QED BY <1>2, <2>3 DEF Protocol!Next, CallIds
<1> QED BY <1>5, <1>6

LEMMA StartThisMaps ==
  ASSUME Strong, StartThis
  PROVE  Protocol!Next
<1> USE DEF Strong
<1> DEFINE p == param[call].target
<1>1. /\ bsp = "start" /\ call # NULL /\ Kind(call) = "this" /\ State[p] = "idle"
      /\ UNCHANGED <<failed, ran, BspNumber, off>>
      /\ result' = [result EXCEPT ![call] = "pending"] /\ given' = [given EXCEPT ![call] = {p}]
  BY DEF StartThis, Accepts, Inv, BspInv, roleVars, Kind
<1>2. p \in CPU /\ call \in CallIds
  BY <1>1, TargetInCPU DEF Inv, CallIds
<1>3. p \in AP /\ result[call] = "none" /\ call # Bye
  BY <1>1, <1>2 DEF CallInv, AP, Inv, KindInv
<1> HIDE DEF p
<1>4. Protocol!InService
  BY <1>1, StillInService
<1>5. Protocol!Free(p)
  BY <1>1, <1>3, RestingIsFree DEF Switching
<1>6. {p} \in SUBSET AP /\ \A q \in {p} : State[q] # "disabled" /\ Protocol!Free(q)
  BY <1>1, <1>3, <1>5
<1> QED BY <1>1, <1>2, <1>3, <1>4, <1>6, BeginMaps

\* SwitchBSP: a call without a team.
LEMMA SwitchMaps ==
  ASSUME Strong, NEW r \in SwitchParams, SwitchBSP(r)
  PROVE  Protocol!Next
<1> USE DEF Strong
<1>1. /\ bsp = "free" /\ calls < MaxCalls /\ result' = [result EXCEPT ![calls + 1] = "pending"]
      /\ UNCHANGED <<given, failed, ran, BspNumber, off>>
  BY DEF SwitchBSP
<1>2. calls + 1 \in Ids /\ calls < calls + 1
  BY <1>1, NumAssumption DEF Inv, Typing, Ids
<1>3. result[calls + 1] = "none"
  BY <1>2 DEF CallInv
<1>4. given[calls + 1] = {}
  BY <1>2, <1>3, Numbers DEF CallInv
<1>5. given' = [given EXCEPT ![calls + 1] = {}]
  BY <1>1, <1>4 DEF Shapes
<1>6. Protocol!InService
  BY <1>1, StillInService
<1>7. {} \in SUBSET AP /\ calls + 1 \in CallIds /\ calls + 1 # Bye
  BY <1>2, Numbers
<1> QED BY <1>1, <1>3, <1>5, <1>6, <1>7, BeginMaps

\* The end of SwitchBSP.
LEMMA SwitchDoneMaps ==
  ASSUME Strong, SwitchDone
  PROVE  Protocol!Next
<1> USE DEF Strong
<1> DEFINE n == param[call].target
<1>1. /\ bsp = "switched" /\ result' = [result EXCEPT ![call] = "success"] /\ BspNumber' = n
      /\ off' = off \ {BspNumber} \/ off' = off \cup {BspNumber}
      /\ UNCHANGED <<given, failed, ran>>
  BY DEF SwitchDone
<1>2. /\ Kind(call) = "switch" /\ call # NULL /\ NoneWaits /\ result[call] = "pending"
      /\ n # BspNumber /\ Exchanges(BspNumber, n)
  BY <1>1 DEF Switching, SwitchInv, Inv, BspInv
<1>3. n \in CPU /\ call \in CallIds
  BY <1>2, TargetInCPU DEF Inv, CallIds
<1>4. given[call] = {}
  BY <1>2, <1>3 DEF CallInv
<1>5. n \notin off
  <2>1. pc[n] = "bsp"
    BY <1>1, <1>2 DEF Exchanges
  <2>2. pc[n] \notin LoopPc \cup {"enter"}
    BY <2>1 DEF LoopPc
  <2>3. State[n] = "busy"
    BY <1>2, <2>1, <2>2 DEF Exchanges
  <2> QED BY <2>3 DEF OffInv
<1> HIDE DEF n
<1>6. Protocol!InService
  BY <1>1, StillInService
<1>7. \A q \in CPU : Protocol!Free(q)
  BY <1>1, <1>2, NothingLeft, OwesNothing
<1>8. off' \in {off, off \cup {BspNumber}}
  BY <1>1 DEF OffInv
<1>9. Protocol!HandOver(call, n)
  BY <1>1, <1>2, <1>3, <1>4, <1>5, <1>6, <1>7, <1>8 DEF Protocol!HandOver, Protocol!Report
<1> QED BY <1>3, <1>9 DEF Protocol!Next, CallIds

LEMMA EnableDisableMaps ==
  ASSUME Careful, Strong, NEW p \in CPU, NEW b \in BOOLEAN, EnableDisableAP(p, b)
  PROVE  Protocol!Next
<1>1. /\ bsp = "free" /\ p # BspNumber /\ State[p] \in {"idle", "disabled"}
      /\ off' \in {off \cup {p}, off \ {p}} /\ UNCHANGED <<result, given, failed, ran, BspNumber>>
  BY DEF EnableDisableAP, roleVars
<1>2. Protocol!Free(p)
  BY <1>1, RestingIsFree DEF AP, Switching
<1>3. Protocol!SetState(p)
  BY <1>1, <1>2, StillInService DEF Protocol!SetState
<1> QED BY <1>3 DEF Protocol!Next

LEMMA RunMaps ==
  ASSUME Strong, NEW c \in CPU, ApRun(c)
  PROVE  Protocol!Next
<1> USE DEF Strong
<1>1. /\ pc[c] = "run" /\ ran' = [ran EXCEPT ![c][proc[c]] = @ + 1]
      /\ UNCHANGED <<result, given, failed, BspNumber, off>>
  BY DEF ApRun, ApUnchanged, callVars, roleVars
<1>2. pc[c] \in WorkPc /\ pc[c] # "bsp" /\ pc[c] \notin RestPc
  BY <1>1 DEF WorkPc, RestPc, LoopPc
<1>3. Normal
  BY <1>1, <1>2, AtWorkSwitching
<1>4. PICK k \in CallIds : Outstanding(c, k) /\ Serves(c, k)
  BY <1>2, <1>3, HasWork
<1>5. State[c] \in Working
  BY <1>2, <1>3, HasWork
<1>6. proc[c] = k /\ ran[c][k] = 0
  BY <1>1, <1>4, <1>5 DEF Serves, RestPc, LoopPc, Working
<1>7. ran' = [ran EXCEPT ![c][k] = 1]
  BY <1>1, <1>6
<1>8. Protocol!Execute(c, k)
  BY <1>1, <1>4, <1>6, <1>7 DEF Outstanding, Protocol!Execute, Protocol!Owes
<1> QED BY <1>8 DEF Protocol!Next, CallIds

\* What nobody sees.
Unseen ==
  \/ CheckAPsStatus \/ UpdateDone \/ ChangeApLoopModeCallBack \/ ExitBootServices \/ Idle
  \/ \E p \in CPU : ResetOrphansLock(p)
  \/ \E r \in Wanted : Startup(r)
  \/ \E k \in Ids : Expire(k)
  \/ \E c \in CPU : ApStep(c) \/ ApBreak(c) \/ Exchange(c)
  \/ UNCHANGED vars

LEMMA UnseenSteps ==
  ASSUME Strong, Unseen
  PROVE  UNCHANGED Visible /\ \A p \in CPU : State'[p] = "disabled" => State[p] = "disabled"
<1> USE DEF Strong
<1>1. ASSUME NEW c \in CPU, ApStep(c) \/ ApBreak(c)
      PROVE  UNCHANGED Visible /\ \A p \in CPU : State'[p] = "disabled" => State[p] = "disabled"
  <2>1. UNCHANGED Visible
    BY <1>1 DEF ApStep, ApBreak, ApLoop, ApMwait, ApPoll, ApBusy, ApFetch, ApClear, ApFlag,
       ApNumber, ApFinish, ApLeave, ApBack, ApUnchanged, roleVars, callVars, Visible
  <2>2. UNCHANGED State \/ \E p : State' = [State EXCEPT ![p] = "busy"] \/ State' = [State EXCEPT ![p] = "finished"]
    BY <1>1 DEF ApStep, ApBreak, ApLoop, ApMwait, ApPoll, ApBusy, ApFetch, ApClear, ApFlag,
       ApNumber, ApFinish, ApLeave, ApBack, blockVars
  <2> QED BY <2>1, <2>2 DEF Inv, Typing
<1>2. ASSUME NEW c \in CPU, Exchange(c)
      PROVE  UNCHANGED Visible /\ UNCHANGED State
  BY <1>2 DEF Exchange, SwapStore, SwapLoad, SwapUnload, SwapUnchanged, callVars, Visible
<1>3. ASSUME \/ CheckAPsStatus \/ UpdateDone \/ ChangeApLoopModeCallBack \/ ExitBootServices \/ Idle
             \/ UNCHANGED vars
      PROVE  UNCHANGED Visible /\ UNCHANGED State
  BY <1>3 DEF CheckAPsStatus, UpdateDone, ChangeApLoopModeCallBack, ExitBootServices, Idle, vars,
     callVars, roleVars, blockVars, Visible
<1>4. ASSUME NEW p \in CPU, ResetOrphansLock(p) PROVE UNCHANGED Visible /\ UNCHANGED State
  BY <1>4 DEF ResetOrphansLock, callVars, roleVars, blockVars, Visible
<1>5. ASSUME NEW r \in Wanted, Startup(r) PROVE UNCHANGED Visible /\ UNCHANGED State
  BY <1>5 DEF Startup, roleVars, blockVars, Visible
<1>6. ASSUME NEW k \in Ids, Expire(k) PROVE UNCHANGED Visible /\ UNCHANGED State
  BY <1>6 DEF Expire, roleVars, blockVars, Visible
<1> QED BY <1>1, <1>2, <1>3, <1>4, <1>5, <1>6 DEF Unseen

\* Nobody else disables an AP.
LEMMA OnlyOffKept ==
  ASSUME Strong, OnlyOff, [Next]_vars
  PROVE  OnlyOff'
<1> USE DEF Strong
<1>1. CASE Unseen
  BY <1>1, UnseenSteps DEF OnlyOff, Visible
<1>2. ASSUME NEW p \in CPU, NEW b \in BOOLEAN, EnableDisableAP(p, b) PROVE OnlyOff'
  BY <1>2 DEF EnableDisableAP, OnlyOff, Inv, Typing
<1>3. CASE SwitchDone
  <2>1. State' = [State EXCEPT ![BspNumber] = IF param[call].enable THEN "idle" ELSE "disabled"]
        /\ off' = IF param[call].enable THEN off \ {BspNumber} ELSE off \cup {BspNumber}
    BY <1>3 DEF SwitchDone
  <2> QED BY <2>1 DEF OnlyOff, Inv, Typing
<1>4. CASE \/ StartAllNotReady \/ StartThisRefused \/ StartAllNone
           \/ \E r \in SwitchParams : SwitchBSP(r) \/ SwitchRefused(r)
           \/ \E c \in CPU : ApRun(c)
  <2>1. UNCHANGED <<State, off>>
    BY <1>4 DEF StartAllNotReady, StartThisRefused, StartAllNone, SwitchBSP, SwitchRefused, ApRun,
       ApUnchanged, blockVars
  <2> QED BY <2>1 DEF OnlyOff
<1>5. CASE StartAll \/ StartThis
  <2>1. UNCHANGED off /\ \A p \in CPU : State'[p] = "ready" \/ State'[p] = State[p]
    BY <1>5 DEF StartAll, StartThis, Inv, Typing
  <2> QED BY <2>1 DEF OnlyOff
<1>6. CASE UpdateAll \/ UpdateThis \/ PollAll \/ PollThis
  <2>1. UNCHANGED off
    BY <1>6 DEF UpdateAll, UpdateThis, PollAll, PollThis
  <2>2. \A p \in CPU : State'[p] = "idle" \/ State'[p] = State[p]
    BY <1>6 DEF UpdateAll, UpdateThis, PollAll, PollThis, AllFinished, AllNotReady, AllTimeout, Collect,
       ThisFinished, ThisNotReady, ThisTimeout, Inv, Typing
  <2> QED BY <2>1, <2>2 DEF OnlyOff
<1> QED BY <1>1, <1>2, <1>3, <1>4, <1>5, <1>6 DEF Next, BspStep, Unseen

\* The MP services keep the promises of MpCalls ...
THEOREM ServicesImplementCalls == ASSUME Careful, TimeoutsInHlt PROVE Spec => ImplementsCalls
<1>1. Init => Protocol!Init
  <2> SUFFICES ASSUME Init PROVE Protocol!Init
    OBVIOUS
  <2>1. BspNumber \in CPU
    BY NumAssumption DEF Init, CPU
  <2> QED BY <2>1 DEF Init, Protocol!Init
<1>2. Init => OnlyOff
  BY DEF Init, OnlyOff
<1>3. Strong /\ OnlyOff /\ [Next]_vars => OnlyOff'
  BY OnlyOffKept
<1>4. Strong /\ Strong' /\ OnlyOff /\ [Next]_vars => [Protocol!Next]_Protocol!callVars
  <2> SUFFICES ASSUME Strong, Strong', OnlyOff, [Next]_vars PROVE Protocol!Next \/ UNCHANGED Visible
    BY DEF Visible, Protocol!callVars
  <2>1. CASE Unseen
    BY <2>1, UnseenSteps
  <2>2. CASE UpdateAll \/ UpdateThis \/ PollAll \/ PollThis
    BY <2>2, ChecksMap
  <2>3. CASE StartAllNotReady \/ StartThisRefused \/ \E r \in SwitchParams : SwitchRefused(r)
    BY <2>3, RefusalsMap
  <2>4. CASE StartAll \/ StartAllNone \/ StartThis
    BY <2>4, StartAllMaps, StartThisMaps
  <2>5. CASE SwitchDone \/ \E r \in SwitchParams : SwitchBSP(r)
    BY <2>5, SwitchMaps, SwitchDoneMaps
  <2>6. CASE \E p \in CPU, b \in BOOLEAN : EnableDisableAP(p, b)
    BY <2>6, EnableDisableMaps
  <2>7. CASE \E c \in CPU : ApRun(c)
    BY <2>7, RunMaps
  <2> QED BY <2>1, <2>2, <2>3, <2>4, <2>5, <2>6, <2>7 DEF Next, BspStep, Unseen
<1>5. Spec => []Strong
  BY StrongAlways, PTL
<1> QED BY <1>1, <1>2, <1>3, <1>4, <1>5, PTL DEF Spec, Protocol!Spec, ImplementsCalls

\* Whoever keeps these promises reports the truth.
Truthful ==
  /\ result \in [CallIds -> Results] /\ given \in [CallIds -> SUBSET CPU]
  /\ failed \in [CallIds -> SUBSET CPU] /\ ran \in [CPU -> [CallIds -> Nat]]
  /\ \A k \in CallIds : result[k] = "none" => given[k] = {}
  /\ \A k \in CallIds : result[k] \in {"success", "timeout"} =>
       \A p \in given[k] \ failed[k] : ran[p][k] = 1

LEMMA StepTruthful == ASSUME Truthful, [Protocol!Next]_Protocol!callVars PROVE Truthful'
<1> USE DEF Truthful
<1>1. ASSUME NEW k \in CallIds, Protocol!Refuse(k) \/ Protocol!Vacuous(k) PROVE Truthful'
  <2>1. result[k] = "none" /\ UNCHANGED <<given, failed, ran>>
        /\ \E r \in {"notready", "success"} : result' = [result EXCEPT ![k] = r]
    BY <1>1 DEF Protocol!Refuse, Protocol!Vacuous, Protocol!Report
  <2> QED BY <2>1 DEF Results
<1>2. ASSUME NEW k \in CallIds, NEW S \in SUBSET CPU, Protocol!Begin(k, S) PROVE Truthful'
  BY <1>2 DEF Protocol!Begin, Protocol!Report, Results
<1>3. ASSUME NEW k \in CallIds, NEW p \in CPU, Protocol!Execute(p, k) PROVE Truthful'
  <2>1. /\ result[k] = "pending" /\ UNCHANGED <<result, given, failed>>
        /\ ran' = [ran EXCEPT ![p][k] = 1]
    BY <1>3 DEF Protocol!Execute, Protocol!Owes
  <2>2. ran' \in [CPU -> [CallIds -> Nat]]
    BY <2>1
  <2>3. \A q \in CPU, j \in CallIds : j # k => ran'[q][j] = ran[q][j]
    BY <2>1
  <2> QED BY <2>1, <2>2, <2>3
<1>4. ASSUME NEW k \in CallIds, Protocol!Succeed(k) PROVE Truthful'
  BY <1>4 DEF Protocol!Succeed, Protocol!Report, Results
<1>5. ASSUME NEW k \in CallIds, NEW late \in SUBSET CPU, Protocol!TimeOut(k, late) PROVE Truthful'
  BY <1>5 DEF Protocol!TimeOut, Protocol!Report, Results
<1>6. ASSUME NEW k \in CallIds, NEW p \in CPU, Protocol!HandOver(k, p) PROVE Truthful'
  BY <1>6 DEF Protocol!HandOver, Protocol!Report, Results
<1>7. ASSUME NEW p \in CPU, Protocol!SetState(p) PROVE Truthful'
  BY <1>7 DEF Protocol!SetState
<1>8. CASE UNCHANGED Protocol!callVars
  BY <1>8 DEF Protocol!callVars
<1> QED BY <1>1, <1>2, <1>3, <1>4, <1>5, <1>6, <1>7, <1>8 DEF Protocol!Next, CallIds

\* A caller needs to know no more than the promises to trust what it is told: success,
\* or the timeout of other APs, means that every AP has executed the procedure once.
THEOREM PromisesMakeReportsTrue == ImplementsCalls => []ReportsTrue
<1>1. Protocol!Init => Truthful
  <2> SUFFICES ASSUME Protocol!Init PROVE Truthful
    OBVIOUS
  <2>1. result = [k \in CallIds |-> "none"] /\ given = [k \in CallIds |-> {}]
        /\ failed = [k \in CallIds |-> {}] /\ ran = [p \in CPU |-> [k \in CallIds |-> 0]]
    BY DEF Protocol!Init, CallIds
  <2> QED BY <2>1 DEF Truthful, Results
<1>2. Truthful /\ [Protocol!Next]_Protocol!callVars => Truthful'
  BY StepTruthful
<1>3. Truthful => ReportsTrue
  BY DEF Truthful, ReportsTrue, CallIds
<1> QED BY <1>1, <1>2, <1>3, PTL DEF ImplementsCalls, Protocol!Spec

-----------------------------------------------------------------------------
(* Work goes on.                                                           *)

\* An AP on its way to the procedure it has been given.
Called(p) == pc[p] = "enter" \/ (StartupApSignal[p] /\ mApFunction = "wrapper")

\* The APs of a single-threaded call that wait for their turn wait for one of them.
OneIsAtIt(p) ==
  /\ Checked /\ param[sysCall].single /\ p \in CpuList
  /\ \E a \in CpuList : State[a] # "ready" \/ Called(a)

\* How an AP is woken fits the loop it is in.
MannerInv ==
  /\ \A p \in CPU : pc[p] = "hlt" => ApLoopMode[p] = "hlt" \/ ReadyToBootFlag[p]
  /\ \A p \in CPU : StartupApSignal[p] => ApLoopMode[p] # "hlt"
ReadyInv == \A p \in AP : State[p] = "ready" => bsp = "spin" \/ Called(p) \/ OneIsAtIt(p)
FunctionInv == Switching => mApFunction = "wrapper"
WakeInv == MannerInv /\ ReadyInv /\ FunctionInv

\* The last call is for all APs.
LastInv == call = Bye => Kind(Bye) = "all"

\* No AP is ready while the BSP is switched, or has been parked by the last call.
LEMMA ReadyAp ==
  ASSUME Strong, BootedInv, LastInv, NEW p \in AP, State[p] = "ready"
  PROVE  /\ Normal /\ ~ReadyToBootFlag[p] /\ num[p] = p /\ pc[p] \in RestPc \cup {"enter"}
         /\ \E k \in CallIds : Outstanding(p, k)
<1> USE DEF Strong
<1>1. p \in CPU /\ p # BspNumber
  BY DEF AP
<1>2. Normal
  <2>1. ASSUME ~Switching, mBspSwitched PROVE FALSE
    BY <1>1, <2>1 DEF TailInv, Quiet, AP
  <2>2. ASSUME Switching PROVE FALSE
    <3>1. CASE p = param[call].target
      BY <2>2, <3>1 DEF SwitchInv, Exchanges
    <3>2. CASE p # param[call].target
      BY <2>2, <3>2 DEF SwitchInv, Quiet
    <3> QED BY <3>1, <3>2
  <2> QED BY <2>1, <2>2 DEF Normal
<1>3. ApFits(p)
  BY <1>2 DEF ApInv
<1>4. PICK k \in CallIds : Outstanding(p, k) /\ Serves(p, k)
  BY <1>3 DEF ApFits, Working
<1>5. pc[p] \in RestPc \cup {"enter"} /\ ran[p][k] = 0
  BY <1>4 DEF Serves
<1>6. ~ReadyToBootFlag[p]
  <2> SUFFICES ASSUME ReadyToBootFlag[p] PROVE FALSE
    OBVIOUS
  <2>1. ran[p][Bye] = 1 /\ k # Bye
    BY <1>1, <1>5 DEF BootInv
  <2>2. result[Bye] # "none"
    BY <1>1, <2>1, Numbers DEF CallInv
  <2>3. result[k] = "pending"
    BY <1>4 DEF Outstanding
  <2>4. CASE bsp = "booted"
    <3>1. \A i \in CallIds : ~Outstanding(p, i)
      BY <1>1, <2>4, NothingLeft DEF BootedInv
    <3> QED BY <1>4, <3>1
  <2>5. CASE bsp = "poll" /\ call = Bye
    <3>1. Kind(Bye) = "all" /\ Bye = sysCall
      BY <2>5 DEF LastInv, Inv, BspInv
    <3>2. \A q \in CPU : WaitEvent[q] = NULL
      BY <2>5 DEF BootedInv
    <3> QED BY <1>4, <2>1, <2>3, <2>5, <3>1, <3>2, Numbers DEF CallInv, AP
  <2> QED BY <2>2, <2>4, <2>5 DEF CallInv
<1> QED BY <1>2, <1>3, <1>4, <1>5, <1>6 DEF ApFits

\* An AP that has been called is not deaf.
LEMMA CalledHears ==
  ASSUME Strong, BootedInv, LastInv, WakeInv, BreakEvents, NEW p \in AP, State[p] = "ready", Called(p)
  PROVE  ~Deaf(p)
<1>1. p \in CPU /\ ~ReadyToBootFlag[p] /\ num[p] = p
  BY ReadyAp DEF AP
<1>2. StartupApSignal[p] => pc[p] # "hlt"
  BY <1>1 DEF WakeInv, MannerInv, ReadyInv, FunctionInv
<1> QED BY <1>1, <1>2 DEF Called, Deaf, LoopPc

\* Between two that exchange their roles, one is not held up.
LEMMA SwitchFree ==
  ASSUME Strong, WakeInv, BreakEvents, Switching
  PROVE  \E c \in {BspNumber, param[call].target} : ~HeldUp(c)
<1> USE DEF Strong
<1> DEFINE o == BspNumber
           n == param[call].target
<1>1. /\ \A p \in CPU : ~ReadyToBootFlag[p]
      /\ o \in CPU /\ n \in CPU /\ n # o
  BY WhileSwitching
<1>2. Exchanges(o, n) /\ \A p \in AP \ {n} : Quiet(p)
  BY DEF SwitchInv
<1>3. My(o) = "bsp" /\ Others(o) = "ap" /\ My(n) = "ap" /\ Others(n) = "bsp"
  BY <1>1 DEF My, Others
<1>4. CASE pc[n] \in LoopPc
  <2>1. StartupApSignal[n] /\ num[n] = n /\ mApFunction = "wrapper"
    BY <1>2, <1>4 DEF Exchanges, LoopPc, WakeInv, FunctionInv
  <2>2. pc[n] # "hlt"
    BY <1>1, <2>1 DEF WakeInv, MannerInv, ReadyInv, FunctionInv
  <2>3. ~Deaf(n) /\ pc[n] \notin {"load", "unload", "bsp"}
    BY <1>4, <2>1, <2>2 DEF Deaf, LoopPc
  <2> QED BY <2>3 DEF HeldUp
<1>5. CASE pc[n] \in {"enter", "fetch", "store"}
  BY <1>5 DEF HeldUp, Deaf, LoopPc
<1>6. CASE pc[n] = "load"
  <2>1. bsp = "switch" /\ Info["bsp"].State = IF pc[o] = "bsp" THEN "idle" ELSE "stored"
    BY <1>2, <1>6 DEF Exchanges
  <2>2. CASE pc[o] = "bsp"
    BY <2>1, <2>2 DEF HeldUp, Deaf, LoopPc
  <2>3. CASE pc[o] # "bsp"
    BY <1>3, <1>6, <2>1, <2>3 DEF HeldUp, Deaf, LoopPc
  <2> QED BY <2>2, <2>3
<1>7. CASE pc[n] = "unload"
  <2>1. pc[o] # "bsp" /\ Info["ap"].State = IF pc[o] = "load" THEN "stored" ELSE "loaded"
    BY <1>2, <1>7 DEF Exchanges, NewFirst, LoopPc
  <2>2. CASE pc[o] = "load"
    BY <1>3, <2>1, <2>2 DEF HeldUp, Deaf, LoopPc
  <2>3. CASE pc[o] # "load"
    BY <1>3, <1>7, <2>1, <2>3 DEF HeldUp, Deaf, LoopPc, OtherLoaded
  <2> QED BY <2>2, <2>3
<1>8. CASE pc[n] = "bsp"
  <2>1. /\ bsp # "switch" /\ bsp = "switched" /\ pc[o] \in {"unload"} \cup OldAfter
        /\ Info["bsp"].State = "loaded" \/ pc[o] = "bsp"
        /\ pc[o] \in LoopPc => State[o] = "finished"
    BY <1>2, <1>8 DEF Exchanges, Switching
  <2>2. CASE pc[o] = "unload"
    BY <1>3, <2>1, <2>2 DEF HeldUp, Deaf, LoopPc, OtherLoaded
  <2>3. CASE pc[o] \in LoopPc
    <3>1. \A c \in CPU : pc[c] \notin HeldPc
      <4> SUFFICES ASSUME NEW c \in CPU PROVE pc[c] \notin HeldPc
        OBVIOUS
      <4>1. c = o \/ c = n \/ c \in AP \ {n}
        BY DEF AP
      <4> QED BY <1>2, <1>8, <2>3, <4>1 DEF HeldPc, Quiet, LoopPc
    <3>2. OldBspFinished
      BY <2>1, <2>3, <3>1 DEF OldBspFinished, Unlocked
    <3> QED BY <1>8, <3>2 DEF HeldUp, Deaf, LoopPc
  <2>4. CASE pc[o] \in {"clear", "flag", "number"} \cup OldEnd
    BY <2>4 DEF HeldUp, Deaf, LoopPc, OldEnd
  <2> QED BY <2>1, <2>2, <2>3, <2>4 DEF OldAfter
<1> QED BY <1>2, <1>4, <1>5, <1>6, <1>7, <1>8 DEF Exchanges

\* What the invariants come to.
LEMMA GoesOn ==
  ASSUME Strong, BootedInv, LastInv, WakeInv, BreakEvents
  PROVE  WorkGoesOn
<1>1. ASSUME NEW p \in AP, State[p] = "ready", Deaf(p), bsp # "spin"
      PROVE  param[sysCall].single /\ \E a \in CpuList : State[a] # "ready" \/ ~Deaf(a)
  <2>1. OneIsAtIt(p)
    BY <1>1, CalledHears DEF WakeInv, MannerInv, ReadyInv, FunctionInv
  <2>2. PICK a \in CpuList : State[a] # "ready" \/ Called(a)
    BY <2>1 DEF OneIsAtIt
  <2>3. a \in AP
    BY <2>1 DEF OneIsAtIt, Strong, Inv, CheckedInv, Typing, AP
  <2> QED BY <2>1, <2>2, <2>3, CalledHears DEF OneIsAtIt
<1> QED BY <1>1, SwitchFree DEF WorkGoesOn, Switching

-----------------------------------------------------------------------------
(* That every step keeps this.                                             *)

LEMMA LastKept ==
  ASSUME Strong, LastInv, [Next]_vars
  PROVE  LastInv'
<1> USE DEF Strong
<1>1. CASE UNCHANGED param /\ call' \in {call, NULL}
  BY <1>1, Numbers DEF LastInv, Kind
<1>2. CASE (\E r \in Wanted : Startup(r)) \/ (\E r \in SwitchParams : SwitchBSP(r) \/ SwitchRefused(r))
  <2>1. PICK r : /\ calls < MaxCalls /\ param' = [param EXCEPT ![calls + 1] = r]
                 /\ call' = calls + 1 \/ (call' = call /\ bsp = "free")
    BY <1>2 DEF Startup, SwitchBSP, SwitchRefused, bspVars
  <2>2. calls + 1 # Bye
    BY <2>1, NumAssumption DEF Bye, Inv, Typing
  <2>3. param'[Bye] = param[Bye]
    BY <2>1, <2>2
  <2> QED BY <2>1, <2>2, <2>3 DEF LastInv, Kind
<1>3. CASE ChangeApLoopModeCallBack
  BY <1>3 DEF ChangeApLoopModeCallBack, LastInv, Kind, Inv, Typing
<1>4. CASE \/ CheckAPsStatus \/ UpdateAll \/ UpdateThis \/ UpdateDone \/ StartAllNotReady \/ StartAll
           \/ StartAllNone \/ PollAll \/ StartThisRefused \/ StartThis \/ PollThis \/ SwitchDone
           \/ ExitBootServices \/ Idle \/ UNCHANGED vars
           \/ (\E p \in CPU : ResetOrphansLock(p)) \/ (\E k \in Ids : Expire(k))
           \/ (\E p \in CPU, b \in BOOLEAN : EnableDisableAP(p, b))
  BY <1>1, <1>4 DEF CheckAPsStatus, UpdateAll, UpdateThis, UpdateDone, StartAllNotReady, StartAll,
     StartAllNone, PollAll, StartThisRefused, StartThis, PollThis, SwitchDone, ExitBootServices, Idle,
     ResetOrphansLock, Expire, EnableDisableAP, Return, vars, callVars, bspVars
<1>5. CASE \E c \in CPU : ApStep(c) \/ ApRun(c) \/ ApBreak(c) \/ Exchange(c)
  <2>1. UNCHANGED <<param, call>>
    BY <1>5 DEF ApStep, ApRun, ApBreak, Exchange, ApLoop, ApMwait, ApPoll, ApBusy, ApFetch, ApClear, ApFlag,
       ApNumber, ApFinish, ApLeave, ApBack, SwapStore, SwapLoad, SwapUnload, ApUnchanged, SwapUnchanged,
       bspVars, callVars
  <2> QED BY <1>1, <2>1
<1> QED BY <1>2, <1>3, <1>4, <1>5 DEF Next, BspStep

\* An INIT or a new task leaves no AP in HLT that is not to be woken by INIT.
LEMMA MannerWoken ==
  ASSUME Strong, Strong', NEW woken \in SUBSET CPU, NEW reset \in SUBSET CPU, Launch(woken, reset),
         UNCHANGED LoopMode, MannerInv,
         \A p \in CPU : \/ ApLoopMode'[p] = ApLoopMode[p]
                        \/ p \in woken \cup reset /\ ApLoopMode'[p] = LoopMode,
         \A p \in CPU : StartupApSignal'[p] => StartupApSignal[p] \/ ApLoopMode'[p] = LoopMode
  PROVE  MannerInv'
<1>1. ASSUME NEW p \in CPU, pc'[p] = "hlt" PROVE ApLoopMode'[p] = "hlt" \/ ReadyToBootFlag'[p]
  <2>1. p \notin reset /\ pc[p] = "hlt" /\ ~(p \in woken /\ ApLoopMode[p] = "hlt")
    BY <1>1 DEF Launch
  <2>2. ReadyToBootFlag[p] => ReadyToBootFlag'[p]
    BY <2>1 DEF Launch
  <2> QED BY <2>1, <2>2 DEF MannerInv
<1>2. ASSUME NEW p \in CPU, StartupApSignal'[p] PROVE ApLoopMode'[p] # "hlt"
  <2>1. LoopMode # "hlt"
    BY <1>2 DEF Strong, HltInv
  <2> QED BY <1>2, <2>1 DEF MannerInv
<1> QED BY <1>1, <1>2 DEF MannerInv

\* Tasks handed over by WakeUpAp.
LEMMA MannerAssigned ==
  ASSUME Strong, Strong', NEW woken \in SUBSET CPU, NEW reset \in SUBSET CPU, NEW tasked, NEW k,
         tasked \subseteq woken \cup reset, Assign(tasked, k), Launch(woken, reset),
         UNCHANGED LoopMode, MannerInv
  PROVE  MannerInv'
<1>1. \A p \in CPU : \/ ApLoopMode'[p] = ApLoopMode[p]
                     \/ p \in woken \cup reset /\ ApLoopMode'[p] = LoopMode
  BY DEF Assign
<1>2. \A p \in CPU : StartupApSignal'[p] => StartupApSignal[p] \/ ApLoopMode'[p] = LoopMode
  BY DEF Assign
<1> QED BY <1>1, <1>2, MannerWoken

\* The AP whose turn is next is one of those that are left.
LEMMA NextIsLeft ==
  ASSUME Strong, NEW seen
  PROVE  /\ NextWaiting(seen) \subseteq CpuList \ seen
         /\ param[sysCall].single /\ seen # {} /\ CpuList \ seen # {} => NextWaiting(seen) # {}
<1>1. CpuList \ seen # {} => Min(CpuList \ seen) \in CpuList \ seen
  <2> DEFINE rest == CpuList \ seen
  <2>1. rest \in SUBSET Nat
    <3>1. CpuList \in SUBSET CPU
      BY DEF Strong, Inv, Typing
    <3>2. CPU \in SUBSET Nat
      BY NumAssumption DEF CPU
    <3> QED BY <3>1, <3>2
  <2> HIDE DEF rest
  <2>2. rest # {} => Min(rest) \in rest
    BY <2>1, Minimum, Zenon DEF Min
  <2> QED BY <2>2 DEF rest
<1> QED BY <1>1 DEF NextWaiting

\* CheckAllAPs.
LEMMA MannerChecked ==
  ASSUME Strong, Strong', MannerInv, AllFinished \/ AllNotReady \/ AllTimeout, UNCHANGED LoopMode
  PROVE  MannerInv'
<1>1. CpuList \in SUBSET CPU
  BY DEF Strong, Inv, Typing
<1>2. CASE AllFinished \/ AllNotReady
  <2>1. Assign(NextWaiting(Finished), sysCall) /\ Launch(NextWaiting(Finished), {})
    BY <1>2 DEF AllFinished, AllNotReady
  <2>2. NextWaiting(Finished) \in SUBSET CPU
    BY <1>1, NextIsLeft
  <2> QED BY <2>1, <2>2, MannerAssigned
<1>3. CASE AllTimeout
  <2>1. PICK seen \in SUBSET Finished : Assign(NextWaiting(seen), sysCall) /\ Launch({}, CpuList \ seen)
    BY <1>3 DEF AllTimeout
  <2>2. NextWaiting(seen) \subseteq {} \cup (CpuList \ seen) /\ CpuList \ seen \in SUBSET CPU
    BY <1>1, NextIsLeft
  <2> QED BY <2>1, <2>2, MannerAssigned
<1> QED BY <1>2, <1>3

\* CheckThisAP.
LEMMA MannerCheckedThis ==
  ASSUME Strong, Strong', MannerInv, NEW p \in CPU, NEW k,
         ThisFinished(p, k) \/ ThisNotReady(p, k) \/ ThisTimeout(p, k), UNCHANGED LoopMode
  PROVE  MannerInv'
<1>1. CASE ThisFinished(p, k) \/ ThisNotReady(p, k)
  BY <1>1 DEF ThisFinished, ThisNotReady, wakeVars, apVars, MannerInv
<1>2. CASE ThisTimeout(p, k)
  <2>1. Launch({}, {p}) /\ UNCHANGED <<ApLoopMode, StartupApSignal>>
    BY <1>2 DEF ThisTimeout
  <2>2. {} \in SUBSET CPU /\ {p} \in SUBSET CPU
    OBVIOUS
  <2> QED BY <2>1, <2>2, MannerWoken
<1> QED BY <1>1, <1>2

\* The steps of a processor: it goes to HLT where CheckWakeUpManner says so.
LEMMA MannerOfAp ==
  ASSUME Strong, Strong', MannerInv, NEW c \in CPU, ApStep(c) \/ ApRun(c) \/ ApBreak(c) \/ Exchange(c)
  PROVE  MannerInv'
<1> USE DEF Strong
<1>1. UNCHANGED LoopMode
  BY DEF ApStep, ApRun, ApBreak, Exchange, ApLoop, ApMwait, ApPoll, ApBusy, ApFetch, ApClear, ApFlag,
     ApNumber, ApFinish, ApLeave, ApBack, SwapStore, SwapLoad, SwapUnload, ApUnchanged, SwapUnchanged, roleVars
<1>2. CASE ApLoop(c)
  <2>1. /\ pc[c] = "loop" /\ pc' = [pc EXCEPT ![c] = WakeUpManner(num[c])]
        /\ UNCHANGED <<ApLoopMode, StartupApSignal, ReadyToBootFlag>>
    BY <1>2 DEF ApLoop, ApUnchanged
  <2>2. num[c] = c
    BY <2>1, Apart DEF StacksApart, LoopPc
  <2>3. pc'[c] = "hlt" => ReadyToBootFlag[c] \/ LoopMode = "hlt"
    BY <2>1, <2>2 DEF WakeUpManner, Shapes
  <2> QED BY <2>1, <2>3 DEF MannerInv, Shapes, HltInv
<1>3. CASE ApBack(c)
  <2>1. /\ pc' = [pc EXCEPT ![c] = WakeUpManner(num'[c])]
        /\ UNCHANGED <<ApLoopMode, StartupApSignal, ReadyToBootFlag>>
    BY <1>3 DEF ApBack, wakeVars
  <2>2. pc'[c] = "hlt" => num'[c] = c
    <3>1. StacksApart'
      BY Apart, PTL
    <3> QED BY <3>1 DEF StacksApart, LoopPc
  <2>3. pc'[c] = "hlt" => ReadyToBootFlag[c] \/ LoopMode = "hlt"
    BY <2>1, <2>2 DEF WakeUpManner, Shapes
  <2> QED BY <2>1, <2>3 DEF MannerInv, Shapes, HltInv
<1>4. CASE ApNumber(c)
  <2>1. /\ pc' = [pc EXCEPT ![c] = "finish"] /\ pc[c] = "number"
        /\ ApLoopMode' = [ApLoopMode EXCEPT ![c] = ApLoopMode[num[c]]]
        /\ StartupApSignal' = [StartupApSignal EXCEPT ![c] = StartupApSignal[num[c]]]
        /\ ReadyToBootFlag' = [ReadyToBootFlag EXCEPT ![c] = ReadyToBootFlag[num[c]]]
    BY <1>4 DEF ApNumber
  <2>2. StartupApSignal'[c] => LoopMode # "hlt" /\ StartupApSignal[num[c]]
    BY <1>1, <2>1 DEF HltInv, Shapes
  <2>3. num[c] \in CPU
    <3>1. ~Normal /\ Switching /\ (c = BspNumber \/ c = param[call].target)
      BY <2>1 DEF Normal, ApInv, ApFits, Serves, TailInv, SwitchInv, Quiet, Working, RestPc, LoopPc, AP
    <3> QED BY <2>1, <3>1, WhileSwitching DEF SwitchInv, Exchanges, LoopPc
  <2> QED BY <2>1, <2>2, <2>3 DEF MannerInv, Shapes
<1>5. CASE ApClear(c) \/ ApRun(c)
  <2>1. /\ pc' = [pc EXCEPT ![c] = pc'[c]] /\ pc'[c] # "hlt" /\ UNCHANGED ApLoopMode
        /\ \A p \in CPU : (StartupApSignal'[p] => StartupApSignal[p]) /\ (ReadyToBootFlag[p] => ReadyToBootFlag'[p])
    BY <1>5 DEF ApClear, ApRun, ApUnchanged, Shapes
  <2> QED BY <2>1 DEF MannerInv, Shapes
<1>6. CASE \/ ApMwait(c) \/ ApPoll(c) \/ ApBusy(c) \/ ApFetch(c) \/ ApFlag(c) \/ ApFinish(c) \/ ApLeave(c)
           \/ ApBreak(c) \/ Exchange(c)
  <2>1. /\ pc' = [pc EXCEPT ![c] = pc'[c]] /\ pc'[c] # "hlt"
        /\ UNCHANGED <<ApLoopMode, StartupApSignal, ReadyToBootFlag>>
    BY <1>6 DEF ApMwait, ApPoll, ApBusy, ApFetch, ApFlag, ApFinish, ApLeave, ApBreak, Exchange,
       SwapStore, SwapLoad, SwapUnload, ApUnchanged, SwapUnchanged, wakeVars, Shapes
  <2> QED BY <2>1 DEF MannerInv, Shapes
<1> QED BY <1>2, <1>3, <1>4, <1>5, <1>6 DEF ApStep

LEMMA MannerKept ==
  ASSUME Strong, Strong', MannerInv, [Next]_vars
  PROVE  MannerInv'
<1> USE DEF Strong
<1>1. CASE UNCHANGED <<pc, ApLoopMode, StartupApSignal, ReadyToBootFlag>>
  BY <1>1 DEF MannerInv
<1>2. CASE UpdateAll \/ PollAll
  <2>1. UNCHANGED LoopMode
    BY <1>2 DEF UpdateAll, PollAll, roleVars
  <2>2. CASE AllFinished \/ AllNotReady \/ AllTimeout
    BY <2>1, <2>2, MannerChecked
  <2>3. CASE UNCHANGED <<wakeVars, apVars>>
    BY <1>1, <2>3 DEF wakeVars, apVars
  <2> QED BY <1>2, <2>2, <2>3 DEF UpdateAll, PollAll
<1>3. CASE UpdateThis
  <2>1. PICK p, k : UNCHANGED LoopMode /\ (ThisNotReady(p, k) \/ ThisFinished(p, k) \/ ThisTimeout(p, k))
                    /\ p = Min(Waiting) /\ Waiting # {}
    BY <1>3 DEF UpdateThis, roleVars
  <2>2. p \in CPU
    <3>1. Waiting \subseteq CPU /\ Waiting \in SUBSET Nat
      BY NumAssumption DEF Waiting, CPU
    <3>2. p \in Waiting
      BY <2>1, <3>1, Minimum, Zenon DEF Min
    <3> QED BY <3>1, <3>2
  <2> QED BY <2>1, <2>2, MannerCheckedThis
<1>4. CASE PollThis
  <2>1. PICK p, k : UNCHANGED LoopMode /\ (ThisNotReady(p, k) \/ ThisFinished(p, k) \/ ThisTimeout(p, k))
                    /\ p = param[call].target /\ bsp = "poll" /\ Kind(call) = "this"
    BY <1>4 DEF PollThis, roleVars, Kind
  <2>2. p \in CPU
    BY <2>1, TargetInCPU DEF Inv, BspInv
  <2> QED BY <2>1, <2>2, MannerCheckedThis
<1>5. CASE StartAll
  <2>1. PICK W : W \subseteq Enabled /\ Assign(W, call) /\ Launch(W, {}) /\ UNCHANGED LoopMode
    <3>1. Enabled # {} /\ Enabled \in SUBSET Nat
      BY <1>5, NumAssumption DEF StartAll, Enabled, AP, CPU
    <3>2. Min(Enabled) \in Enabled
      BY <3>1, Minimum, Zenon DEF Min
    <3> QED BY <1>5, <3>2 DEF StartAll, roleVars
  <2>2. W \in SUBSET CPU
    BY <2>1 DEF Enabled, AP
  <2> QED BY <2>1, <2>2, MannerAssigned
<1>6. CASE StartThis
  <2>1. PICK p : p = param[call].target
    OBVIOUS
  <2>2. Assign({p}, call) /\ Launch({p}, {}) /\ UNCHANGED LoopMode /\ bsp = "start" /\ Kind(call) = "this"
    BY <1>6, <2>1 DEF StartThis, roleVars, Kind
  <2>3. p \in CPU
    BY <2>1, <2>2, TargetInCPU DEF Inv, BspInv
  <2> QED BY <2>2, <2>3, MannerAssigned
<1>7. CASE \E r \in SwitchParams : SwitchBSP(r)
  <2>1. PICK r \in SwitchParams : Assign({r.target}, Swap) /\ Launch({r.target}, {}) /\ UNCHANGED LoopMode
    BY <1>7 DEF SwitchBSP
  <2>2. r.target \in CPU
    BY DEF SwitchParams
  <2> QED BY <2>1, <2>2, MannerAssigned
<1>8. CASE \E p \in CPU : ResetOrphansLock(p)
  <2>1. PICK p \in CPU : Launch({}, {p}) /\ UNCHANGED <<LoopMode, ApLoopMode, StartupApSignal>>
    BY <1>8 DEF ResetOrphansLock, roleVars
  <2>2. {} \in SUBSET CPU /\ {p} \in SUBSET CPU
    OBVIOUS
  <2> QED BY <2>1, <2>2, MannerWoken
<1>9. CASE \E c \in CPU : ApStep(c) \/ ApRun(c) \/ ApBreak(c) \/ Exchange(c)
  BY <1>9, MannerOfAp
<1>10. CASE \/ CheckAPsStatus \/ UpdateDone \/ StartAllNotReady \/ StartAllNone \/ StartThisRefused
            \/ SwitchDone \/ ChangeApLoopModeCallBack \/ ExitBootServices \/ Idle \/ UNCHANGED vars
            \/ (\E k \in Ids : Expire(k)) \/ (\E r \in Wanted : Startup(r))
            \/ (\E r \in SwitchParams : SwitchRefused(r))
            \/ (\E p \in CPU, b \in BOOLEAN : EnableDisableAP(p, b))
  BY <1>1, <1>10 DEF CheckAPsStatus, UpdateDone, StartAllNotReady, StartAllNone, StartThisRefused, SwitchDone,
     ChangeApLoopModeCallBack, ExitBootServices, Idle, Expire, Startup, SwitchRefused, EnableDisableAP,
     vars, wakeVars, apVars
<1> QED BY <1>2, <1>3, <1>4, <1>5, <1>6, <1>7, <1>8, <1>9, <1>10 DEF Next, BspStep

\* SwitchBSP sets mApFunction, and nobody resets an AP before it ends.
LEMMA FunctionKept ==
  ASSUME Strong, FunctionInv, [Next]_vars
  PROVE  FunctionInv'
<1> USE DEF Strong
<1>1. CASE \E r \in SwitchParams : SwitchBSP(r)
  BY <1>1 DEF SwitchBSP, Launch, FunctionInv
<1>2. CASE \E c \in CPU : ApStep(c) \/ ApRun(c) \/ ApBreak(c) \/ Exchange(c)
  <2>1. UNCHANGED mApFunction
    BY <1>2 DEF ApStep, ApRun, ApBreak, Exchange, ApLoop, ApMwait, ApPoll, ApBusy, ApFetch, ApClear, ApFlag,
       ApNumber, ApFinish, ApLeave, ApBack, SwapStore, SwapLoad, SwapUnload, ApUnchanged, SwapUnchanged, wakeVars
  <2>2. bsp' = bsp \/ bsp = "switch"
    BY <1>2 DEF ApStep, ApRun, ApBreak, Exchange, ApLoop, ApMwait, ApPoll, ApBusy, ApFetch, ApClear, ApFlag,
       ApNumber, ApFinish, ApLeave, ApBack, SwapStore, SwapLoad, SwapUnload, ApUnchanged, bspVars
  <2> QED BY <2>1, <2>2 DEF FunctionInv, Switching
<1>3. CASE UNCHANGED <<bsp, mApFunction>>
  BY <1>3 DEF FunctionInv, Switching
<1>4. CASE UpdateDone
  <2>1. bsp = "update" /\ bsp' = IF call = NULL THEN "free" ELSE IF Kind(call) = "switch" THEN "switched" ELSE "start"
    BY <1>4 DEF UpdateDone, Kind
  <2> QED BY <2>1 DEF CallInv, FunctionInv, Switching
<1>5. CASE \/ CheckAPsStatus \/ UpdateAll \/ UpdateThis \/ StartAllNotReady \/ StartAll
           \/ StartAllNone \/ PollAll \/ StartThisRefused \/ StartThis \/ PollThis \/ SwitchDone
           \/ ChangeApLoopModeCallBack \/ ExitBootServices
           \/ (\E p \in CPU : ResetOrphansLock(p)) \/ (\E r \in Wanted : Startup(r))
  <2>1. bsp' \notin {"switch", "switched"}
    BY <1>5 DEF CheckAPsStatus, UpdateAll, UpdateThis, StartAllNotReady, StartAll, StartAllNone, PollAll,
       StartThisRefused, StartThis, PollThis, SwitchDone, ChangeApLoopModeCallBack, ExitBootServices,
       ResetOrphansLock, Startup, Return
  <2> QED BY <2>1 DEF FunctionInv, Switching
<1>6. CASE \/ Idle \/ UNCHANGED vars \/ (\E k \in Ids : Expire(k)) \/ (\E r \in SwitchParams : SwitchRefused(r))
           \/ (\E p \in CPU, b \in BOOLEAN : EnableDisableAP(p, b))
  BY <1>3, <1>6 DEF Idle, Expire, SwitchRefused, EnableDisableAP, vars, bspVars, wakeVars
<1> QED BY <1>1, <1>2, <1>4, <1>5, <1>6 DEF Next, BspStep

\* Whoever is woken is called,
LEMMA WokenIsCalled ==
  ASSUME Strong, NEW woken \in SUBSET CPU, NEW k, Assign(woken, k), Launch(woken, {}), NEW p \in woken
  PROVE  Called(p)'
<1>1. p \in CPU /\ mApFunction' = "wrapper"
  BY DEF Launch
<1>2. CASE ApLoopMode[p] = "hlt"
  BY <1>1, <1>2 DEF Launch, Called
<1>3. CASE ApLoopMode[p] # "hlt"
  BY <1>1, <1>3 DEF Assign, Called
<1> QED BY <1>2, <1>3

\* and stays so when others are woken or, where APs wait in HLT, reset.
LEMMA StaysCalled ==
  ASSUME Strong, Strong', NEW woken \in SUBSET CPU, NEW reset \in SUBSET CPU, Launch(woken, reset),
         NEW p \in CPU \ reset, Called(p), StartupApSignal[p] => StartupApSignal'[p],
         reset # {} => LoopMode = "hlt"
  PROVE  Called(p)'
<1>1. CASE pc[p] = "enter"
  <2>1. pc'[p] = "enter"
    BY <1>1 DEF Launch
  <2> QED BY <2>1 DEF Called
<1>2. CASE StartupApSignal[p] /\ mApFunction = "wrapper"
  <2>1. reset = {}
    BY <1>2 DEF Strong, HltInv
  <2>2. mApFunction' = "wrapper"
    BY <1>2, <2>1 DEF Launch
  <2> QED BY <1>2, <2>2 DEF Called
<1> QED BY <1>1, <1>2 DEF Called

\* Steps that the APs that are ready have no part in.
LEMMA ReadyFrame ==
  ASSUME Strong, ReadyInv, bsp = "spin" => bsp' = "spin", AP' = AP,
         \A p \in AP : State'[p] = "ready" => State[p] = "ready",
         \A p \in AP : State[p] = "ready" /\ State'[p] = "ready" /\ Called(p) => Called(p)',
         Checked => Checked' /\ UNCHANGED <<CpuList, sysCall>> /\ param'[sysCall] = param[sysCall]
  PROVE  ReadyInv'
<1> SUFFICES ASSUME NEW p \in AP, State'[p] = "ready", bsp' # "spin", ~Called(p)'
             PROVE  OneIsAtIt(p)'
  BY DEF ReadyInv
<1>1. State[p] = "ready" /\ ~Called(p)
  OBVIOUS
<1>2. OneIsAtIt(p)
  BY <1>1 DEF ReadyInv
<1>3. PICK a \in CpuList : State[a] # "ready" \/ Called(a)
  BY <1>2 DEF OneIsAtIt
<1>4. a \in AP
  BY <1>2 DEF OneIsAtIt, Strong, Inv, CheckedInv, Typing, AP
<1>5. State'[a] # "ready" \/ Called(a)'
  BY <1>3, <1>4
<1> QED BY <1>2, <1>5 DEF OneIsAtIt

\* The steps of a processor.
LEMMA ReadyOfAp ==
  ASSUME Strong, BootedInv, LastInv, ReadyInv, NEW c \in CPU, ApStep(c) \/ ApRun(c) \/ ApBreak(c) \/ Exchange(c)
  PROVE  ReadyInv'
<1> USE DEF Strong
<1>1. UNCHANGED <<mApFunction, sysVars, BspNumber, call, callVars>> /\ (bsp' = bsp \/ bsp = "switch")
  BY DEF ApStep, ApRun, ApBreak, Exchange, ApLoop, ApMwait, ApPoll, ApBusy, ApFetch, ApClear, ApFlag,
     ApNumber, ApFinish, ApLeave, ApBack, SwapStore, SwapLoad, SwapUnload, ApUnchanged, SwapUnchanged,
     wakeVars, roleVars, bspVars
<1>2. AP' = AP /\ (Checked => Checked' /\ UNCHANGED <<CpuList, sysCall>> /\ param'[sysCall] = param[sysCall])
  BY <1>1 DEF AP, Checked, sysVars, callVars
<1>3. \A p \in AP : State'[p] = "ready" => State[p] = "ready"
  <2>1. UNCHANGED State \/ \E p : State' = [State EXCEPT ![p] = "busy"] \/ State' = [State EXCEPT ![p] = "finished"]
    BY DEF ApStep, ApRun, ApBreak, Exchange, ApLoop, ApMwait, ApPoll, ApBusy, ApFetch, ApClear, ApFlag,
       ApNumber, ApFinish, ApLeave, ApBack, SwapStore, SwapLoad, SwapUnload, SwapUnchanged, blockVars
  <2> QED BY <2>1 DEF Inv, Typing, AP
<1>4. ASSUME NEW p \in AP, State[p] = "ready", State'[p] = "ready", Called(p) PROVE Called(p)'
  <2>1. p \in CPU /\ Normal /\ num[p] = p /\ pc[p] \in RestPc \cup {"enter"}
    BY <1>4, ReadyAp DEF AP
  <2>2. c # BspNumber
    <3> SUFFICES ASSUME c = BspNumber PROVE FALSE
      OBVIOUS
    <3>1. pc[c] = "bsp" /\ bsp # "switch"
      BY <2>1 DEF ApInv, Normal, Switching
    <3> QED BY <3>1, StepAt
  <2>3. c \in AP /\ num[c] = c /\ pc[c] # "number"
    BY <2>1, <2>2 DEF AP, ApInv, ApFits, Serves, Working, RestPc, LoopPc
  <2>4. CASE c # p
    <3>1. pc'[p] = pc[p]
      BY <2>1, <2>4 DEF ApStep, ApRun, ApBreak, Exchange, ApLoop, ApMwait, ApPoll, ApBusy, ApFetch, ApClear, ApFlag,
         ApNumber, ApFinish, ApLeave, ApBack, SwapStore, SwapLoad, SwapUnload, Shapes
    <3>2. StartupApSignal'[p] = StartupApSignal[p]
      BY <2>1, <2>3, <2>4 DEF ApStep, ApRun, ApBreak, Exchange, ApLoop, ApMwait, ApPoll, ApBusy, ApFetch, ApClear,
         ApFlag, ApNumber, ApFinish, ApLeave, ApBack, SwapStore, SwapLoad, SwapUnload, SwapUnchanged, wakeVars, Shapes
    <3> QED BY <1>1, <1>4, <3>1, <3>2 DEF Called
  <2>5. CASE c = p
    <3>1. ApLoop(p) \/ ApMwait(p) \/ ApBreak(p) \/ ApPoll(p) \/ ApBusy(p) \/ ApBack(p)
      BY <2>1, <2>5, StepAt DEF RestPc
    <3>2. ~ApBusy(p)
      BY <1>4, <2>1 DEF ApBusy, Inv, Typing
    <3>3. CASE ApLoop(p) \/ ApMwait(p) \/ ApBreak(p) \/ ApBack(p)
      <4>1. UNCHANGED StartupApSignal /\ pc[p] # "enter"
        BY <3>3 DEF ApLoop, ApMwait, ApBreak, ApBack, wakeVars
      <4> QED BY <1>1, <1>4, <4>1 DEF Called
    <3>4. CASE ApPoll(p)
      <4>1. pc[p] = "poll" /\ pc' = [pc EXCEPT ![p] = IF StartupApSignal[p] /\ mApFunction = "wrapper" THEN "enter" ELSE "loop"]
        BY <2>1, <3>4 DEF ApPoll
      <4>2. pc'[p] = "enter"
        BY <1>4, <2>1, <4>1 DEF Called, Shapes
      <4> QED BY <4>2 DEF Called
    <3> QED BY <3>1, <3>2, <3>3, <3>4
  <2> QED BY <2>4, <2>5
<1>5. bsp = "spin" => bsp' = "spin"
  BY <1>1
<1> QED BY <1>2, <1>3, <1>4, <1>5, ReadyFrame

\* StartupAllAPs: all are woken, or the first of a single-threaded call.
LEMMA ReadyStartAll ==
  ASSUME Strong, Strong', ReadyInv, StartAll
  PROVE  ReadyInv'
<1> USE DEF Strong
<1>1. PICK woken : /\ woken = IF param[call].single THEN {Min(Enabled)} ELSE Enabled
                   /\ Assign(woken, call) /\ Launch(woken, {})
  BY DEF StartAll
<1>2. /\ bsp = "start" /\ NotIdle = {} /\ Enabled # {}
      /\ State' = [p \in CPU |-> IF p \in Enabled THEN "ready" ELSE State[p]]
      /\ CpuList' = Enabled /\ sysCall' = call /\ result' = [result EXCEPT ![call] = "pending"]
      /\ UNCHANGED <<param, BspNumber, AP>>
  BY DEF StartAll, roleVars, AP
<1>3. Enabled \subseteq CPU /\ Enabled \subseteq AP /\ (woken # {} => woken \subseteq Enabled) /\ woken # {}
  <2>1. Enabled \subseteq AP /\ Enabled \subseteq CPU /\ CPU \in SUBSET Nat
    BY NumAssumption DEF Enabled, AP, CPU
  <2>2. Min(Enabled) \in Enabled
    <3>1. Enabled \in SUBSET Nat
      BY <2>1
    <3> QED BY <1>2, <3>1, Minimum, Zenon DEF Min
  <2> QED BY <1>1, <1>2, <2>1, <2>2
<1>4. \A p \in woken : Called(p)'
  BY <1>1, <1>3, WokenIsCalled
<1>5. ASSUME NEW p \in AP, State'[p] = "ready", p \notin woken PROVE OneIsAtIt(p)'
  <2>1. p \in Enabled
    BY <1>2, <1>5 DEF Enabled, AP
  <2>2. param[call].single
    BY <1>1, <1>5, <2>1
  <2>3. Checked'
    <3>1. call # NULL /\ call \in CallIds
      BY <1>2, NumAssumption DEF Inv, BspInv, Typing, CallIds, Ids
    <3> QED BY <1>2, <3>1 DEF Checked, Shapes
  <2>4. PICK a \in woken : a \in CpuList' /\ Called(a)'
    BY <1>2, <1>3, <1>4
  <2> QED BY <1>2, <2>1, <2>2, <2>3, <2>4 DEF OneIsAtIt
<1> QED BY <1>2, <1>4, <1>5 DEF ReadyInv

\* StartupThisAP.
LEMMA ReadyStartThis ==
  ASSUME Strong, Strong', ReadyInv, StartThis
  PROVE  ReadyInv'
<1> USE DEF Strong
<1>0. PICK t : t = param[call].target
  OBVIOUS
<1>1. /\ bsp = "start" /\ Kind(call) = "this" /\ Assign({t}, call) /\ Launch({t}, {})
      /\ State' = [State EXCEPT ![t] = "ready"] /\ result' = [result EXCEPT ![call] = "pending"]
      /\ UNCHANGED <<sysCall, CpuList, param, BspNumber, AP>>
  BY <1>0 DEF StartThis, sysVars, roleVars, AP, Kind
<1>2. t \in CPU /\ call \in CallIds
  BY <1>0, <1>1, TargetInCPU DEF Inv, BspInv, CallIds
<1>3. Called(t)'
  <2>1. {t} \in SUBSET CPU
    BY <1>2
  <2> QED BY <1>1, <2>1, WokenIsCalled
<1>4. ASSUME NEW p \in AP, Called(p) PROVE Called(p)'
  <2>1. {t} \in SUBSET CPU /\ {} \in SUBSET CPU /\ p \in CPU \ {}
    BY <1>2 DEF AP
  <2>2. StartupApSignal[p] => StartupApSignal'[p]
    BY <1>1, <2>1 DEF Assign
  <2> QED BY <1>1, <1>4, <2>1, <2>2, StaysCalled
<1>5. ASSUME NEW p \in AP, p # t, State'[p] = "ready", ~Called(p)' PROVE OneIsAtIt(p)'
  <2>1. State[p] = "ready" /\ ~Called(p)
    BY <1>1, <1>4, <1>5 DEF Inv, Typing
  <2>2. OneIsAtIt(p)
    BY <1>1, <2>1 DEF ReadyInv
  <2>3. Checked'
    BY <1>1, <1>2, <2>2 DEF OneIsAtIt, Checked, Shapes
  <2>4. PICK a \in CpuList : State[a] # "ready" \/ Called(a)
    BY <2>2 DEF OneIsAtIt
  <2>5. a \in AP
    BY <2>2 DEF OneIsAtIt, Inv, CheckedInv, Typing, AP
  <2>6. State'[a] # "ready" \/ Called(a)'
    BY <1>1, <1>3, <1>4, <2>4, <2>5 DEF Inv, Typing
  <2> QED BY <1>1, <2>2, <2>3, <2>6 DEF OneIsAtIt
<1> QED BY <1>1, <1>3, <1>5 DEF ReadyInv

\* CheckAllAPs: if it finds the AP whose turn it was finished, the next one is woken.
LEMMA ReadyChecked ==
  ASSUME Strong, Strong', ReadyInv, Checked, AllFinished \/ AllNotReady \/ AllTimeout, bsp # "spin",
         UNCHANGED <<param, sysCall, LoopMode, BspNumber>>
  PROVE  ReadyInv'
<1> USE DEF Strong
<1>1. CpuList \in SUBSET CPU /\ CpuList \subseteq AP /\ AP' = AP /\ AP \subseteq CPU
  BY DEF Inv, CheckedInv, Typing, AP
<1>2. CASE AllTimeout
  <2>1. PICK seen \in SUBSET Finished :
          /\ Collect(seen, CpuList \ seen) /\ Assign(NextWaiting(seen), sysCall) /\ Launch({}, CpuList \ seen)
          /\ sysCall \in due
    BY <1>2 DEF AllTimeout
  <2>2. LoopMode = "hlt"
    BY <2>1 DEF ParamInv, Shapes, CallIds
  <2>3. ASSUME NEW p \in AP, State'[p] = "ready" PROVE Called(p)'
    <3>1. p \notin CpuList /\ State[p] = "ready"
      BY <1>1, <2>1, <2>3 DEF Collect, Finished
    <3>2. Called(p)
      BY <3>1 DEF ReadyInv, OneIsAtIt
    <3>3. {} \in SUBSET CPU /\ CpuList \ seen \in SUBSET CPU /\ p \in CPU \ (CpuList \ seen)
      BY <1>1, <3>1
    <3>4. StartupApSignal[p] => StartupApSignal'[p]
      BY <1>1, <2>1 DEF Assign
    <3> QED BY <2>1, <2>2, <3>2, <3>3, <3>4, StaysCalled
  <2> QED BY <1>1, <2>3 DEF ReadyInv
<1>3. CASE AllFinished \/ AllNotReady
  <2> DEFINE W == NextWaiting(Finished)
  <2>1. Collect(Finished, {}) /\ Assign(W, sysCall) /\ Launch(W, {})
    BY <1>3 DEF AllFinished, AllNotReady
  <2>2. W \in SUBSET CPU /\ W \subseteq CpuList \ Finished
    BY <1>1, NextIsLeft
  <2>3. /\ CpuList' = CpuList \ Finished
        /\ \A p \in CPU : State'[p] = IF p \in Finished THEN "idle" ELSE State[p]
    BY <2>1 DEF Collect
  <2>4. \A p \in W : Called(p)'
    <3> HIDE DEF W
    <3> QED BY <2>1, <2>2, WokenIsCalled
  <2>5. ASSUME NEW p \in AP, Called(p) PROVE Called(p)'
    <3>1. {} \in SUBSET CPU /\ p \in CPU \ {}
      BY <1>1
    <3>2. StartupApSignal[p] => StartupApSignal'[p]
      BY <2>1, <3>1 DEF Assign
    <3> HIDE DEF W
    <3> QED BY <2>1, <2>2, <2>5, <3>1, <3>2, StaysCalled
  <2>6. ASSUME NEW p \in AP, State'[p] = "ready", ~Called(p)' PROVE OneIsAtIt(p)'
    <3>1. State[p] = "ready" /\ ~Called(p) /\ p \notin Finished /\ p \in CPU
      BY <1>1, <2>3, <2>5, <2>6
    <3>2. OneIsAtIt(p)
      BY <3>1 DEF ReadyInv
    <3>3. p \in CpuList' /\ p \in CpuList /\ param'[sysCall'].single /\ param[sysCall].single
      BY <2>3, <3>1, <3>2 DEF OneIsAtIt
    <3>4. Checked'
      <4>1. CASE AllNotReady
        BY <4>1 DEF AllNotReady, Checked
      <4>2. CASE AllFinished
        <5>1. FinishCount + Cardinality(Finished) = FinishCount + Cardinality(CpuList)
          BY <4>2 DEF AllFinished, Inv, CheckedInv
        <5>2. IsFiniteSet(CpuList)
          <6>1. IsFiniteSet(CPU)
            BY NumAssumption, FS_Interval DEF CPU
          <6> QED BY <1>1, <6>1, FS_Subset
        <5>3. Finished \subseteq CpuList /\ IsFiniteSet(Finished)
          <6>1. Finished \subseteq CpuList
            BY DEF Finished
          <6> QED BY <5>2, <6>1, FS_Subset
        <5>4. Cardinality(Finished) = Cardinality(CpuList)
          <6>1. Cardinality(Finished) \in Nat /\ Cardinality(CpuList) \in Nat /\ FinishCount \in Nat
            BY <5>2, <5>3, FS_CardinalityType DEF Inv, Typing
          <6> QED BY <5>1, <6>1
        <5>5. Finished = CpuList
          BY <5>2, <5>3, <5>4, FS_Subset
        <5> QED BY <3>1, <3>3, <5>5
      <4> QED BY <1>3, <4>1, <4>2
    <3>5. \E a \in CpuList' : State'[a] # "ready" \/ Called(a)'
      <4>1. CASE Finished # {}
        <5>1. W # {}
          BY <2>3, <3>3, <4>1, NextIsLeft
        <5> QED BY <2>2, <2>3, <2>4, <5>1
      <4>2. CASE Finished = {}
        <5>1. PICK a \in CpuList : State[a] # "ready" \/ Called(a)
          BY <3>2 DEF OneIsAtIt
        <5>2. a \in AP /\ a \in CpuList' /\ State'[a] = State[a]
          BY <1>1, <2>3, <4>2, <5>1
        <5> QED BY <2>5, <5>1, <5>2
      <4> QED BY <4>1, <4>2
    <3> QED BY <3>3, <3>4, <3>5 DEF OneIsAtIt
  <2> QED BY <1>1, <2>6 DEF ReadyInv
<1> QED BY <1>2, <1>3

\* CheckThisAP.
LEMMA ReadyCheckedThis ==
  ASSUME Strong, Strong', ReadyInv, NEW p \in CPU, NEW k \in CallIds, Kind(k) = "this",
         ThisFinished(p, k) \/ ThisNotReady(p, k) \/ ThisTimeout(p, k), bsp # "spin",
         UNCHANGED <<param, sysVars, LoopMode, BspNumber>>
  PROVE  ReadyInv'
<1> USE DEF Strong
<1>1. AP' = AP /\ AP \subseteq CPU
  BY DEF AP
<1>2. Checked => Checked' /\ UNCHANGED <<CpuList, sysCall>> /\ param'[sysCall] = param[sysCall]
  <2>1. Checked => sysCall # k
    BY DEF Checked, Inv, KindInv
  <2>2. \A j \in CallIds : j # k => result'[j] = result[j]
    BY DEF ThisFinished, ThisNotReady, ThisTimeout, Shapes
  <2> QED BY <2>1, <2>2 DEF Checked, sysVars, Inv, Typing, CallIds
<1>3. CASE ThisFinished(p, k) \/ ThisNotReady(p, k)
  <2>1. UNCHANGED <<pc, StartupApSignal, mApFunction>> /\ \A q \in AP : State'[q] = "ready" => State[q] = "ready"
    BY <1>1, <1>3 DEF ThisFinished, ThisNotReady, wakeVars, apVars, Inv, Typing
  <2> QED BY <1>1, <1>2, <2>1, ReadyFrame DEF Called
<1>4. CASE ThisTimeout(p, k)
  <2>1. /\ k \in due /\ Launch({}, {p}) /\ UNCHANGED StartupApSignal
        /\ State' = [State EXCEPT ![p] = "idle"]
    BY <1>4 DEF ThisTimeout
  <2>2. LoopMode = "hlt"
    BY <2>1 DEF ParamInv
  <2>3. \A q \in AP : State'[q] = "ready" => State[q] = "ready" /\ q # p
    BY <1>1, <2>1 DEF Inv, Typing
  <2>4. ASSUME NEW q \in AP, State'[q] = "ready", Called(q) PROVE Called(q)'
    <3>1. {} \in SUBSET CPU /\ {p} \in SUBSET CPU /\ q \in CPU \ {p}
      BY <1>1, <2>3, <2>4
    <3> QED BY <2>1, <2>2, <2>4, <3>1, StaysCalled
  <2> QED BY <1>1, <1>2, <2>3, <2>4, ReadyFrame
<1> QED BY <1>3, <1>4

\* Steps that the APs and their calls have no part in.
LEMMA ReadyStays ==
  ASSUME Strong, ReadyInv, UNCHANGED <<pc, StartupApSignal, mApFunction, BspNumber, CpuList, sysCall>>,
         \A p \in CPU : State'[p] = "ready" => State[p] = "ready", bsp # "spin" \/ bsp' = "spin",
         Checked => Checked' /\ param'[sysCall] = param[sysCall]
  PROVE  ReadyInv'
<1>1. AP' = AP /\ AP \subseteq CPU /\ \A p \in AP : Called(p) => Called(p)'
  BY DEF AP, Called
<1> QED BY <1>1, ReadyFrame

\* The steps of the BSP that wake and reset nobody.
LEMMA ReadyOfBsp ==
  ASSUME Strong, ReadyInv,
         \/ CheckAPsStatus \/ UpdateDone \/ StartAllNotReady \/ StartAllNone \/ StartThisRefused
         \/ ChangeApLoopModeCallBack \/ ExitBootServices \/ Idle \/ UNCHANGED vars
         \/ (\E k \in Ids : Expire(k)) \/ (\E r \in Wanted : Startup(r))
         \/ (\E r \in SwitchParams : SwitchRefused(r))
         \/ (\E p \in CPU, b \in BOOLEAN : EnableDisableAP(p, b))
  PROVE  ReadyInv'
<1> USE DEF Strong
<1>1. CASE CheckAPsStatus \/ UpdateDone \/ ExitBootServices \/ Idle \/ UNCHANGED vars \/ (\E k \in Ids : Expire(k))
  <2>1. UNCHANGED <<State, pc, StartupApSignal, mApFunction, BspNumber, CpuList, sysCall, param, result>>
    BY <1>1 DEF CheckAPsStatus, UpdateDone, ExitBootServices, Idle, Expire, vars, blockVars, wakeVars, sysVars,
       apVars, roleVars, callVars
  <2>2. bsp # "spin" \/ bsp' = "spin"
    BY <1>1 DEF CheckAPsStatus, UpdateDone, ExitBootServices, Idle, Expire, vars, bspVars
  <2> QED BY <2>1, <2>2, ReadyStays DEF Checked
<1>2. CASE StartAllNotReady
  <2>1. /\ bsp = "start" /\ Kind(call) = "all"
        /\ UNCHANGED <<State, pc, StartupApSignal, mApFunction, BspNumber, AP>>
    BY <1>2 DEF StartAllNotReady, Kind, blockVars, wakeVars, apVars, roleVars, AP
  <2>2. ~Checked
    BY <2>1 DEF Inv, BspInv, CheckedInv, Checked
  <2> QED BY <2>1, <2>2, ReadyFrame DEF Called
<1>3. CASE StartAllNone \/ ChangeApLoopModeCallBack
  <2>1. AP' = AP /\ UNCHANGED State /\ \A p \in AP : State[p] # "ready"
    BY <1>3 DEF StartAllNone, ChangeApLoopModeCallBack, Enabled, ApRunning, blockVars, roleVars, AP
  <2> QED BY <2>1 DEF ReadyInv
<1>4. CASE StartThisRefused
  <2>1. /\ bsp = "start" /\ Kind(call) = "this" /\ result' = [result EXCEPT ![call] = "notready"]
        /\ UNCHANGED <<State, pc, StartupApSignal, mApFunction, BspNumber, CpuList, sysCall, param>>
    BY <1>4 DEF StartThisRefused, Kind, blockVars, wakeVars, sysVars, apVars, roleVars
  <2>2. Checked => Checked'
    <3>1. Checked => sysCall # call
      BY <2>1 DEF Inv, KindInv, Checked
    <3> QED BY <2>1, <3>1 DEF Checked, Shapes
  <2> QED BY <2>1, <2>2, ReadyStays
<1>5. CASE (\E r \in Wanted : Startup(r)) \/ (\E r \in SwitchParams : SwitchRefused(r))
  <2>1. PICK r : /\ bsp = "free" /\ calls < MaxCalls /\ param' = [param EXCEPT ![calls + 1] = r]
                 /\ result' = result \/ result' = [result EXCEPT ![calls + 1] = "notready"]
                 /\ UNCHANGED <<State, pc, StartupApSignal, mApFunction, BspNumber, CpuList, sysCall>>
    BY <1>5 DEF Startup, SwitchRefused, blockVars, wakeVars, sysVars, apVars, roleVars
  <2>2. Checked => sysCall # calls + 1
    <3>1. calls + 1 \in Ids /\ calls < calls + 1
      BY <2>1, NumAssumption DEF Ids, Inv, Typing
    <3>2. result[calls + 1] = "none"
      BY <3>1 DEF CallInv
    <3> QED BY <3>2 DEF Checked
  <2>3. Checked => Checked' /\ param'[sysCall] = param[sysCall]
    BY <2>1, <2>2 DEF Checked, Shapes, Inv, Typing, CallIds
  <2> QED BY <2>1, <2>3, ReadyStays
<1>6. CASE \E p \in CPU, b \in BOOLEAN : EnableDisableAP(p, b)
  <2>1. PICK p \in CPU, b \in BOOLEAN :
          /\ State' = [State EXCEPT ![p] = IF b THEN "idle" ELSE "disabled"] /\ bsp = "free"
          /\ UNCHANGED <<pc, StartupApSignal, mApFunction, BspNumber, CpuList, sysCall, param, result>>
    BY <1>6 DEF EnableDisableAP, wakeVars, sysVars, apVars, roleVars
  <2>2. \A q \in CPU : State'[q] = "ready" => State[q] = "ready"
    BY <2>1 DEF Inv, Typing
  <2> QED BY <2>1, <2>2, ReadyStays DEF Checked
<1> QED BY <1>1, <1>2, <1>3, <1>4, <1>5, <1>6

LEMMA ReadyKept ==
  ASSUME Strong, Strong', BootedInv, LastInv, ReadyInv, Careful, [Next]_vars
  PROVE  ReadyInv'
<1> USE DEF Strong
<1>1. CASE UpdateAll \/ PollAll
  <2>1. bsp # "spin" /\ UNCHANGED <<param, sysCall, LoopMode, BspNumber>>
    BY <1>1 DEF UpdateAll, PollAll, roleVars, sysVars
  <2>2. CASE UpdateAll /\ sysEvent = NULL
    <3>1. bsp' = bsp /\ UNCHANGED <<State, pc, StartupApSignal, mApFunction, CpuList, result>>
      BY <2>2 DEF UpdateAll, AllNotReady, AllFinished, AllTimeout, wakeVars, sysVars, apVars
    <3> QED BY <2>1, <3>1, ReadyStays DEF Checked
  <2>3. CASE UpdateAll /\ sysEvent # NULL
    <3>1. Checked /\ (AllFinished \/ AllNotReady \/ AllTimeout)
      BY <2>3 DEF UpdateAll, Inv, KindInv
    <3> QED BY <2>1, <3>1, ReadyChecked
  <2>4. CASE PollAll
    <3>1. Checked /\ (AllFinished \/ AllNotReady \/ AllTimeout)
      BY <2>4 DEF PollAll, Inv, BspInv, Kind
    <3> QED BY <2>1, <3>1, ReadyChecked
  <2> QED BY <1>1, <2>2, <2>3, <2>4
<1>2. CASE UpdateThis
  <2>1. PICK p, k : /\ bsp = "update" /\ UNCHANGED <<param, sysVars, LoopMode, BspNumber>>
                    /\ ThisNotReady(p, k) \/ ThisFinished(p, k) \/ ThisTimeout(p, k)
                    /\ p = Min(Waiting) /\ Waiting # {} /\ k = WaitEvent[p]
    BY <1>2 DEF UpdateThis, roleVars
  <2>2. p \in CPU /\ WaitEvent[p] # NULL
    <3>1. Waiting \subseteq CPU /\ Waiting \in SUBSET Nat
      BY NumAssumption DEF Waiting, CPU
    <3>2. p \in Waiting
      BY <2>1, <3>1, Minimum, Zenon DEF Min
    <3> QED BY <3>1, <3>2 DEF Waiting
  <2>3. k \in CallIds /\ Kind(k) = "this"
    BY <2>1, <2>2 DEF Inv, KindInv, Typing, CallIds
  <2> QED BY <2>1, <2>2, <2>3, ReadyCheckedThis
<1>3. CASE PollThis
  <2>1. PICK p : /\ bsp = "poll" /\ Kind(call) = "this" /\ UNCHANGED <<param, sysVars, LoopMode, BspNumber>>
                 /\ ThisNotReady(p, call) \/ ThisFinished(p, call) \/ ThisTimeout(p, call)
                 /\ p = param[call].target
    BY <1>3 DEF PollThis, roleVars, Kind
  <2>2. p \in CPU /\ call \in CallIds
    BY <2>1, TargetInCPU DEF Inv, BspInv, CallIds
  <2> QED BY <2>1, <2>2, ReadyCheckedThis
<1>4. CASE StartAll \/ StartThis
  BY <1>4, ReadyStartAll, ReadyStartThis
<1>5. CASE \E r \in SwitchParams : SwitchBSP(r)
  <2>1. /\ bsp = "free" /\ ~Pending /\ UNCHANGED <<State, AP>>
    BY <1>5 DEF SwitchBSP, AP
  <2>2. \A p \in CPU, k \in CallIds : ~Outstanding(p, k)
    BY <2>1, NothingLeft DEF Pending, NoneWaits
  <2>3. \A p \in AP : State[p] # "ready"
    BY <2>2, ReadyAp DEF AP
  <2> QED BY <2>1, <2>3 DEF ReadyInv
<1>6. CASE SwitchDone
  <2>1. /\ Switching /\ BspNumber' = param[call].target
        /\ State' = [State EXCEPT ![BspNumber] = IF param[call].enable THEN "idle" ELSE "disabled"]
    BY <1>6 DEF SwitchDone, Switching
  <2>2. \A p \in CPU : p # param[call].target => State'[p] # "ready"
    BY <2>1 DEF SwitchInv, Quiet, AP, Inv, Typing
  <2> QED BY <2>1, <2>2 DEF ReadyInv, AP
<1>7. CASE \E p \in CPU : ResetOrphansLock(p)
  BY <1>7 DEF ResetOrphansLock, ReadyInv
<1>8. CASE \E c \in CPU : ApStep(c) \/ ApRun(c) \/ ApBreak(c) \/ Exchange(c)
  BY <1>8, ReadyOfAp
<1>9. CASE \/ CheckAPsStatus \/ UpdateDone \/ StartAllNotReady \/ StartAllNone \/ StartThisRefused
           \/ ChangeApLoopModeCallBack \/ ExitBootServices \/ Idle \/ UNCHANGED vars
           \/ (\E k \in Ids : Expire(k)) \/ (\E r \in Wanted : Startup(r))
           \/ (\E r \in SwitchParams : SwitchRefused(r))
           \/ (\E p \in CPU, b \in BOOLEAN : EnableDisableAP(p, b))
  BY <1>9, ReadyOfBsp
<1> QED BY <1>1, <1>2, <1>3, <1>4, <1>5, <1>6, <1>7, <1>8, <1>9 DEF Next, BspStep

\* Whoever has been given work comes to it: WakeUpAP and the hand-over of a single-threaded
\* call lose no wake-up where MWAIT is broken now and then, and of the two processors in
\* AsmExchangeRole and in the wait at the end of SwitchBSP one always gets on.
THEOREM WorkAlwaysGoesOn == ASSUME Careful, TimeoutsInHlt, BreakEvents PROVE Spec => []WorkGoesOn
<1>1. Init => WakeInv /\ LastInv
  <2> SUFFICES ASSUME Init PROVE WakeInv /\ LastInv
    OBVIOUS
  <2>1. \A p \in CPU : State[p] = "idle" /\ ApLoopMode[p] = "hlt" /\ StartupApSignal[p] = FALSE
    BY DEF Init
  <2>2. bsp = "free" /\ call = NULL
    BY DEF Init
  <2> QED BY <2>1, <2>2, Numbers DEF WakeInv, MannerInv, ReadyInv, FunctionInv, LastInv, Switching, AP
<1>2. WakeInv /\ LastInv /\ (Strong /\ BootedInv) /\ (Strong /\ BootedInv)' /\ [Next]_vars => (WakeInv /\ LastInv)'
  BY LastKept, MannerKept, FunctionKept, ReadyKept DEF WakeInv
<1>3. WakeInv /\ LastInv /\ (Strong /\ BootedInv) => WorkGoesOn
  BY GoesOn
<1>4. Spec => [](Strong /\ BootedInv)
  BY StrongAlways
<1> QED BY <1>1, <1>2, <1>3, <1>4, PTL DEF Spec
=============================================================================
