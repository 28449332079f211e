-------------------------- MODULE SyncTimer_proof --------------------------
(***************************************************************************)
(* The timers are right for every counter, every timeout and any number of *)
(* roll-overs.                                                             *)
(***************************************************************************)
EXTENDS SyncTimer, TLAPS

\* A tick adds one to the time that either timer would measure, or starts it
\* again at zero after a whole cycle.
LEMMA DeltaTick ==
  ASSUME TypeOK
  PROVE  /\ SyncDelta(counter) \in 0..mCycle
         /\ CheckDelta(counter) \in 0..mCycle
         /\ Following(counter) \in Counts
         /\ SyncDelta(Following(counter)) =
              IF SyncDelta(counter) = mCycle THEN 0 ELSE SyncDelta(counter) + 1
         /\ CheckDelta(Following(counter)) =
              IF CheckDelta(counter) = mCycle THEN 0 ELSE CheckDelta(counter) + 1
<1>1. CASE mCountDown
  BY <1>1, CounterAssumption DEF TypeOK, Counts, SyncDelta, CheckDelta, Following, mCycle, mCountDown
<1>2. CASE ~mCountDown
  BY <1>2, CounterAssumption DEF TypeOK, Counts, SyncDelta, CheckDelta, Following, mCycle, mCountDown
<1> QED BY <1>1, <1>2

\* Neither timer is ever ahead of the time that has passed; both are exact as
\* long as less than a roll-over cycle lies between the readings.
Measured ==
  /\ SyncDelta(counter) <= elapsed
  /\ CheckDelta(counter) <= gap
  /\ gap <= mCycle => CheckDelta(counter) = gap
  /\ prompt => gap <= mCycle
  /\ TotalTime + gap <= elapsed

Inv == TypeOK /\ Measured /\ SyncNeverEarly /\ SyncExact /\ CheckNeverEarly /\ CheckExact

LEMMA StartZero ==
  ASSUME counter \in Counts, Timer = counter, PreviousTime = counter
  PROVE  SyncDelta(counter) = 0 /\ CheckDelta(counter) = 0
<1>1. counter \in Nat
  BY CounterAssumption DEF Counts, mCountDown
<1>2. SyncDelta(counter) = 0
  BY <1>1 DEF SyncDelta
<1>3. counter - counter = 0 /\ ~(0 < 0)
  BY <1>1
<1>4. CheckDelta(counter) = 0
  BY <1>3, Zenon DEF CheckDelta
<1> QED BY <1>2, <1>4

LEMMA InitInv == Init => Inv
<1> SUFFICES ASSUME Init PROVE Inv OBVIOUS
<1>1. mCycle \in Nat
  BY CounterAssumption DEF mCycle, mCountDown
<1>2. TypeOK
  BY DEF Init, TypeOK
<1>3. SyncDelta(counter) = 0 /\ CheckDelta(counter) = 0
  BY StartZero DEF Init
<1> QED BY <1>1, <1>2, <1>3, TimeoutAssumption
   DEF Init, Inv, Measured, SyncNeverEarly, SyncExact, CheckNeverEarly, CheckExact

LEMMA NextInv == Inv /\ [Next]_vars => Inv'
<1> SUFFICES ASSUME Inv, [Next]_vars PROVE Inv' OBVIOUS
<1> USE TimeoutAssumption
<1>0. mCycle \in Nat
  BY CounterAssumption DEF mCycle, mCountDown
<1>1. CASE Tick
  <2>1. TypeOK'
    <3>1. prompt' \in BOOLEAN
      BY <1>1, Zenon DEF Tick
    <3> QED BY <1>1, <3>1, DeltaTick DEF Tick, Inv, TypeOK, syncVars, checkVars
  <2>2. /\ SyncDelta(counter)' = SyncDelta(Following(counter))
        /\ CheckDelta(counter)' = CheckDelta(Following(counter))
    BY <1>1 DEF Tick, syncVars, checkVars, SyncDelta, CheckDelta
  <2>3. prompt' = (prompt /\ gap' <= mCycle) /\ UNCHANGED <<timedOut, expired, TotalTime>>
    BY <1>1 DEF Tick, syncVars, checkVars
  <2>4. elapsed' = elapsed + 1 /\ gap' = gap + 1
    BY <1>1 DEF Tick
  <2>5. prompt' => prompt /\ gap' <= mCycle
    BY <2>3, Zenon
  <2> HIDE DEF SyncDelta, CheckDelta, mCycle
  <2>6. Measured'
    BY <1>0, <2>2, <2>3, <2>4, <2>5, DeltaTick DEF Inv, Measured, TypeOK
  <2>7. SyncExact'
    BY <1>0, <2>2, <2>4, DeltaTick DEF Inv, SyncExact, TypeOK
  <2> QED BY <2>1, <2>3, <2>4, <2>5, <2>6, <2>7
       DEF Inv, TypeOK, SyncNeverEarly, CheckNeverEarly, CheckExact
<1>2. CASE StartTimers
  <2>1. SyncDelta(counter)' = 0 /\ CheckDelta(counter)' = 0
    <3>1. counter \in Nat
      BY CounterAssumption DEF Inv, TypeOK, Counts, mCountDown
    <3>2. counter - counter = 0 /\ ~(0 < 0) /\ counter <= counter /\ counter >= counter
      BY <3>1
    <3> QED BY <1>2, <3>2, Zenon DEF StartTimers, SyncDelta, CheckDelta
  <2>2. TypeOK'
    BY <1>2 DEF StartTimers, Inv, TypeOK
  <2> QED BY <1>0, <1>2, <2>1, <2>2
       DEF StartTimers, Inv, Measured, SyncNeverEarly, SyncExact, CheckNeverEarly, CheckExact
<1>3. CASE IsSyncTimerTimeout
  <2>1. SyncDelta(counter)' = SyncDelta(counter) /\ CheckDelta(counter)' = CheckDelta(counter)
    BY <1>3 DEF IsSyncTimerTimeout, clockVars, checkVars, SyncDelta, CheckDelta
  <2>2. timedOut' \in BOOLEAN
    <3>1. (SyncDelta(counter) >= Timeout) \in BOOLEAN
      OBVIOUS
    <3> QED BY <1>3, <3>1, Zenon DEF IsSyncTimerTimeout
  <2>3. TypeOK'
    BY <1>3, <2>2 DEF IsSyncTimerTimeout, clockVars, checkVars, Inv, TypeOK
  <2>4. SyncNeverEarly'
    <3>1. timedOut' => SyncDelta(counter) >= Timeout
      BY <1>3, Zenon DEF IsSyncTimerTimeout
    <3>2. elapsed' = elapsed
      BY <1>3 DEF IsSyncTimerTimeout, clockVars
    <3> QED BY <3>1, <3>2, DeltaTick, <1>0 DEF Inv, Measured, SyncNeverEarly, TypeOK
  <2> QED BY <1>3, <2>1, <2>3, <2>4
       DEF IsSyncTimerTimeout, clockVars, checkVars, Inv, Measured, SyncExact, CheckNeverEarly, CheckExact
<1>4. CASE CheckTimeout
  <2>1. SyncDelta(counter)' = SyncDelta(counter) /\ CheckDelta(counter)' = 0
    <3>1. counter \in Nat
      BY CounterAssumption DEF Inv, TypeOK, Counts, mCountDown
    <3>2. counter - counter = 0 /\ ~(0 < 0)
      BY <3>1
    <3>3. CheckDelta(counter)' = 0
      BY <1>4, <3>2, Zenon DEF CheckTimeout, CheckDelta
    <3> QED BY <1>4, <3>3 DEF CheckTimeout, syncVars, SyncDelta
  <2>2. expired' \in BOOLEAN
    <3>1. (TotalTime' > Timeout) \in BOOLEAN
      OBVIOUS
    <3> QED BY <1>4, <3>1, Zenon DEF CheckTimeout
  <2>3. TotalTime' \in Nat
    BY <1>0, <1>4, DeltaTick DEF CheckTimeout, Inv, TypeOK
  <2>4. TypeOK'
    BY <1>4, <2>2, <2>3 DEF CheckTimeout, syncVars, Inv, TypeOK
  <2>5. TotalTime' <= elapsed /\ (prompt => TotalTime' = elapsed)
    BY <1>0, <1>4, DeltaTick DEF CheckTimeout, Inv, Measured, CheckExact, TypeOK
  <2>6. expired' => TotalTime' > Timeout
    BY <1>4, Zenon DEF CheckTimeout
  <2>7. gap' = 0 /\ elapsed' = elapsed /\ timedOut' = timedOut
    BY <1>4 DEF CheckTimeout, syncVars
  <2>8. prompt' => TotalTime' = elapsed
    BY <1>4, <2>5, Zenon DEF CheckTimeout
  <2>9. Measured'
    <3>1. SyncDelta(counter)' <= elapsed'
      BY <2>1, <2>7 DEF Inv, Measured
    <3>2. CheckDelta(counter)' = gap' /\ gap' <= mCycle /\ gap' <= gap'
      BY <1>0, <2>1, <2>7
    <3>3. TotalTime' + gap' <= elapsed'
      BY <2>3, <2>5, <2>7
    <3> QED BY <3>1, <3>2, <3>3 DEF Measured
  <2>10. SyncNeverEarly' /\ SyncExact'
    BY <2>1, <2>7 DEF Inv, SyncNeverEarly, SyncExact
  <2>11. CheckNeverEarly'
    BY <2>3, <2>5, <2>6, <2>7 DEF Inv, TypeOK, CheckNeverEarly
  <2>12. CheckExact'
    BY <2>3, <2>7, <2>8 DEF CheckExact
  <2> QED BY <2>4, <2>9, <2>10, <2>11, <2>12 DEF Inv
<1>5. CASE UNCHANGED vars
  <2>1. SyncDelta(counter)' = SyncDelta(counter) /\ CheckDelta(counter)' = CheckDelta(counter)
    BY <1>5 DEF vars, clockVars, syncVars, checkVars, SyncDelta, CheckDelta
  <2> QED BY <1>5, <2>1 DEF vars, clockVars, syncVars, checkVars, Inv, TypeOK, Measured,
       SyncNeverEarly, SyncExact, CheckNeverEarly, CheckExact
<1> QED BY <1>1, <1>2, <1>3, <1>4, <1>5 DEF Next

LEMMA Invariance == Spec => []Inv
BY InitInv, NextInv, PTL DEF Spec

\* IsSyncTimerTimeout never ends a wait early, and a wait shorter than a
\* roll-over cycle is measured exactly (SyncTimer.c 79-122).
THEOREM SyncTimerRight == Spec => []SyncMeasures
<1>1. Inv => SyncMeasures
  BY DEF Inv, SyncMeasures
<1> QED BY <1>1, Invariance, PTL

\* CheckTimeout never expires early, and polled once per cycle it adds up every
\* tick over any number of roll-overs (CpuMpDxe/MpService.c 1170-1205).
THEOREM CheckTimeoutRight == Spec => []CheckMeasures
<1>1. Inv => CheckMeasures
  BY DEF Inv, CheckMeasures
<1> QED BY <1>1, Invariance, PTL
=============================================================================
