----------------------------- MODULE SyncTimer -----------------------------
(***************************************************************************)
(* The two polled timers on the performance counter: the one of the SMM    *)
(* rendezvous, which compares with the time it was started at              *)
(* (PiSmmCpuDxeSmm/SyncTimer.c), and the one of the DXE MP services, which *)
(* adds up the time between polls (CpuMpDxe/MpService.c).  The counter     *)
(* rolls over: it counts from Start to End, up or down, and starts again.  *)
(***************************************************************************)
EXTENDS Integers

CONSTANTS
  Start, End,      \* GetPerformanceCounterProperties
  Timeout,         \* mTimeoutTicker, and the argument of CheckTimeout
  MaxElapsed       \* bound: ticks that pass between two starts of the timers

ASSUME CounterAssumption == Start \in Nat /\ End \in Nat
ASSUME TimeoutAssumption == Timeout \in Nat /\ MaxElapsed \in Nat

VARIABLES
  counter,         \* the performance counter
  Timer,           \* what StartSyncTimer has returned
  timedOut,        \* what IsSyncTimerTimeout has returned last
  PreviousTime, TotalTime, expired,   \* the same of CheckTimeout
  \* History: ticks since the timers were started, ticks since CheckTimeout has
  \* last read the counter, and whether that has never been a whole cycle.
  elapsed, gap, prompt

clockVars == <<counter, elapsed, gap, prompt>>
syncVars  == <<Timer, timedOut>>
checkVars == <<PreviousTime, TotalTime, expired>>
vars == <<clockVars, syncVars, checkVars>>
-----------------------------------------------------------------------------
\* InitializeSmmTimer: the direction, and the counts in a roll-over cycle.
mCountDown == End < Start
mCycle == IF mCountDown THEN Start - End ELSE End - Start
Counts == IF mCountDown THEN End..Start ELSE Start..End

\* One tick of the counter.
Following(v) == IF v = End THEN Start ELSE IF mCountDown THEN v - 1 ELSE v + 1

\* Faulty variant: the roll-over is one count short.
SyncDelta_ShortCycle(CurrentTimer) ==
  LET moved == IF mCountDown THEN Timer - CurrentTimer ELSE CurrentTimer - Timer
  IN  IF moved >= 0 THEN moved ELSE mCycle + moved

\* Delta of IsSyncTimerTimeout.
SyncDelta(CurrentTimer) ==
  IF mCountDown
    THEN IF CurrentTimer <= Timer THEN Timer - CurrentTimer
                                  ELSE mCycle - (CurrentTimer - Timer) + 1
    ELSE IF CurrentTimer >= Timer THEN CurrentTimer - Timer
                                  ELSE mCycle - (Timer - CurrentTimer) + 1

\* Delta of CheckTimeout.
CheckDelta(CurrentTime) ==
  LET Delta == IF Start > End THEN PreviousTime - CurrentTime ELSE CurrentTime - PreviousTime
      Cycle == mCycle + 1
  IN  IF Delta < 0 THEN Delta + Cycle ELSE Delta
-----------------------------------------------------------------------------
Init ==
  /\ counter \in Counts /\ elapsed = 0 /\ gap = 0 /\ prompt = TRUE
  /\ Timer = counter /\ timedOut = FALSE
  /\ PreviousTime = counter /\ TotalTime = 0 /\ expired = FALSE

Tick ==
  /\ elapsed < MaxElapsed /\ elapsed' = elapsed + 1
  /\ counter' = Following(counter)
  /\ gap' = gap + 1
  /\ prompt' = (prompt /\ gap + 1 <= mCycle)
  /\ UNCHANGED <<syncVars, checkVars>>

\* StartSyncTimer and CalculateTimeout read the counter.
StartTimers ==
  /\ Timer' = counter /\ timedOut' = FALSE
  /\ PreviousTime' = counter /\ TotalTime' = 0 /\ expired' = FALSE
  /\ elapsed' = 0 /\ gap' = 0 /\ prompt' = TRUE
  /\ UNCHANGED counter

IsSyncTimerTimeout ==
  /\ timedOut' = (SyncDelta(counter) >= Timeout)
  /\ UNCHANGED <<clockVars, Timer, checkVars>>

\* Faulty variant: the next call measures from the start again.
CheckTimeout_KeepsPrevious ==
  /\ TotalTime' = TotalTime + CheckDelta(counter)
  /\ expired' = (TotalTime' > Timeout)
  /\ gap' = 0
  /\ UNCHANGED <<counter, elapsed, prompt, PreviousTime, syncVars>>

\* A timeout of zero is no timeout: the call returns before it reads anything.
CheckTimeout ==
  /\ Timeout # 0
  /\ TotalTime' = TotalTime + CheckDelta(counter)
  /\ PreviousTime' = counter
  /\ expired' = (TotalTime' > Timeout)
  /\ gap' = 0
  /\ UNCHANGED <<counter, elapsed, prompt, syncVars>>

Next == Tick \/ StartTimers \/ IsSyncTimerTimeout \/ CheckTimeout

Spec == Init /\ [][Next]_vars
-----------------------------------------------------------------------------
\* All readings are values of the counter, and the total that CheckTimeout adds
\* up is never negative, on either side of a roll-over.
TypeOK ==
  /\ counter \in Counts /\ Timer \in Counts /\ PreviousTime \in Counts
  /\ timedOut \in BOOLEAN /\ expired \in BOOLEAN /\ prompt \in BOOLEAN
  /\ TotalTime \in Nat /\ elapsed \in Nat /\ gap \in Nat

SyncNeverEarly == timedOut => elapsed >= Timeout
SyncExact == elapsed <= mCycle => SyncDelta(counter) = elapsed
CheckNeverEarly == expired => elapsed > Timeout
CheckExact == prompt => TotalTime + gap = elapsed

\* A wait of the SMM rendezvous that ends by timeout has lasted at least
\* mTimeoutTicker ticks, wherever in its cycle the counter was when the wait
\* began and however often it has rolled over since.  Polled within one cycle, the
\* timer knows exactly how long the wait has lasted: it ends at the first poll
\* that is due (SyncTimer.c 86-121).
SyncMeasures == SyncNeverEarly /\ SyncExact

\* A procedure is never aborted before its timeout has passed, however late and
\* irregular the polls are.  As long as polls come within a cycle of each other
\* CheckTimeout adds up every tick, over any number of roll-overs (MpService.c
\* 1183-1204).
CheckMeasures == CheckNeverEarly /\ CheckExact
=============================================================================
