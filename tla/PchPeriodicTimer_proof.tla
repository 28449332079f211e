----------------------- MODULE PchPeriodicTimer_proof -----------------------
(***************************************************************************)
(* The rates of the chipset timers suit every registered child, and no     *)
(* child of the SWSMI timer is called early, for any number of records,    *)
(* any intervals and any order of operations and ticks.                    *)
(***************************************************************************)
EXTENDS PchPeriodicTimer, ProofLemmas, TLAPS

Record == [ival : Nat, period : Nat, elapsed : Nat]

\* No record is in the list twice and a listed one has an interval of the
\* hardware.
Typing ==
  /\ db \in Seq(Slot) /\ Distinct(db)
  /\ rec \in [Slot -> Record]
  /\ \A c \in Range(db) : rec[c].ival \in Intervals

Inv == Typing /\ RateFastEnough

\* An interval belongs to a timer, so that the timer of a record is used.
LEMMA TimerOfInterval ==
  ASSUME NEW i \in Intervals
  PROVE  /\ ContextToTimerInterval(i) \in Timers
         /\ i \in mSmmPeriodicTimerIntervals[ContextToTimerInterval(i)]
<1>1. \E t \in Timers : i \in mSmmPeriodicTimerIntervals[t]
  BY DEF Timers, Intervals, mSmmPeriodicTimerIntervals
<1> QED BY <1>1, Zenon DEF ContextToTimerInterval

\* A timer is programmed to at most the interval of each of its records.
LEMMA MinReqIntervalFacts ==
  ASSUME NEW rs, NEW r, NEW t \in Timers, NEW c \in rs, r[c].ival \in mSmmPeriodicTimerIntervals[t]
  PROVE  MinReqInterval(rs, r, t) <= r[c].ival
<1> DEFINE is == {r[a].ival : a \in rs} \cap mSmmPeriodicTimerIntervals[t]
<1>1. is \in SUBSET Nat
  BY TimerAssumption DEF Timers, Intervals, mSmmPeriodicTimerIntervals
<1>2. r[c].ival \in is
  OBVIOUS
<1> HIDE DEF is
<1>3. PICK m \in is : \A n \in is : m <= n
  BY <1>1, <1>2, Minimum, Zenon
<1>4. \A n \in is : (CHOOSE i \in is : \A j \in is : i <= j) <= n
  BY <1>3, Zenon
<1>5. MinReqInterval(rs, r, t) = CHOOSE i \in is : \A j \in is : i <= j
  BY DEF MinReqInterval, is
<1> QED BY <1>2, <1>4, <1>5

\* After PchSmmPeriodicTimerProgramTimers the rates suit the records it was
\* given.
LEMMA ProgramTimersFacts ==
  ASSUME NEW rs, NEW r, NEW more, NEW slow, ProgramTimers(rs, r, more, slow),
         \A c \in rs : r[c].ival \in Intervals
  PROVE  \A c \in rs : rate'[ContextToTimerInterval(r[c].ival)] <= r[c].ival
<1> SUFFICES ASSUME NEW c \in rs
             PROVE  rate'[ContextToTimerInterval(r[c].ival)] <= r[c].ival
  OBVIOUS
<1> DEFINE t == ContextToTimerInterval(r[c].ival)
<1>1. t \in Timers /\ r[c].ival \in mSmmPeriodicTimerIntervals[t]
  BY TimerOfInterval
<1> HIDE DEF t
<1>2. HasChildren(rs, r, t)
  BY <1>1 DEF HasChildren
<1>3. rate'[t] = MinReqInterval(rs, r, t)
  BY <1>1, <1>2 DEF ProgramTimers
<1> QED BY <1>1, <1>3, MinReqIntervalFacts DEF t

-----------------------------------------------------------------------------
(* One lemma for each operation.                                           *)

LEMMA Initially == Init => Inv
<1> SUFFICES ASSUME Init PROVE Inv
  OBVIOUS
<1>1. db = <<>> /\ rec = [c \in Slot |-> Blank]
  BY DEF Init
<1>2. Range(db) = {} /\ Distinct(db) /\ db \in Seq(Slot)
  BY <1>1 DEF Range, Distinct
<1>3. Blank \in Record
  BY DEF Blank, Record
<1> QED BY <1>1, <1>2, <1>3 DEF Inv, Typing, RateFastEnough

\* Registration programs both timers for the records with the new one.
LEMMA RegisterKeeps ==
  ASSUME Inv, NEW i \in Intervals, NEW p \in Periods, Register(i, p)
  PROVE  Inv'
<1> DEFINE c == Min(Slot \ Range(db))
           r == [rec EXCEPT ![c] = [ival |-> i, period |-> p, elapsed |-> 0]]
<1>1. /\ Slot \ Range(db) # {} /\ rec' = r /\ db' = Append(db, c)
      /\ ProgramTimers(Range(db) \cup {c}, r, {ContextToTimerInterval(i)}, hurried \ {c})
  BY DEF Register
<1>2. c \in Slot \ Range(db)
  <2>1. Slot \ Range(db) \in SUBSET Nat
    BY TimerAssumption
  <2> QED BY <1>1, <2>1, Minimum, Zenon DEF Min
<1> HIDE DEF c
<1>3. db' \in Seq(Slot) /\ Distinct(db') /\ Range(db') = Range(db) \cup {c}
  BY <1>1, <1>2, AppendRange DEF Inv, Typing
<1>4. [ival |-> i, period |-> p, elapsed |-> 0] \in Record
  BY TimerAssumption DEF Record
<1>5. r \in [Slot -> Record]
  BY <1>4 DEF Inv, Typing
<1>6. \A a \in Range(db) \cup {c} : r[a].ival \in Intervals
  <2>1. r[c].ival = i
    BY <1>2 DEF Inv, Typing
  <2>2. \A a \in Range(db) : a \in Slot /\ a # c
    BY <1>2, RangeOfList DEF Inv, Typing
  <2>3. \A a \in Range(db) : r[a] = rec[a]
    BY <2>2 DEF Inv, Typing
  <2> QED BY <2>1, <2>3 DEF Inv, Typing
<1> HIDE DEF r
<1>7. \A a \in Range(db') : rate'[ContextToTimerInterval(rec'[a].ival)] <= rec'[a].ival
  BY <1>1, <1>3, <1>6, ProgramTimersFacts
<1>8. Typing'
  BY <1>1, <1>3, <1>5, <1>6 DEF Typing
<1> QED BY <1>7, <1>8 DEF Inv, RateFastEnough, TimerOf

\* The rate stays when a record is taken out.
LEMMA UnRegisterKeeps ==
  ASSUME Inv, NEW c \in Slot, UnRegister(c)
  PROVE  Inv'
<1>1. PICK i \in DOMAIN db : db[i] = c /\ db' = RemoveAt(db, i)
  BY DEF UnRegister
<1>2. rec' = [rec EXCEPT ![c] = Blank] /\ rate' = rate
  BY DEF UnRegister
<1>3. db' \in Seq(Slot) /\ Distinct(db') /\ Range(db') = Range(db) \ {c}
  BY <1>1, RemoveAtFacts, RemoveAtRange DEF Inv, Typing
<1>4. \A a \in Range(db') : a \in Range(db) /\ rec'[a] = rec[a]
  <2>1. \A a \in Range(db) : a \in Slot
    BY RangeOfList DEF Inv, Typing
  <2> QED BY <1>2, <1>3, <2>1 DEF Inv, Typing
<1>5. rec' \in [Slot -> Record]
  <2>1. Blank \in Record
    BY DEF Blank, Record
  <2> QED BY <1>2, <2>1 DEF Inv, Typing
<1>6. Typing'
  BY <1>3, <1>4, <1>5 DEF Inv, Typing
<1>7. RateFastEnough'
  BY <1>2, <1>4 DEF Inv, RateFastEnough, TimerOf
<1> QED BY <1>6, <1>7 DEF Inv

\* A tick changes the elapsed times only.
LEMMA ServeKeeps ==
  ASSUME Inv, Serve
  PROVE  Inv'
<1>1. UNCHANGED <<db, rate>>
  BY DEF Serve
<1>2. PICK t \in Timers :
        rec' = [c \in Slot |-> IF c \notin Range(db) \/ TimerOf(c) # t THEN rec[c]
                               ELSE [rec[c] EXCEPT !.elapsed = IF c \in due' THEN 0 ELSE Elapsed(rec[c])]]
  BY DEF Serve
<1>3. \A c \in Slot : rec'[c] \in Record /\ rec'[c].ival = rec[c].ival
  <2> SUFFICES ASSUME NEW c \in Slot PROVE rec'[c] \in Record /\ rec'[c].ival = rec[c].ival
    OBVIOUS
  <2>1. rec[c] \in Record
    BY DEF Inv, Typing
  <2>2. Elapsed(rec[c]) \in Nat
    BY <2>1 DEF Elapsed, Record
  <2>3. \/ rec'[c] = rec[c]
        \/ \E e \in Nat : rec'[c] = [rec[c] EXCEPT !.elapsed = e]
    BY <1>2, <2>2
  <2> QED BY <2>1, <2>3 DEF Record
<1>4. rec' \in [Slot -> Record]
  BY <1>2, <1>3
<1>5. \A c \in Range(db) : rec'[c].ival = rec[c].ival
  BY <1>3, RangeOfList DEF Inv, Typing
<1>6. Typing'
  BY <1>1, <1>4, <1>5 DEF Inv, Typing
<1>7. RateFastEnough'
  BY <1>1, <1>5 DEF Inv, RateFastEnough, TimerOf
<1> QED BY <1>6, <1>7 DEF Inv

-----------------------------------------------------------------------------
\* No operation slows a timer down below what a child asked for.
LEMMA Step ==
  ASSUME Inv, [Next]_vars
  PROVE  Inv'
<1>1. CASE \E i \in Intervals, p \in Periods : i <= p /\ Register(i, p)
  BY <1>1, RegisterKeeps
<1>2. CASE \E c \in Slot : UnRegister(c)
  BY <1>2, UnRegisterKeeps
<1>3. CASE Serve
  BY <1>3, ServeKeeps
<1>4. CASE ClearSource
  <2>1. UNCHANGED <<db, rec>> /\ ProgramTimers(Range(db), rec, {}, hurried \ due)
    BY <1>4 DEF ClearSource
  <2>2. \A c \in Range(db) : rate'[ContextToTimerInterval(rec[c].ival)] <= rec[c].ival
    BY <2>1, ProgramTimersFacts DEF Inv, Typing
  <2> QED BY <2>1, <2>2 DEF Inv, Typing, RateFastEnough, TimerOf
<1>5. CASE \/ \E c \in Slot : Pause(c) \/ Resume(c)
           \/ Advance
           \/ UNCHANGED vars
  <2>1. UNCHANGED <<db, rec, rate>>
    BY <1>5 DEF Pause, Resume, Advance, vars
  <2> QED BY <2>1 DEF Inv, Typing, RateFastEnough, TimerOf
<1> QED BY <1>1, <1>2, <1>3, <1>4, <1>5 DEF Next, Children

(* PchSmmPeriodicTimerProgramTimers: whatever was registered, unregistered,*)
(* paused and resumed, and at whichever ticks, no timer runs slower than a *)
(* registered child asked for.                                             *)
THEOREM RatesAlwaysFastEnough == Spec => []RateFastEnough
<1>1. Init => Inv
  BY Initially
<1>2. Inv /\ [Next]_vars => Inv'
  BY Step
<1>3. Inv => RateFastEnough
  BY DEF Inv
<1> QED BY <1>1, <1>2, <1>3, PTL DEF Spec
-----------------------------------------------------------------------------
(* No child of the SWSMI timer is called early, unless it was hurried.     *)

SW == "SWSMI_TIMER"

\* There is a longest interval or period, up to which real time is counted.
HasLongest == \E i \in Intervals \cup Periods : \A j \in Intervals \cup Periods : j <= i

\* The time n, counted up to MaxSince, is at least x.
Reached(n, x) == x <= n \/ MaxSince <= n

\* Time that has passed since the last tick that a record was told of: a
\* whole interval when another tick is pending.
Untold(c) ==
  IF SW \notin sts THEN age[SW] ELSE IF pc = "idle" THEN rec[c].ival ELSE 0

\* The elapsed time that a record counts, and what is still to be told, has
\* really passed, unless the timer has run faster than the record asked for.
TimeInv ==
  /\ since \in [Slot -> Nat] /\ age \in [Timers -> Nat]
  /\ SW \in sts => age[SW] = 0
  /\ \A c \in Range(db) : rec[c].period \in Periods
  /\ \A c \in due : c \in Range(db) /\ rec[c].elapsed = 0
  /\ \A c \in Range(db) :
       TimerOf(c) = SW /\ c \notin hurried =>
         /\ rate[SW] \in Nat /\ rec[c].ival <= rate[SW]
         /\ Reached(since[c], rec[c].elapsed + Untold(c))

\* The largest number that is counted is longer than every period.
LEMMA LongestFacts ==
  ASSUME HasLongest
  PROVE  MaxSince \in Nat /\ \A p \in Periods : p < MaxSince
<1> DEFINE all == Intervals \cup Periods
<1>1. all \in SUBSET Nat
  BY TimerAssumption
<1>2. PICK m \in all : \A j \in all : j <= m
  BY DEF HasLongest
<1> HIDE DEF all
<1>3. Longest \in all /\ \A j \in all : j <= Longest
  <2>1. Longest = CHOOSE i \in all : \A j \in all : j <= i
    BY DEF Longest, all
  <2> QED BY <1>2, <2>1, Zenon
<1>4. \A p \in Periods : p \in all
  BY DEF all
<1>5. Longest \in Nat /\ \A p \in Periods : p \in Nat /\ p <= Longest
  BY <1>1, <1>3, <1>4
<1>6. MaxSince = Longest + 1
  BY DEF MaxSince
<1> QED BY <1>5, <1>6

\* The shortest interval is one of the timer's.
LEMMA MinReqIntervalType ==
  ASSUME NEW rs, NEW r, NEW t \in Timers, HasChildren(rs, r, t)
  PROVE  MinReqInterval(rs, r, t) \in Nat
<1> DEFINE is == {r[a].ival : a \in rs} \cap mSmmPeriodicTimerIntervals[t]
<1>1. is \in SUBSET Nat /\ is # {}
  BY TimerAssumption DEF Timers, Intervals, mSmmPeriodicTimerIntervals, HasChildren
<1> HIDE DEF is
<1>2. PICK m \in is : \A n \in is : m <= n
  BY <1>1, Minimum, Zenon
<1>3. (CHOOSE i \in is : \A j \in is : i <= j) \in is
  BY <1>2, Zenon
<1>4. MinReqInterval(rs, r, t) = CHOOSE i \in is : \A j \in is : i <= j
  BY DEF MinReqInterval, is
<1> QED BY <1>1, <1>3, <1>4

\* After both timers have been programmed, a child of the SWSMI timer is
\* hurried or has the rate it asked for, and the timer starts over.
LEMMA Programmed ==
  ASSUME NEW rs, NEW r, NEW more, NEW slow, ProgramTimers(rs, r, more, slow),
         NEW c \in rs, r[c].ival \in Intervals, ContextToTimerInterval(r[c].ival) = SW,
         age \in [Timers -> Nat]
  PROVE  /\ SW \notin sts' /\ age'[SW] = 0 /\ rate'[SW] \in Nat
         /\ c \notin hurried' => c \notin slow /\ r[c].ival <= rate'[SW]
<1> DEFINE used == {t \in Timers : HasChildren(rs, r, t)}
           rt == [t \in Timers |-> IF t \in used THEN MinReqInterval(rs, r, t) ELSE rate[t]]
<1>1. SW \in Timers /\ r[c].ival \in mSmmPeriodicTimerIntervals[SW] /\ r[c].ival \in Nat
  BY TimerOfInterval, TimerAssumption
<1>2. HasChildren(rs, r, SW)
  BY <1>1 DEF HasChildren
<1>3. /\ rate' = rt /\ sts' = (sts \ used) \ more
      /\ age' = IF "SWSMI_TIMER" \in used THEN [age EXCEPT !["SWSMI_TIMER"] = 0] ELSE age
      /\ hurried' = slow \cup {d \in rs : rt[ContextToTimerInterval(r[d].ival)] < r[d].ival}
  BY DEF ProgramTimers
<1>4. SW \in used /\ rt[SW] = MinReqInterval(rs, r, SW) /\ rt[SW] \in Nat
  BY <1>1, <1>2, MinReqIntervalType
<1> HIDE DEF used, rt
<1>5. SW \notin sts' /\ age'[SW] = 0
  BY <1>1, <1>3, <1>4 DEF SW
<1>6. ASSUME c \notin hurried'
      PROVE  c \notin slow /\ r[c].ival <= rt[SW]
  <2>1. c \notin slow /\ ~(rt[SW] < r[c].ival)
    BY <1>3, <1>6
  <2> QED BY <1>1, <1>4, <2>1
<1> QED BY <1>3, <1>4, <1>5, <1>6

\* Whatever is programmed, a pending tick of the SWSMI timer has age 0.
LEMMA ProgrammedAge ==
  ASSUME NEW rs, NEW r, NEW more, NEW slow, ProgramTimers(rs, r, more, slow), age \in [Timers -> Nat],
         SW \in sts => age[SW] = 0
  PROVE  age' \in [Timers -> Nat] /\ (SW \in sts' => age'[SW] = 0)
<1>1. sts' \subseteq sts /\ age' \in {age, [age EXCEPT !["SWSMI_TIMER"] = 0]}
  BY DEF ProgramTimers
<1>2. SW \in Timers
  BY DEF SW, Timers
<1> QED BY <1>1, <1>2 DEF SW

\* The records as the invariant needs them.
LEMMA RecordFacts ==
  ASSUME Typing
  PROVE  \A c \in Range(db) : /\ c \in Slot /\ rec[c] \in Record /\ rec[c].ival \in Intervals
                              /\ rec[c].ival \in Nat /\ rec[c].elapsed \in Nat
BY RangeOfList DEF Typing, Record

\* At first there are no records.
LEMMA TimeInitially == Init => TimeInv
BY DEF Init, TimeInv, Range, SW

\* A new record has no time behind it; the timer of the others starts over.
LEMMA RegisterTime ==
  ASSUME HasLongest, Inv, TimeInv, NEW i \in Intervals, NEW p \in Periods, Register(i, p), Inv'
  PROVE  TimeInv'
<1> DEFINE c == Min(Slot \ Range(db))
           r == [rec EXCEPT ![c] = [ival |-> i, period |-> p, elapsed |-> 0]]
<1>1. /\ Slot \ Range(db) # {} /\ rec' = r /\ db' = Append(db, c)
      /\ ProgramTimers(Range(db) \cup {c}, r, {ContextToTimerInterval(i)}, hurried \ {c})
      /\ since' = [since EXCEPT ![c] = 0] /\ UNCHANGED <<due, pc>>
  BY DEF Register
<1>2. c \in Slot \ Range(db)
  <2>1. Slot \ Range(db) \in SUBSET Nat
    BY TimerAssumption
  <2> QED BY <1>1, <2>1, Minimum, Zenon DEF Min
<1> HIDE DEF c
<1>3. Range(db') = Range(db) \cup {c}
  BY <1>1, <1>2, AppendRange DEF Inv, Typing
<1>4. /\ rec'[c] = [ival |-> i, period |-> p, elapsed |-> 0]
      /\ \A a \in Range(db) : a \in Slot /\ a # c /\ rec'[a] = rec[a] /\ since'[a] = since[a]
  BY <1>1, <1>2, RecordFacts DEF Inv, Typing, TimeInv
<1>5. since' \in [Slot -> Nat] /\ since'[c] = 0
  BY <1>1, <1>2 DEF TimeInv
<1> HIDE DEF r
<1>6. age' \in [Timers -> Nat] /\ (SW \in sts' => age'[SW] = 0)
  BY <1>1, ProgrammedAge DEF TimeInv
<1>7. \A a \in Range(db') : rec'[a].period \in Periods
  BY <1>3, <1>4 DEF TimeInv
<1>8. \A a \in due' : a \in Range(db') /\ rec'[a].elapsed = 0
  BY <1>1, <1>3, <1>4 DEF TimeInv
<1>9. ASSUME NEW a \in Range(db'), TimerOf(a)' = SW, a \notin hurried'
      PROVE  /\ rate'[SW] \in Nat /\ rec'[a].ival <= rate'[SW]
             /\ Reached(since'[a], rec'[a].elapsed + Untold(a)')
  <2>1. r[a].ival \in Intervals /\ ContextToTimerInterval(r[a].ival) = SW
    BY <1>1, <1>9, RecordFacts DEF Inv, Typing, TimerOf
  <2>2. /\ SW \notin sts' /\ age'[SW] = 0 /\ rate'[SW] \in Nat
        /\ a \notin hurried \ {c} /\ r[a].ival <= rate'[SW]
    BY <1>1, <1>3, <1>9, <2>1, Programmed DEF TimeInv
  <2>3. Untold(a)' = 0
    BY <2>2 DEF Untold
  <2>4. CASE a = c
    BY <1>1, <1>4, <1>5, <2>2, <2>3, <2>4 DEF Reached
  <2>5. CASE a # c
    <3>1. a \in Range(db) /\ a \notin hurried /\ rec'[a] = rec[a] /\ since'[a] = since[a] /\ TimerOf(a) = SW
      BY <1>3, <1>4, <1>9, <2>2, <2>5 DEF TimerOf
    <3>2. Reached(since[a], rec[a].elapsed + Untold(a))
      BY <3>1 DEF TimeInv
    <3>3. Untold(a) \in Nat /\ rec[a].elapsed \in Nat /\ since[a] \in Nat /\ MaxSince \in Nat
      <4>1. SW \in Timers
        BY DEF SW, Timers
      <4> QED BY <3>1, <4>1, RecordFacts, LongestFacts DEF Inv, Untold, TimeInv
    <3> QED BY <1>1, <2>2, <2>3, <3>1, <3>2, <3>3 DEF Reached
  <2> QED BY <2>4, <2>5
<1> QED BY <1>5, <1>6, <1>7, <1>8, <1>9 DEF TimeInv

\* The other records keep what they have counted.
LEMMA UnRegisterTime ==
  ASSUME Inv, TimeInv, NEW c \in Slot, UnRegister(c)
  PROVE  TimeInv'
<1>1. PICK i \in DOMAIN db : db[i] = c /\ db' = RemoveAt(db, i)
  BY DEF UnRegister
<1>2. /\ rec' = [rec EXCEPT ![c] = Blank] /\ since' = [since EXCEPT ![c] = 0]
      /\ due' = due \ {c} /\ hurried' = hurried \ {c} /\ UNCHANGED <<rate, age, sts, pc>>
  BY DEF UnRegister
<1>3. Range(db') = Range(db) \ {c}
  BY <1>1, RemoveAtRange DEF Inv, Typing
<1>4. \A a \in Range(db') : a \in Range(db) /\ a # c /\ rec'[a] = rec[a] /\ since'[a] = since[a]
  BY <1>2, <1>3, RecordFacts DEF Inv, Typing, TimeInv
<1>5. since' \in [Slot -> Nat]
  BY <1>2 DEF TimeInv
<1> QED BY <1>2, <1>3, <1>4, <1>5 DEF TimeInv, TimerOf, Untold

\* A timer that is resumed starts over, or has a tick cleared.
LEMMA ResumeTime ==
  ASSUME HasLongest, Inv, TimeInv, NEW c \in Slot, Resume(c)
  PROVE  TimeInv'
<1>1. /\ sts' \subseteq sts /\ UNCHANGED <<db, rec, rate, due, pc, since, hurried>>
      /\ age' = age \/ (SW \notin sts' /\ age' = [age EXCEPT ![SW] = 0])
  BY DEF Resume, SW
<1>2. SW \in Timers
  BY DEF SW, Timers
<1>3. age' \in [Timers -> Nat] /\ age'[SW] <= age[SW]
  BY <1>1, <1>2 DEF TimeInv
<1>4. ASSUME NEW a \in Range(db), TimerOf(a) = SW, a \notin hurried
      PROVE  Reached(since[a], rec[a].elapsed + Untold(a)')
  <2>1. Reached(since[a], rec[a].elapsed + Untold(a))
    BY <1>4 DEF TimeInv
  <2>2. /\ Untold(a) \in Nat /\ Untold(a)' \in Nat /\ Untold(a)' <= Untold(a)
        /\ rec[a].elapsed \in Nat /\ since[a] \in Nat /\ MaxSince \in Nat
    BY <1>1, <1>2, <1>3, RecordFacts, LongestFacts DEF Inv, Untold, TimeInv
  <2> QED BY <2>1, <2>2 DEF Reached
<1> QED BY <1>1, <1>3, <1>4 DEF TimeInv, TimerOf

\* A unit of time is counted on both sides; a tick comes after an interval.
LEMMA AdvanceTime ==
  ASSUME HasLongest, Inv, TimeInv, Advance
  PROVE  TimeInv'
<1> DEFINE runs == {t \in Timers : t = "PERIODIC_TIMER" \/ t \in en}
           ticks == {t \in runs : age[t] + 1 >= rate[t]}
<1>1. /\ pc = "idle" /\ en \cap sts = {} /\ sts' = sts \cup ticks
      /\ age' = [t \in Timers |-> IF t \in ticks THEN 0 ELSE IF t \in runs THEN age[t] + 1 ELSE age[t]]
      /\ since' = [c \in Slot |-> IF c \in Range(db) /\ since[c] < MaxSince THEN since[c] + 1 ELSE since[c]]
      /\ UNCHANGED <<db, rec, rate, due, pc, hurried>>
  BY DEF Advance
<1>2. SW \in Timers /\ (SW \in runs <=> SW \in en) /\ (SW \in ticks <=> SW \in en /\ age[SW] + 1 >= rate[SW])
  BY DEF SW, Timers
<1> HIDE DEF runs, ticks
<1>3. /\ \A t \in Timers : age[t] \in Nat
      /\ \A c \in Slot : since[c] \in Nat
      /\ MaxSince \in Nat
  BY LongestFacts DEF TimeInv
<1>4. age' \in [Timers -> Nat] /\ since' \in [Slot -> Nat]
  BY <1>1, <1>3
<1>5. SW \in sts' => age'[SW] = 0
  BY <1>1, <1>2 DEF TimeInv
<1>6. ASSUME NEW a \in Range(db), TimerOf(a) = SW, a \notin hurried
      PROVE  Reached(since'[a], rec[a].elapsed + Untold(a)')
  <2>1. /\ Reached(since[a], rec[a].elapsed + Untold(a))
        /\ rate[SW] \in Nat /\ rec[a].ival <= rate[SW]
    BY <1>6 DEF TimeInv
  <2>2. a \in Slot /\ rec[a].elapsed \in Nat /\ rec[a].ival \in Nat /\ since[a] \in Nat /\ age[SW] \in Nat
    BY <1>2, <1>3, RecordFacts DEF Inv
  <2>3. since'[a] = IF since[a] < MaxSince THEN since[a] + 1 ELSE since[a]
    BY <1>1, <2>2
  <2>4. CASE SW \in sts
    <3>1. Untold(a)' = rec[a].ival /\ Untold(a) = rec[a].ival
      BY <1>1, <2>4 DEF Untold
    <3> QED BY <1>3, <2>1, <2>2, <2>3, <3>1 DEF Reached
  <2>5. CASE SW \notin sts /\ SW \in ticks
    <3>1. Untold(a)' = rec[a].ival /\ Untold(a) = age[SW] /\ age[SW] + 1 >= rate[SW]
      BY <1>1, <1>2, <2>5 DEF Untold
    <3> QED BY <1>3, <2>1, <2>2, <2>3, <3>1 DEF Reached
  <2>6. CASE SW \notin sts /\ SW \notin ticks
    <3>1. Untold(a)' = age'[SW] /\ Untold(a) = age[SW] /\ age'[SW] \in {age[SW], age[SW] + 1}
      BY <1>1, <1>2, <2>6 DEF Untold
    <3> QED BY <1>3, <2>1, <2>2, <2>3, <3>1 DEF Reached
  <2> QED BY <2>4, <2>5, <2>6
<1> QED BY <1>1, <1>4, <1>5, <1>6 DEF TimeInv, TimerOf

\* The records of the timer that is served are told of the tick.
LEMMA ServeTime ==
  ASSUME HasLongest, Inv, TimeInv, Serve
  PROVE  /\ TimeInv'
         /\ \A c \in due' : c \notin hurried /\ TimerOf(c) = SW => since[c] >= rec[c].period
<1>1. PICK t \in Timers :
        /\ NextServed(t)
        /\ due' = {c \in Range(db) : TimerOf(c) = t /\ Elapsed(rec[c]) >= rec[c].period}
        /\ rec' = [c \in Slot |-> IF c \notin Range(db) \/ TimerOf(c) # t THEN rec[c]
                                  ELSE [rec[c] EXCEPT !.elapsed = IF c \in due' THEN 0 ELSE Elapsed(rec[c])]]
  BY DEF Serve
<1>2. pc = "idle" /\ pc' = "callback" /\ UNCHANGED <<db, rate, age, en, sts, since, hurried>>
  BY DEF Serve
<1>3. t \in sts
  BY <1>1 DEF NextServed
<1>4. \A c \in Range(db) :
        /\ rec'[c].ival = rec[c].ival /\ rec'[c].period = rec[c].period
        /\ rec'[c].elapsed = IF TimerOf(c) # t THEN rec[c].elapsed
                             ELSE IF c \in due' THEN 0 ELSE rec[c].elapsed + rec[c].ival
  BY <1>1, RecordFacts DEF Inv, Record, Elapsed
<1>5. ASSUME NEW c \in Range(db), TimerOf(c) = SW, c \notin hurried
      PROVE  /\ Reached(since[c], rec'[c].elapsed + Untold(c)')
             /\ c \in due' => since[c] >= rec[c].period
  <2>1. Reached(since[c], rec[c].elapsed + Untold(c))
    BY <1>5 DEF TimeInv
  <2>2. /\ rec[c].elapsed \in Nat /\ rec[c].ival \in Nat /\ since[c] \in Nat /\ age[SW] \in Nat
        /\ MaxSince \in Nat /\ rec[c].period \in Nat /\ rec[c].period < MaxSince
    <3>1. SW \in Timers
      BY DEF SW, Timers
    <3>2. rec[c].period \in Periods /\ rec[c].period \in Nat
      BY TimerAssumption DEF TimeInv
    <3> QED BY <3>1, <3>2, RecordFacts, LongestFacts DEF Inv, TimeInv
  <2>3. Untold(c)' = IF SW \in sts THEN 0 ELSE age[SW]
    BY <1>2 DEF Untold
  <2>4. Untold(c) = IF SW \in sts THEN rec[c].ival ELSE age[SW]
    BY <1>2 DEF Untold
  <2>5. CASE t = SW
    <3>1. Reached(since[c], rec[c].elapsed + rec[c].ival)
      BY <1>3, <2>1, <2>4, <2>5
    <3>2. c \in due' => rec[c].elapsed + rec[c].ival >= rec[c].period
      BY <1>1, <2>5 DEF Elapsed
    <3>3. rec'[c].elapsed \in {0, rec[c].elapsed + rec[c].ival} /\ Untold(c)' = 0
      BY <1>3, <1>4, <1>5, <2>3, <2>5
    <3> QED BY <2>2, <3>1, <3>2, <3>3 DEF Reached
  <2>6. CASE t # SW
    <3>1. c \notin due' /\ rec'[c].elapsed = rec[c].elapsed
      BY <1>1, <1>4, <1>5, <2>6
    <3> QED BY <2>1, <2>2, <2>3, <2>4, <3>1 DEF Reached
  <2> QED BY <2>5, <2>6
<1>6. \A c \in due' : c \in Range(db)' /\ rec'[c].elapsed = 0
  BY <1>1, <1>2, <1>4
<1>7. TimeInv'
  BY <1>2, <1>4, <1>5, <1>6 DEF TimeInv, TimerOf
<1>8. \A c \in due' : c \in Range(db)
  BY <1>1
<1> QED BY <1>5, <1>7, <1>8

\* The children that were called start over, and so does the timer.
LEMMA ClearSourceTime ==
  ASSUME HasLongest, Inv, TimeInv, ClearSource
  PROVE  TimeInv'
<1>1. /\ ProgramTimers(Range(db), rec, {}, hurried \ due)
      /\ since' = [c \in Slot |-> IF c \in due THEN 0 ELSE since[c]]
      /\ due' = {} /\ UNCHANGED <<db, rec>>
  BY DEF ClearSource
<1>2. since' \in [Slot -> Nat]
  BY <1>1 DEF TimeInv
<1>3. age' \in [Timers -> Nat] /\ (SW \in sts' => age'[SW] = 0)
  BY <1>1, ProgrammedAge DEF TimeInv
<1>4. ASSUME NEW c \in Range(db), TimerOf(c) = SW, c \notin hurried'
      PROVE  /\ rate'[SW] \in Nat /\ rec[c].ival <= rate'[SW]
             /\ Reached(since'[c], rec[c].elapsed + Untold(c)')
  <2>1. rec[c].ival \in Intervals /\ c \in Slot
    BY RecordFacts DEF Inv
  <2>2. /\ SW \notin sts' /\ age'[SW] = 0 /\ rate'[SW] \in Nat
        /\ c \notin hurried \ due /\ rec[c].ival <= rate'[SW]
    BY <1>1, <1>4, <2>1, Programmed DEF TimeInv, TimerOf
  <2>3. Untold(c)' = 0
    BY <2>2 DEF Untold
  <2>4. CASE c \in due
    <3>1. rec[c].elapsed = 0 /\ since'[c] = 0
      BY <1>1, <2>1, <2>4 DEF TimeInv
    <3> QED BY <2>2, <2>3, <3>1 DEF Reached
  <2>5. CASE c \notin due
    <3>1. since'[c] = since[c] /\ Reached(since[c], rec[c].elapsed + Untold(c))
      BY <1>1, <1>4, <2>1, <2>2, <2>5 DEF TimeInv
    <3>2. Untold(c) \in Nat /\ rec[c].elapsed \in Nat /\ since[c] \in Nat /\ MaxSince \in Nat
      <4>1. SW \in Timers
        BY DEF SW, Timers
      <4> QED BY <2>1, <4>1, RecordFacts, LongestFacts DEF Inv, Untold, TimeInv
    <3> QED BY <2>2, <2>3, <3>1, <3>2 DEF Reached
  <2> QED BY <2>4, <2>5
<1> QED BY <1>1, <1>2, <1>3, <1>4 DEF TimeInv, TimerOf

\* A child of the SWSMI timer that was not hurried is never called before
\* its period has passed: PeriodicTimerGetContext may count the child's own
\* interval at every tick, whatever was paused, resumed, registered or
\* cleared between two of them.
THEOREM NeverCalledEarly ==
  ASSUME HasLongest
  PROVE  Spec => NoEarlyCall
<1>1. Inv /\ [Next]_vars => Inv'
  BY Step
<1>2. Inv /\ TimeInv /\ [Next]_vars => TimeInv'
  <2> SUFFICES ASSUME Inv, TimeInv, [Next]_vars PROVE TimeInv'
    OBVIOUS
  <2>1. CASE \E i \in Intervals, p \in Periods : i <= p /\ Register(i, p)
    BY <1>1, <2>1, RegisterTime
  <2>2. CASE (\E c \in Slot : Pause(c)) \/ UNCHANGED vars
    <3>1. UNCHANGED <<db, rec, rate, age, sts, due, pc, since, hurried>>
      BY <2>2 DEF Pause, vars
    <3> QED BY <3>1 DEF TimeInv, TimerOf, Untold
  <2> QED BY <2>1, <2>2, UnRegisterTime, ResumeTime, AdvanceTime, ServeTime, ClearSourceTime
          DEF Next, Children
<1>3. Inv /\ TimeInv /\ [Next]_vars =>
        [\A c \in Slot : Calls(c) /\ c \notin hurried /\ TimerOf(c) = "SWSMI_TIMER"
                           => since[c] >= rec[c].period]_vars
  <2> SUFFICES ASSUME Inv, TimeInv, [Next]_vars, pc = "idle", pc' = "callback",
                      NEW c \in due', c \notin hurried, TimerOf(c) = SW
               PROVE  since[c] >= rec[c].period
    BY DEF Calls, SW
  <2>1. Serve
    BY DEF Next, Children, UnRegister, Pause, Resume, Register, Advance, ClearSource, vars
  <2> QED BY <2>1, ServeTime
<1> QED BY Initially, TimeInitially, <1>1, <1>2, <1>3, PTL DEF Spec, NoEarlyCall
=============================================================================
