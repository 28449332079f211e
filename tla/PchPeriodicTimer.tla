-------------------------- MODULE PchPeriodicTimer --------------------------
(***************************************************************************)
(* The periodic timer protocol of the PCH dispatcher                       *)
(* (PchSmiDispatcher/Smm/PchSmmPeriodicTimer.c): two chipset timers shared *)
(* by all children, programmed to the shortest interval that any child of  *)
(* the timer asks for, and the software count of elapsed time that decides *)
(* at which ticks a child is called.  SMIs are served within one unit of   *)
(* time; module PchSmiDispatcher has the interleavings of the dispatcher.  *)
(***************************************************************************)
EXTENDS Naturals, Sequences, FiniteSets, SequencesExt

CONSTANTS
  Slot,           \* records for children
  SwsmiIntervals, \* the intervals of the SWSMI timer, in units of the shortest
  PeriodicIntervals, \* the intervals of the periodic timer
  Periods,        \* the periods that children ask for
  MaxOps          \* bound on operations of the children

Timers == {"SWSMI_TIMER", "PERIODIC_TIMER"}
mSmmPeriodicTimerIntervals == [SWSMI_TIMER |-> SwsmiIntervals, PERIODIC_TIMER |-> PeriodicIntervals]
Intervals == SwsmiIntervals \cup PeriodicIntervals

ASSUME TimerAssumption ==
  /\ Slot \subseteq Nat
  /\ Intervals \cup Periods \subseteq Nat \ {0}
  /\ \A s \in SwsmiIntervals, p \in PeriodicIntervals : s < p
  /\ MaxOps \in Nat

VARIABLES
  db,      \* the records in the order of CallbackDataBase
  rec,     \* the content of each record: SmiTickInterval, Period, ElapsedTime
  rate,    \* the interval each timer is programmed to
  age,     \* time since each timer last ticked or was restarted
  en,      \* the timers whose SMI is enabled
  sts,     \* the timers whose status bit is set
  due,     \* the children being called
  pc,      \* "idle", or "callback" during the calls
  since,   \* real time since a child was registered or called
  hurried, \* the children whose timer has run faster than they asked for since then
  ops

vars == <<db, rec, rate, age, en, sts, due, pc, since, hurried, ops>>

(* ContextToTimerInterval: an interval belongs to one of the timers.       *)
ContextToTimerInterval(i) == CHOOSE t \in Timers : i \in mSmmPeriodicTimerIntervals[t]
TimerOf(c) == ContextToTimerInterval(rec[c].ival)

Longest == CHOOSE i \in Intervals \cup Periods : \A j \in Intervals \cup Periods : j <= i
(* Real time is counted up to this bound; more makes no difference.        *)
MaxSince == Longest + 1

Blank == [ival |-> 0, period |-> 0, elapsed |-> 0]

Init ==
  /\ db = <<>> /\ rec = [c \in Slot |-> Blank]
  /\ rate = [t \in Timers |-> CHOOSE i \in mSmmPeriodicTimerIntervals[t] : TRUE]
  /\ age = [t \in Timers |-> 0]
  /\ en = {} /\ sts = {} /\ due = {} /\ pc = "idle"
  /\ since = [c \in Slot |-> 0] /\ hurried = {} /\ ops = 0

-----------------------------------------------------------------------------
(* A faulty variant: the longest interval is taken.                       *)
MinReqInterval_Longest(rs, r, t) ==
  LET is == {r[c].ival : c \in rs} \cap mSmmPeriodicTimerIntervals[t]
  IN  CHOOSE i \in is : \A j \in is : j <= i

(* MinReqInterval of timer t over the records rs with contents r.          *)
MinReqInterval(rs, r, t) ==
  LET is == {r[c].ival : c \in rs} \cap mSmmPeriodicTimerIntervals[t]
  IN  CHOOSE i \in is : \A j \in is : i <= j

HasChildren(rs, r, t) == \E c \in rs : r[c].ival \in mSmmPeriodicTimerIntervals[t]

(* A faulty variant: the SWSMI timer is not restarted.                    *)
ProgramTimers_NoRestart(rs, r, more, slow) ==
  LET used == {t \in Timers : HasChildren(rs, r, t)}
      rt   == [t \in Timers |-> IF t \in used THEN MinReqInterval(rs, r, t) ELSE rate[t]]
  IN  /\ rate' = rt
      /\ sts' = (sts \ used) \ more
      /\ UNCHANGED age
      /\ en' = (en \cap used) \cup (used \cap {"SWSMI_TIMER"}) \cup more
      /\ hurried' = slow \cup {c \in rs : rt[ContextToTimerInterval(r[c].ival)] < r[c].ival}

(* PchSmmPeriodicTimerProgramTimers for the records rs with contents r: a  *)
(* timer with children is set to the shortest interval and a pending tick  *)
(* is cleared; the SWSMI timer is restarted by disabling and enabling it,  *)
(* the other one runs freely; a timer without children is disabled.  The   *)
(* argument more is a timer to be enabled afterwards, or none, and slow    *)
(* the hurried children to begin with.                                     *)
ProgramTimers(rs, r, more, slow) ==
  LET used == {t \in Timers : HasChildren(rs, r, t)}
      rt   == [t \in Timers |-> IF t \in used THEN MinReqInterval(rs, r, t) ELSE rate[t]]
  IN  /\ rate' = rt
      /\ sts' = (sts \ used) \ more
      /\ age' = IF "SWSMI_TIMER" \in used THEN [age EXCEPT !["SWSMI_TIMER"] = 0] ELSE age
      /\ en' = (en \cap used) \cup (used \cap {"SWSMI_TIMER"}) \cup more
      /\ hurried' = slow \cup {c \in rs : rt[ContextToTimerInterval(r[c].ival)] < r[c].ival}

-----------------------------------------------------------------------------
(* Operations of the children, in SMI handlers and in their callbacks.     *)

MayCall == ops < MaxOps

(* PchSmmCoreRegister for PeriodicTimerType: the timers are programmed     *)
(* with the new record, as its ClearSource, and its own timer is enabled.  *)
Register(i, p) ==
  LET c == Min(Slot \ Range(db))
      r == [rec EXCEPT ![c] = [ival |-> i, period |-> p, elapsed |-> 0]]
  IN  /\ MayCall /\ Slot \ Range(db) # {}
      /\ rec' = r /\ db' = Append(db, c)
      /\ ProgramTimers(Range(db) \cup {c}, r, {ContextToTimerInterval(i)}, hurried \ {c})
      /\ since' = [since EXCEPT ![c] = 0]
      /\ ops' = ops + 1
      /\ UNCHANGED <<due, pc>>

(* PchSmmCoreUnRegister: the timer keeps its rate, and is disabled when it *)
(* was its last child.                                                     *)
UnRegister(c) ==
  /\ MayCall
  /\ \E i \in DOMAIN db : db[i] = c /\ db' = RemoveAt(db, i)
  /\ en' = IF HasChildren(Range(db) \ {c}, rec, TimerOf(c)) THEN en ELSE en \ {TimerOf(c)}
  /\ due' = due \ {c} /\ hurried' = hurried \ {c}
  /\ rec' = [rec EXCEPT ![c] = Blank] /\ since' = [since EXCEPT ![c] = 0]
  /\ ops' = ops + 1
  /\ UNCHANGED <<rate, age, sts, pc>>

(* PchSmmPeriodicTimerControlPause disables the timer, for all children.   *)
Pause(c) ==
  /\ MayCall /\ c \in Range(db)
  /\ en' = en \ {TimerOf(c)}
  /\ ops' = ops + 1
  /\ UNCHANGED <<db, rec, rate, age, sts, due, pc, since, hurried>>

(* PchSmmPeriodicTimerControlResume enables it and clears its status; the  *)
(* SWSMI timer starts over.                                                *)
Resume(c) ==
  LET t == TimerOf(c)
  IN  /\ MayCall /\ c \in Range(db)
      /\ en' = en \cup {t} /\ sts' = sts \ {t}
      /\ age' = IF t = "SWSMI_TIMER" /\ t \notin en THEN [age EXCEPT ![t] = 0] ELSE age
      /\ ops' = ops + 1
      /\ UNCHANGED <<db, rec, rate, due, pc, since, hurried>>

-----------------------------------------------------------------------------
(* One unit of time passes, unless an SMI is to be served.  The SWSMI      *)
(* timer runs while it is enabled, the periodic timer always.              *)
Advance ==
  LET runs == {t \in Timers : t = "PERIODIC_TIMER" \/ t \in en}
      ticks == {t \in runs : age[t] + 1 >= rate[t]}
  IN  /\ pc = "idle" /\ en \cap sts = {}
      /\ age' = [t \in Timers |-> IF t \in ticks THEN 0 ELSE IF t \in runs THEN age[t] + 1 ELSE age[t]]
      /\ sts' = sts \cup ticks
      /\ since' = [c \in Slot |-> IF c \in Range(db) /\ since[c] < MaxSince THEN since[c] + 1 ELSE since[c]]
      /\ UNCHANGED <<db, rec, rate, en, due, pc, hurried, ops>>

(* The timer of the first record whose source is active is served:         *)
(* PeriodicTimerGetContext adds the interval that a child registered with  *)
(* to its elapsed time, PeriodicTimerCmpContext compares that with the     *)
(* period, PeriodicTimerGetCommBuffer resets it.                           *)
Elapsed(r) == r.elapsed + r.ival

(* The timer of the first record whose source is active.                   *)
NextServed(t) ==
  LET Active(i) == TimerOf(db[i]) \in en \cap sts
  IN  \E i \in DOMAIN db : t = TimerOf(db[i]) /\ Active(i) /\ \A j \in 1..(i - 1) : ~Active(j)

(* A faulty variant: it is reset at every tick.                           *)
Serve_ResetsAll ==
  /\ pc = "idle"
  /\ \E t \in Timers :
       /\ NextServed(t)
       /\ due' = {c \in Range(db) : TimerOf(c) = t /\ Elapsed(rec[c]) >= rec[c].period}
       /\ rec' = [c \in Slot |-> IF c \notin Range(db) \/ TimerOf(c) # t THEN rec[c]
                                 ELSE [rec[c] EXCEPT !.elapsed = 0]]
  /\ pc' = "callback"
  /\ UNCHANGED <<db, rate, age, en, sts, since, hurried, ops>>

Serve ==
  /\ pc = "idle"
  /\ \E t \in Timers :
       /\ NextServed(t)
       /\ due' = {c \in Range(db) : TimerOf(c) = t /\ Elapsed(rec[c]) >= rec[c].period}
       /\ rec' = [c \in Slot |-> IF c \notin Range(db) \/ TimerOf(c) # t THEN rec[c]
                                 ELSE [rec[c] EXCEPT !.elapsed = IF c \in due' THEN 0 ELSE Elapsed(rec[c])]]
  /\ pc' = "callback"
  /\ UNCHANGED <<db, rate, age, en, sts, since, hurried, ops>>

(* The callbacks have returned: PchSmmPeriodicTimerClearSource programs    *)
(* both timers again.                                                      *)
ClearSource ==
  /\ pc = "callback"
  /\ ProgramTimers(Range(db), rec, {}, hurried \ due)
  /\ since' = [c \in Slot |-> IF c \in due THEN 0 ELSE since[c]]
  /\ pc' = "idle" /\ due' = {}
  /\ UNCHANGED <<db, rec, ops>>

Children ==
  \/ \E c \in Slot : UnRegister(c) \/ Pause(c) \/ Resume(c)
  \/ \E i \in Intervals, p \in Periods : i <= p /\ Register(i, p)

Next == Children \/ Advance \/ Serve \/ ClearSource

Spec == Init /\ [][Next]_vars

(* Time passes, SMIs are served and callbacks return.                      *)
FairSpec == Spec /\ WF_vars(Advance \/ Serve \/ ClearSource)

-----------------------------------------------------------------------------
(* Every variable has its type; a child's elapsed time stays below its     *)
(* period between the calls (PeriodicTimerGetCommBuffer).                  *)
TypeOK ==
  /\ db \in Seq(Slot) /\ Cardinality(Range(db)) = Len(db)
  /\ \A c \in Range(db) : rec[c].ival \in Intervals /\ rec[c].period \in Periods /\ rec[c].elapsed < rec[c].period
  /\ rate \in [Timers -> Intervals] /\ \A t \in Timers : age[t] \in 0..Longest
  /\ en \subseteq Timers /\ sts \subseteq Timers
  /\ due \subseteq Range(db) /\ hurried \subseteq Slot /\ pc \in {"idle", "callback"}
  /\ since \in [Slot -> 0..MaxSince] /\ ops \in 0..MaxOps

(* No timer is slower than one of its children asked for, although the     *)
(* rate is only computed in registrations and after ticks                  *)
(* (PchSmmPeriodicTimerProgramTimers).                                     *)
RateFastEnough == \A c \in Range(db) : rate[TimerOf(c)] <= rec[c].ival

Calls(c) == pc = "idle" /\ pc' = "callback" /\ c \in due'

(* A child of the SWSMI timer is called early only when another child has  *)
(* made the timer run faster in the meantime: its ElapsedTime grows by its *)
(* own interval at each tick (PeriodicTimerGetContext), whatever was       *)
(* paused, resumed, registered or cleared between ticks.                   *)
NoEarlyCall ==
  [][\A c \in Slot : Calls(c) /\ c \notin hurried /\ TimerOf(c) = "SWSMI_TIMER" => since[c] >= rec[c].period]_vars

(* "The child will be called back after a time greater than the time       *)
(* Period" (SmmPeriodicTimerDispatch2.h), for every child of that timer.   *)
(* This does not hold: see hurried.                                        *)
NeverEarly ==
  [][\A c \in Slot : Calls(c) /\ TimerOf(c) = "SWSMI_TIMER" => since[c] >= rec[c].period]_vars

(* A child of the SWSMI timer is called again and again while its timer is *)
(* enabled, although ticks are cleared and the timer restarted whenever    *)
(* the other timer is served.                                              *)
ChildrenCalled ==
  \A c \in Slot : []<>(c \notin Range(db) \/ TimerOf(c) # "SWSMI_TIMER" \/ TimerOf(c) \notin en \/ c \in due)

=============================================================================
