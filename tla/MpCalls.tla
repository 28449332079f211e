------------------------------ MODULE MpCalls ------------------------------
(***************************************************************************)
(* What the MP Services Protocol promises its callers, without loops,      *)
(* signals and states of APs: a call is refused, or given to a team of     *)
(* processors each of which executes its procedure once, and reports how   *)
(* it went; a processor works for one call at a time, never while it is    *)
(* disabled or the BSP; the BSP changes only while nobody works; and after *)
(* the last call, which is for everybody, nothing is executed any more.    *)
(***************************************************************************)
EXTENDS Naturals

CONSTANTS CPU, Call, Last

VARIABLES
  outcome, \* of every call
  team,    \* the processors that a call was given to
  lost,    \* those of them that a call has been given up on
  runs,    \* how often every processor has executed the procedure of a call
  lead,    \* the BSP
  off      \* the disabled processors

callVars == <<outcome, team, lost, runs, lead, off>>

\* Processor p has still to execute the procedure of call k.
Owes(p, k) == outcome[k] = "pending" /\ p \in team[k] /\ runs[p][k] = 0
Free(p) == \A k \in Call : ~Owes(p, k)

\* The last call has not been made.
InService == outcome[Last] = "none"

Init ==
  /\ outcome = [k \in Call |-> "none"]
  /\ team = [k \in Call |-> {}] /\ lost = [k \in Call |-> {}]
  /\ runs = [p \in CPU |-> [k \in Call |-> 0]]
  /\ lead \in CPU /\ off = {}

Report(k, from, to) == outcome[k] = from /\ outcome' = [outcome EXCEPT ![k] = to]

Refuse(k) ==
  /\ InService /\ k # Last /\ Report(k, "none", "notready")
  /\ UNCHANGED <<team, lost, runs, lead, off>>

\* A call is given to free processors; the last one to all that are enabled.
Begin(k, S) ==
  /\ InService /\ Report(k, "none", "pending")
  /\ S \cap (off \cup {lead}) = {} /\ \A p \in S : Free(p)
  /\ k = Last => S = CPU \ (off \cup {lead}) /\ \A p \in CPU : Free(p)
  /\ team' = [team EXCEPT ![k] = S]
  /\ UNCHANGED <<lost, runs, lead, off>>

\* There is nobody to give it to.
Vacuous(k) ==
  /\ InService /\ CPU = off \cup {lead} /\ Report(k, "none", "success")
  /\ UNCHANGED <<team, lost, runs, lead, off>>

Execute(p, k) ==
  /\ Owes(p, k)
  /\ runs' = [runs EXCEPT ![p][k] = 1]
  /\ UNCHANGED <<outcome, team, lost, lead, off>>

Succeed(k) ==
  /\ Report(k, "pending", "success")
  /\ \A p \in team[k] : runs[p][k] = 1
  /\ UNCHANGED <<team, lost, runs, lead, off>>

TimeOut(k, late) ==
  /\ InService /\ Report(k, "pending", "timeout")
  /\ late # {} /\ late \subseteq team[k] /\ \A p \in team[k] \ late : runs[p][k] = 1
  /\ lost' = [lost EXCEPT ![k] = late]
  /\ UNCHANGED <<team, runs, lead, off>>

\* Processor p becomes the BSP; the old one is an AP, enabled or not.
HandOver(k, p) ==
  /\ InService /\ Report(k, "pending", "success") /\ team[k] = {}
  /\ p \in CPU \ (off \cup {lead}) /\ \A q \in CPU : Free(q)
  /\ lead' = p /\ off' \in {off, off \cup {lead}}
  /\ UNCHANGED <<team, lost, runs>>

SetState(p) ==
  /\ InService /\ p # lead /\ Free(p)
  /\ off' \in {off \cup {p}, off \ {p}}
  /\ UNCHANGED <<outcome, team, lost, runs, lead>>

Next ==
  \/ \E k \in Call : \/ Refuse(k) \/ Vacuous(k) \/ Succeed(k)
                     \/ \E S \in SUBSET CPU : Begin(k, S) \/ TimeOut(k, S)
                     \/ \E p \in CPU : Execute(p, k) \/ HandOver(k, p)
  \/ \E p \in CPU : SetState(p)

Spec == Init /\ [][Next]_callVars
=============================================================================
