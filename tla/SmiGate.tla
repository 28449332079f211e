------------------------------ MODULE SmiGate ------------------------------
(***************************************************************************)
(* What the SMM rendezvous promises, without semaphores and timeouts: SMM  *)
(* runs one at a time.  Processors join while the gate is open; one of     *)
(* them leads; once the leader has closed the gate nobody joins and nobody *)
(* leaves until the leader dismisses the members; and the gate opens again *)
(* only after the leader is the last one left.                             *)
(***************************************************************************)
CONSTANTS CPU, NoLeader

VARIABLES gate, members, leader

gateVars == <<gate, members, leader>>

Init == gate = "open" /\ members = {} /\ leader = NoLeader

Join(c) ==
  /\ gate = "open" /\ c \notin members
  /\ members' = members \cup {c}
  /\ UNCHANGED <<gate, leader>>

\* A member may change its mind while the gate is open.
GiveUp(c) ==
  /\ gate = "open" /\ c \in members /\ c # leader
  /\ members' = members \ {c}
  /\ UNCHANGED <<gate, leader>>

Lead(c) ==
  /\ gate = "open" /\ c \in members /\ leader = NoLeader
  /\ leader' = c
  /\ UNCHANGED <<gate, members>>

Close ==
  /\ gate = "open" /\ leader # NoLeader
  /\ gate' = "closed"
  /\ UNCHANGED <<members, leader>>

Dismiss ==
  /\ gate = "closed"
  /\ gate' = "leaving"
  /\ UNCHANGED <<members, leader>>

Leave(c) ==
  /\ gate = "leaving" /\ c \in members /\ c # leader
  /\ members' = members \ {c}
  /\ UNCHANGED <<gate, leader>>

Reopen ==
  /\ gate = "leaving" /\ members = {leader}
  /\ gate' = "open" /\ members' = {} /\ leader' = NoLeader

Next == Close \/ Dismiss \/ Reopen \/ \E c \in CPU : Join(c) \/ GiveUp(c) \/ Lead(c) \/ Leave(c)

Spec == Init /\ [][Next]_gateVars
=============================================================================
