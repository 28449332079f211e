-------------------------- MODULE MCCpuMpServices --------------------------
(* Instances for TLC: which calls are made, by the loop the APs wait in.    *)
(* Only where they are woken by INIT does a reset end a procedure for good, *)
(* and calls have timeouts.                                                 *)
EXTENDS CpuMpServices

AllCalls == [hlt |-> CallKinds \ {"switch"}, mwait |-> CallKinds \ {"timeout"}]

LiveCalls ==
  [hlt   |-> {"all", "single", "this", "blocking", "event", "timeout"},
   mwait |-> {"all", "blocking", "single", "enable", "switch", "exit"}]

\* SwitchBSP while another AP may be in a procedure with an event.
SwitchCalls == [mwait |-> {"this", "event", "switch"}]
=============================================================================
