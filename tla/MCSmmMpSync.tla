---------------------------- MODULE MCSmmMpSync ----------------------------
(* Instance for TLC.  With election and without a hook nothing tells apart  *)
(* the processors present at boot, or the empty slots.                      *)
EXTENDS SmmMpSync, TLC

Perms == Permutations(InitialCpus) \cup Permutations(CPU \ InitialCpus)
=============================================================================
