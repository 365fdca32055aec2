------------------------ MODULE MC_SharedPrioQueue ------------------------
(***************************************************************************)
(* Bounds: three threads, three infrastructure tasks so that the lane can  *)
(* stay non-empty after two pops, and two user tasks.                      *)
(***************************************************************************)
EXTENDS SharedPrioQueue, TLC

\* The properties do not compare user tasks: one Meta for all of them.
MCPrio == [x \in UserTask |-> 1]

Symmetry ==
  Permutations(Thread) \cup Permutations(InfraTask) \cup Permutations(UserTask)
===========================================================================
