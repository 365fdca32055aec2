----------------------------- MODULE MC_SchedMt -----------------------------
(***************************************************************************)
(* Bounds: two workers, one outside thread, one infrastructure task and    *)
(* one request task.  No counter of the model grows, so nothing else is    *)
(* bounded.                                                                *)
(***************************************************************************)
EXTENDS SchedMt, TLC

\* Metadata of the tasks: 0 for infrastructure, one value for the rest.
MCPrio == [t \in Task |-> IF t \in InfraTask THEN 0 ELSE 1]

Symmetry == Permutations(Worker)
=============================================================================
