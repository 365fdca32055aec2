-------------------------- MODULE MC_ParentContext --------------------------
(***************************************************************************)
(* Bounds: two threads, two requests and two other tasks: a spawned task   *)
(* that outlives its request, runs on another thread than the handler and  *)
(* shares that thread with the other request, and a task a spawned task    *)
(* spawns.  Each request arrives once and each task is spawned once.       *)
(***************************************************************************)
EXTENDS ParentContext, TLC

Symmetry == Permutations(Thread) \cup Permutations(Req) \cup Permutations(Job)
=============================================================================
