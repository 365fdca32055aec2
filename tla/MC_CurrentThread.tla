-------------------------- MODULE MC_CurrentThread --------------------------
(***************************************************************************)
(* Bounds: two tasks and one thread outside the runtime, both intervals    *)
(* two.  One task can keep the local queue busy while the other one is     *)
(* injected, deferred, aborted or shut down; a thread parks, yields and    *)
(* takes from either queue first.  Each task is spawned once.              *)
(***************************************************************************)
EXTENDS CurrentThread
=============================================================================
