----------------------------- MODULE MC_Fanout -----------------------------
(***************************************************************************)
(* Bounds: a stack of three modules with the estimation module in the      *)
(* middle, so that a module before and one behind it may reject; two child *)
(* RPCs of the handler and one of a spawned task, enough for an interval   *)
(* that spans two others and for a fanout after a finished group.  Each    *)
(* child RPC is called once.                                               *)
(***************************************************************************)
EXTENDS Fanout
=============================================================================
