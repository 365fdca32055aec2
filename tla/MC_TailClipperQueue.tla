------------------------ MODULE MC_TailClipperQueue ------------------------
(***************************************************************************)
(* Bounds: four tasks, a window of two, metadata 0 (infrastructure) to 2:  *)
(* a full window, two tasks waiting behind it, and ties between metadata   *)
(* values.  A task that was popped may be pushed or yielded again, so runs *)
(* are unbounded.                                                          *)
(***************************************************************************)
EXTENDS TailClipperQueue, TLC
============================================================================
