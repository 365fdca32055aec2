--------------------------- MODULE MC_MultiQueue ---------------------------
(***************************************************************************)
(* Bounds: three sub-queues, so that pop leaves one out and a scan can be  *)
(* overtaken, two threads and two items, one of each rank.  Every property *)
(* is about the thread that runs a call and what the other one does        *)
(* meanwhile.  No counter grows beyond the number of items.                *)
(***************************************************************************)
EXTENDS MultiQueue, TLC

CONSTANT Urgent  \* the items of rank 0, the others have rank 1

MCRank == [x \in Item |-> IF x \in Urgent THEN 0 ELSE 1]
============================================================================
