---------------------------- MODULE MC_Rajomon ----------------------------
(***************************************************************************)
(* Bounds: one request slot, reused for ever, and the price worker; a      *)
(* method with two children, so that an iteration over its entries can be  *)
(* overtaken; prices that take two ticks to decay; latencies that raise,   *)
(* hold and lower the own price; tokens below, at and above the prices.    *)
(***************************************************************************)
EXTENDS Rajomon

MCEdge == {<<"p", "x">>, <<"p", "y">>}
=============================================================================
