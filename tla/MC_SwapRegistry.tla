-------------------------- MODULE MC_SwapRegistry --------------------------
(* Instantiates SwapRegistry for TLC: two nodes with independent clocks,  *)
(* one order with one leg, one chain address.                             *)
EXTENDS SwapRegistry, TLC

MC_Legs == {"from"}
MC_Addrs == {"a1"}
=============================================================================
