---------------------------- MODULE MC_SwapRebind ----------------------------
(* One order with one leg and two chain addresses, so that a bound address *)
(* can be replaced by another.                                             *)
EXTENDS SwapRegistry

MC_Legs == {"from"}
MC_Addrs == {"a1", "a2"}
=============================================================================
