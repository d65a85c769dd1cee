----------------------------- MODULE MC_SwapOrder -----------------------------
(* Two orders created on two nodes whose clocks are apart, one leg, one     *)
(* address: enough for each node to see both offers.                       *)
EXTENDS SwapRegistry

MC_Legs == {"from"}
MC_Addrs == {"a1"}
=============================================================================
