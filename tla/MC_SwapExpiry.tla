----------------------------- MODULE MC_SwapExpiry -----------------------------
(* Two nodes holding the stalled swap; a copy expires after two timer       *)
(* intervals without a refresh.                                            *)
EXTENDS SwapExpiry
=============================================================================
