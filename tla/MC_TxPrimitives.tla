--------------------------- MODULE MC_TxPrimitives ---------------------------
(* Two hashes (0 is null), one-bit unsigned ints, three output values,    *)
(* two scripts, two clock readings, one input and up to two outputs.     *)
EXTENDS TxPrimitives
MC_Values == {-1, 0, 1}
MC_Scripts == {"", "script"}
=============================================================================
