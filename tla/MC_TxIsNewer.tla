---------------------------- MODULE MC_TxIsNewer ----------------------------
(* Instantiates TxIsNewer for TLC: two outpoints, three sequence values    *)
(* (0, 1 and the largest, 2) and up to three inputs per transaction.       *)
EXTENDS TxIsNewer
=============================================================================
