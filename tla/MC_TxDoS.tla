------------------------------ MODULE MC_TxDoS ------------------------------
(* Two validation threads penalise the same transaction.                    *)
EXTENDS TxDoS
=============================================================================
