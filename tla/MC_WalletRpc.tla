----------------------------- MODULE MC_WalletRpc -----------------------------
(* Two keys, two labels, and the strings that do not parse.                 *)
EXTENDS WalletRpc

MC_Labels == {"", "savings"}
=============================================================================
