---------------------------- MODULE MC_CryptoPop ----------------------------
(* A two-byte inputStr, the 32-byte output the spec's 256-bit digest      *)
(* asks for, and input lengths up to one past the buffer.                 *)
EXTENDS CryptoPop
=============================================================================
