------------------------------ MODULE WalletRpc ------------------------------
(***************************************************************************)
(* The key import/export RPCs of src/src/rpcdump.cpp: importprivkey        *)
(* (37-78) and dumpprivkey (80-100), over the wallet state they touch:     *)
(* the keys held and the address book.                                     *)
(*                                                                         *)
(* A private key is a model value; its CKeyID (pubkey.GetID()) is the key  *)
(* itself, and the address string of a key is the key.  The secret and   *)
(* address strings that do not parse are BadSecret and BadAddr; a valid   *)
(* address that is not a key id (a script address) is ScriptAddr.  Both   *)
(* RPCs run under LOCK2(cs_main, cs_wallet) where they touch the wallet,  *)
(* so each is one step.  The wallet is encrypted and may be locked        *)
(* (walletlock / walletpassphrase, outside this file); a locked wallet     *)
(* refuses AddKeyPubKey and GetKey.                                        *)
(***************************************************************************)
EXTENDS Integers, TLC

CONSTANTS
    Keys,        \* private keys an RPC caller may pass
    Labels,      \* account labels ("" included)
    BadSecret,   \* a string CBitcoinSecret::SetString rejects
    BadAddr,     \* a string CBitcoinAddress::SetString rejects
    ScriptAddr   \* a valid address that does not refer to a key

VARIABLES
    keys,      \* keys the wallet holds
    book,      \* the address book: key id -> label
    locked,    \* the encrypted wallet is locked
    reply      \* the last RPC's outcome

vars == <<keys, book, locked, reply>>

Replies == {"none", "null", "usage", "invalid_key", "wallet_error",
            "invalid_address", "type_error"} \cup Keys

TypeOK ==
    /\ keys \subseteq Keys
    /\ DOMAIN book \subseteq Keys /\ \A a \in DOMAIN book : book[a] \in Labels
    /\ locked \in BOOLEAN
    /\ reply \in Replies

Init ==
    /\ keys = {}
    /\ book = [a \in {} |-> ""]
    /\ locked \in BOOLEAN
    /\ reply = "none"

\* importprivkey <secret> [label] [rescan]: nparams outside 1..3 is a usage
\* error; a secret that does not parse is RPC_INVALID_ADDRESS_OR_KEY.
\* Under the locks: MarkDirty, SetAddressBookName(id, label), then
\* AddKeyPubKey, whose failure throws RPC_WALLET_ERROR; a rescan follows a
\* successful add.  MarkDirty and the rescan only refresh cached balances
\* and wallet transactions, which no property here reads.
ImportPrivKey(nparams, secret, label) ==
    /\ nparams \in 0..4
    /\ CASE nparams < 1 \/ nparams > 3 ->
              reply' = "usage" /\ UNCHANGED <<keys, book>>
         [] secret = BadSecret ->
              reply' = "invalid_key" /\ UNCHANGED <<keys, book>>
         [] locked ->
              /\ book' = (secret :> label) @@ book
              /\ reply' = "wallet_error"
              /\ UNCHANGED keys
         [] OTHER ->
              /\ book' = (secret :> label) @@ book
              /\ keys' = keys \cup {secret}
              /\ reply' = "null"
    /\ UNCHANGED locked

\* dumpprivkey <address>: exactly one parameter; the address must parse
\* (RPC_INVALID_ADDRESS_OR_KEY) and be a key id (RPC_TYPE_ERROR); GetKey
\* must find the key (RPC_WALLET_ERROR); the reply is the secret.
DumpPrivKey(nparams, addr) ==
    /\ nparams \in 0..2
    /\ reply' = CASE nparams # 1 -> "usage"
                  [] addr = BadAddr -> "invalid_address"
                  [] addr = ScriptAddr -> "type_error"
                  [] addr \notin keys \/ locked -> "wallet_error"
                  [] OTHER -> addr
    /\ UNCHANGED <<keys, book, locked>>

\* walletlock / walletpassphrase (outside rpcdump.cpp).
ToggleLock ==
    /\ locked' = ~locked
    /\ UNCHANGED <<keys, book, reply>>

Next ==
    \/ \E np \in 0..4, s \in Keys \cup {BadSecret}, l \in Labels :
          ImportPrivKey(np, s, l)
    \/ \E np \in 0..2, a \in Keys \cup {BadAddr, ScriptAddr} :
          DumpPrivKey(np, a)
    \/ ToggleLock

Spec == Init /\ [][Next]_vars

-----------------------------------------------------------------------------
\* An importprivkey that reports an error leaves the wallet as it found it:
\* no label is written for a key the wallet did not take (rpcdump.cpp
\* 62-75, SetAddressBookName before AddKeyPubKey).
ImportAllOrNothing ==
    [][reply' \in {"usage", "invalid_key", "wallet_error"}
         => UNCHANGED <<keys, book>>]_vars
=============================================================================
