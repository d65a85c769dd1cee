-------------------------------- MODULE TxDoS --------------------------------
(***************************************************************************)
(* The denial-of-service score of a CBTCTransaction                        *)
(* (src/src/cross-chain/ctransaction.h): "mutable int nDoS", zeroed by     *)
(* SetNull() from the constructor (221-224, 236-244), and                  *)
(* DoS(nDoSIn, fIn) const { nDoS += nDoSIn; return fIn; } (218-219).       *)
(*                                                                         *)
(* DoS is a const method that writes a plain int, so the validation of one *)
(* transaction object from several threads (spec.md 4.1, 9) races on it.  *)
(* The race is undefined behaviour; the outcomes the build produces are    *)
(* those of the separate load and store of "+=", modelled as two steps.   *)
(***************************************************************************)
EXTENDS Integers, FiniteSets

CONSTANTS
    Threads,      \* threads that call DoS on the same transaction
    Penalty       \* nDoSIn each thread adds

ASSUME Penalty \in Nat \ {0}

VARIABLES
    nDoS,     \* the transaction's score
    pc,       \* pc[t]: "load", "store" or "done"
    tmp       \* tmp[t]: the value of nDoS thread t loaded

vars == <<nDoS, pc, tmp>>

TypeOK ==
    /\ nDoS \in 0..Penalty * 2 * Cardinality(Threads)
    /\ pc \in [Threads -> {"load", "store", "done"}]
    /\ tmp \in [Threads -> 0..Penalty * 2 * Cardinality(Threads)]

\* CBTCTransaction(): SetNull() sets nDoS = 0.
Init ==
    /\ nDoS = 0
    /\ pc = [t \in Threads |-> "load"]
    /\ tmp = [t \in Threads |-> 0]

\* nDoS += nDoSIn, first half: the register load.
Load(t) ==
    /\ pc[t] = "load"
    /\ tmp' = [tmp EXCEPT ![t] = nDoS]
    /\ pc' = [pc EXCEPT ![t] = "store"]
    /\ UNCHANGED nDoS

\* nDoS += nDoSIn, second half: the store of the sum; DoS returns fIn.
Store(t) ==
    /\ pc[t] = "store"
    /\ nDoS' = tmp[t] + Penalty
    /\ pc' = [pc EXCEPT ![t] = "done"]
    /\ UNCHANGED tmp

Next == \E t \in Threads : Load(t) \/ Store(t)

Spec == Init /\ [][Next]_vars

-----------------------------------------------------------------------------
\* The score accumulates every penalty (spec.md 4.1: "a denial-of-service
\* counter accumulates"): once every call of DoS has returned, nDoS is the
\* sum of what they added.
DoSCountsEveryCall ==
    (\A t \in Threads : pc[t] = "done") => nDoS = Penalty * Cardinality(Threads)
=============================================================================
