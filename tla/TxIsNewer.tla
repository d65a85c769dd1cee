------------------------------ MODULE TxIsNewer ------------------------------
(***************************************************************************)
(* CBTCTransaction::IsNewerThan(old) (src/src/cross-chain/ctransaction.h,  *)
(* lines 273-300), one step per loop iteration.  An input CTxIn is        *)
(* abstracted to its prevout (a model value) and its nSequence, an        *)
(* unsigned int whose largest value, the loop's starting nLowest, is      *)
(* SeqMax.  Init enumerates every pair of input vectors up to MaxInputs    *)
(* long; the run checks that the loop implements IsNewerAtomic, the call  *)
(* as one step answering the replacement rule.                            *)
(***************************************************************************)
EXTENDS Integers, Sequences, FiniteSets

CONSTANTS
    Prevouts,     \* outpoints an input may spend
    SeqMax,       \* numeric_limits<unsigned int>::max() at reduced width
    MaxInputs     \* longest input vector enumerated

ASSUME SeqMax \in Nat \ {0} /\ MaxInputs \in Nat

VARIABLES
    vin,       \* this->vin
    oldvin,    \* old.vin
    pc,        \* "check", "loop" or "done"
    i,         \* loop index (1-based)
    fNewer,    \* the loop's fNewer
    nLowest,   \* the loop's nLowest
    result     \* the returned value, once pc = "done"

vars == <<vin, oldvin, pc, i, fNewer, nLowest, result>>

\* The call as IsNewerAtomic sees it: it has returned once pc is "done",
\* and its answer is FALSE until then.
Atomic == INSTANCE IsNewerAtomic
              WITH done <- pc = "done",
                   result <- IF pc = "done" THEN result ELSE FALSE

\* Both input vectors, and the loop's start (lines 281-282).
Init ==
    /\ vin \in Atomic!Vins /\ oldvin \in Atomic!Vins
    /\ pc = "check" /\ i = 1
    /\ fNewer = FALSE /\ nLowest = SeqMax /\ result = FALSE

\* Lines 275-279: different input counts or a different prevout anywhere
\* returns false; otherwise the loop starts with fNewer false and nLowest
\* the largest unsigned int (281-282).
CheckPrevouts ==
    /\ pc = "check"
    /\ IF Len(vin) # Len(oldvin)
          \/ \E k \in 1..Len(vin) : vin[k].prevout # oldvin[k].prevout
       THEN pc' = "done" /\ result' = FALSE
       ELSE pc' = "loop" /\ UNCHANGED result
    /\ UNCHANGED <<vin, oldvin, i, fNewer, nLowest>>

Iterate ==
    /\ pc = "loop"
    /\ i <= Len(vin)
    /\ LET s == vin[i].nSequence
           o == oldvin[i].nSequence
           low1 == IF s # o /\ s <= nLowest THEN s ELSE nLowest
           f1   == IF s # o /\ s <= nLowest THEN FALSE ELSE fNewer
       IN /\ fNewer'  = IF s # o /\ o < low1 THEN TRUE ELSE f1
          /\ nLowest' = IF s # o /\ o < low1 THEN o ELSE low1
    /\ i' = i + 1
    /\ UNCHANGED <<vin, oldvin, pc, result>>

\* Line 299: return fNewer.
Return ==
    /\ pc = "loop"
    /\ i > Len(vin)
    /\ pc' = "done" /\ result' = fNewer
    /\ UNCHANGED <<vin, oldvin, i, fNewer, nLowest>>

Next == CheckPrevouts \/ Iterate \/ Return

Spec == Init /\ [][Next]_vars /\ WF_vars(Next)

-----------------------------------------------------------------------------
=============================================================================
