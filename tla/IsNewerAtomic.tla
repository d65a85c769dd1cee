---------------------------- MODULE IsNewerAtomic ----------------------------
(***************************************************************************)
(* What CBTCTransaction::IsNewerThan(old) promises, as one atomic step:    *)
(* for two input vectors fixed for the whole call, the call eventually     *)
(* answers once, and the answer is the replacement rule: both spend the    *)
(* same outpoints in the same order, some sequence numbers differ, and the *)
(* lowest differing sequence number belongs to the old transaction alone.  *)
(* TxIsNewer, the loop of the source, is checked to implement it.          *)
(***************************************************************************)
EXTENDS Integers, Sequences

CONSTANTS
    Prevouts,     \* outpoints an input may spend
    SeqMax,       \* numeric_limits<unsigned int>::max() at reduced width
    MaxInputs     \* longest input vector enumerated

\* CTxIn, abstracted to its prevout and its nSequence.
Input == [prevout : Prevouts, nSequence : 0..SeqMax]

\* CBTCTransaction::vin: input vectors of 0..MaxInputs inputs.
Vins == UNION {[1..k -> Input] : k \in 0..MaxInputs}

VARIABLES
    vin,       \* this->vin
    oldvin,    \* old.vin
    done,      \* the call has returned
    result     \* its answer, FALSE until then

\* The inputs whose sequence numbers differ.
Differing(a, b) == {k \in 1..Len(a) : a[k].nSequence # b[k].nSequence}

MinSeq(v, D) == CHOOSE m \in {v[k].nSequence : k \in D} :
                    \A k \in D : m <= v[k].nSequence

NewerReference(a, b) ==
    /\ Len(a) = Len(b)
    /\ \A k \in 1..Len(a) : a[k].prevout = b[k].prevout
    /\ Differing(a, b) # {}
    /\ MinSeq(b, Differing(a, b)) < MinSeq(a, Differing(a, b))

Init ==
    /\ vin \in Vins /\ oldvin \in Vins
    /\ done = FALSE /\ result = FALSE

Answer ==
    /\ ~done
    /\ done' = TRUE
    /\ result' = NewerReference(vin, oldvin)
    /\ UNCHANGED <<vin, oldvin>>

Spec == Init /\ [][Answer]_<<vin, oldvin, done, result>>
             /\ WF_<<vin, oldvin, done, result>>(Answer)
=============================================================================
