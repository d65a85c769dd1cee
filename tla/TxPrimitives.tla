----------------------------- MODULE TxPrimitives -----------------------------
(***************************************************************************)
(* The value types of src/src/cross-chain/ctransaction.h: COutPoint,       *)
(* CTxIn, CTxOut, and CBTCTransaction with its subclass CTransaction,      *)
(* the operations that change one (constructors, SetNull, SetEmpty, and    *)
(* reading one from a stream through IMPLEMENT_SERIALIZE), and the         *)
(* comparisons: operator < of COutPoint and the classes' operator ==.      *)
(*                                                                         *)
(* A uint256 is a small natural (0 is the null hash); an unsigned int is   *)
(* an element of 0..NMax, so (unsigned int) -1 is NMax; a script is an     *)
(* element of Scripts, EmptyScript the cleared one.  A serialised object   *)
(* is the tuple of the fields its READWRITE list names, in that order.     *)
(* The nDoS score is modelled in TxDoS and is left out here.               *)
(***************************************************************************)
EXTENDS Integers, Sequences, FiniteSets

CONSTANTS
    Hashes,        \* uint256 values, 0 included
    NMax,          \* the largest unsigned int
    Values,        \* int64 output values, -1 and 0 included
    Scripts,       \* scripts, EmptyScript included
    EmptyScript,   \* CScript() / clear()
    Versions,      \* nVersion values a stream may carry
    LockTimes,     \* nLockTime values a stream may carry
    Times,         \* time(0) readings
    MaxIns,        \* longest vin enumerated
    MaxOuts        \* longest vout enumerated

ASSUME 0 \in Hashes /\ NMax \in Nat /\ {-1, 0} \subseteq Values
ASSUME EmptyScript \in Scripts

\* (unsigned int) -1: a conversion modulo 2^w.
UIntMinusOne == (-1) % (NMax + 1)

\* COutPoint: the spent transaction's hash and the output index.
OutPoint == [hash : Hashes, n : 0..NMax]

\* COutPoint() and SetNull().
OutPointSetNull == [hash |-> 0, n |-> UIntMinusOne]

\* Mutant of operator <: the index compared with <=.
OutPointLessOrEq(a, b) ==
    a.hash < b.hash \/ (a.hash = b.hash /\ a.n <= b.n)

\* operator < : by hash, then by index.
OutPointLess(a, b) ==
    a.hash < b.hash \/ (a.hash = b.hash /\ a.n < b.n)

OutPointEq(a, b) == a.hash = b.hash /\ a.n = b.n

\* CTxIn: the prevout, the scriptSig and nSequence.  The scriptSig is left
\* out (one value): no property reads it.
TxIn == [prevout : OutPoint, scriptSig : {EmptyScript}, nSequence : 0..NMax]

\* CTxOut: nValue and scriptPubKey.
TxOut == [nValue : Values, scriptPubKey : Scripts]

\* CTxOut() and SetNull(): value -1, script cleared.
TxOutSetNull == [nValue |-> -1, scriptPubKey |-> EmptyScript]

TxOutSetEmpty == [nValue |-> 0, scriptPubKey |-> EmptyScript]

\* Vectors of at most k elements of S.
Vectors(S, k) == UNION {[1..j -> S] : j \in 0..k}

\* Mutant of SetNull: nTime not assigned, so a new object holds an
\* indeterminate time (here -1).
SetNullNoTime(now) == [nVersion |-> 1, nTime |-> -1, vin |-> <<>>,
                       vout |-> <<>>, nLockTime |-> 0]

\* CBTCTransaction() / SetNull(): CURRENT_VERSION, the local time, no
\* inputs or outputs, lock time 0.
SetNull(now) == [nVersion |-> 1, nTime |-> now, vin |-> <<>>,
                 vout |-> <<>>, nLockTime |-> 0]

\* The READWRITE lists: CBTCTransaction leaves nTime out (commented out
\* in its IMPLEMENT_SERIALIZE); CTransaction writes it.
CBTCFields == <<"nVersion", "vin", "vout", "nLockTime">>

\* Mutant of CTransaction's READWRITE list: nTime left out as in the base.
CTxFieldsNoTime == <<"nVersion", "vin", "vout", "nLockTime">>

CTxFields == <<"nVersion", "nTime", "vin", "vout", "nLockTime">>

Layout(kind) == IF kind = "CTransaction" THEN CTxFields ELSE CBTCFields

Serialize(tx, fields) == [k \in 1..Len(fields) |-> tx[fields[k]]]

\* Reading from a stream overwrites exactly the listed fields of the
\* object read into; the others keep what the object had.
Unserialize(obj, bytes, fields) ==
    [f \in DOMAIN obj |->
        IF \E k \in 1..Len(fields) : fields[k] = f
        THEN bytes[CHOOSE k \in 1..Len(fields) : fields[k] = f]
        ELSE obj[f]]

\* operator == of CTxIn and of CTxOut: field by field.
TxInEq(a, b) ==
    /\ OutPointEq(a.prevout, b.prevout)
    /\ a.scriptSig = b.scriptSig /\ a.nSequence = b.nSequence

TxOutEq(a, b) == a.nValue = b.nValue /\ a.scriptPubKey = b.scriptPubKey

\* std::vector's operator == on vin and on vout: equal sizes, elements
\* equal in order.
VinEq(u, v) == Len(u) = Len(v) /\ \A k \in 1..Len(u) : TxInEq(u[k], v[k])

VoutEq(u, v) == Len(u) = Len(v) /\ \A k \in 1..Len(u) : TxOutEq(u[k], v[k])

\* operator == of CBTCTransaction ignores nTime; CTransaction's compares it.
CBTCEq(a, b) ==
    /\ a.nVersion = b.nVersion /\ VinEq(a.vin, b.vin)
    /\ VoutEq(a.vout, b.vout) /\ a.nLockTime = b.nLockTime

CTxEq(a, b) == CBTCEq(a, b) /\ a.nTime = b.nTime

Eq(kind, a, b) == IF kind = "CTransaction" THEN CTxEq(a, b) ELSE CBTCEq(a, b)

-----------------------------------------------------------------------------
Txs == [nVersion : Versions, nTime : Times, vin : Vectors(TxIn, MaxIns),
        vout : Vectors(TxOut, MaxOuts), nLockTime : LockTimes]

VARIABLES
    kind,    \* the object's class: "CBTCTransaction" or "CTransaction"
    tx,      \* the object's fields
    clock    \* time(0)

vars == <<kind, tx, clock>>

TypeOK ==
    /\ kind \in {"CBTCTransaction", "CTransaction"}
    /\ tx \in Txs
    /\ clock \in Times

\* A freshly constructed object (both constructors call SetNull()).
Init ==
    /\ kind \in {"CBTCTransaction", "CTransaction"}
    /\ clock \in Times
    /\ tx = SetNull(clock)

\* SetNull() on the object.
Reset ==
    /\ tx' = SetNull(clock)
    /\ UNCHANGED <<kind, clock>>

\* stream >> object: a peer's serialisation of some transaction of the
\* same class is read into the object.
Read(t) ==
    /\ tx' = Unserialize(tx, Serialize(t, Layout(kind)), Layout(kind))
    /\ UNCHANGED <<kind, clock>>

\* vout[k].SetNull() and vout[k].SetEmpty() on the public outputs.
SetOutNull(k) ==
    /\ tx' = [tx EXCEPT !.vout[k] = TxOutSetNull]
    /\ UNCHANGED <<kind, clock>>

SetOutEmpty(k) ==
    /\ tx' = [tx EXCEPT !.vout[k] = TxOutSetEmpty]
    /\ UNCHANGED <<kind, clock>>

Tick ==
    /\ \E t \in Times : t > clock /\ clock' = t
    /\ UNCHANGED <<kind, tx>>

Next ==
    \/ Reset
    \/ \E t \in Txs : Read(t)
    \/ \E k \in DOMAIN tx.vout : SetOutNull(k) \/ SetOutEmpty(k)
    \/ Tick

Spec == Init /\ [][Next]_vars

-----------------------------------------------------------------------------
\* COutPoint's operator < (lines 24-27) orders the map keys outpoints are
\* stored under: for every outpoint a held transaction spends, it is
\* irreflexive, transitive through any two other outpoints, and orders
\* it one way or the other against any outpoint it is not operator == to.
OutPointStrictOrder ==
    \A a \in {tx.vin[k].prevout : k \in DOMAIN tx.vin}, b, c \in OutPoint :
        /\ ~OutPointLess(a, a)
        /\ OutPointLess(a, b) /\ OutPointLess(b, c) => OutPointLess(a, c)
        /\ OutPointLess(c, a) /\ OutPointLess(a, b) => OutPointLess(c, b)
        /\ ~OutPointEq(a, b) => OutPointLess(a, b) \/ OutPointLess(b, a)

\* Reading back what an object of either class wrote into a freshly
\* constructed object of that class, at any local time, gives an object
\* equal to the original by that class's operator == (lines 226-234,
\* 406-413, 517-534).
SerializeRoundTrip ==
    \A now \in Times :
        Eq(kind, Unserialize(SetNull(now), Serialize(tx, Layout(kind)),
                             Layout(kind)),
           tx)
=============================================================================
