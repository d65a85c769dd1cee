--------------------------- MODULE SwapDescriptor ---------------------------
(***************************************************************************)
(* The value semantics of one swap order, XBridgeTransactionDescr          *)
(* (src/src/cross-chain/xbridgetransactiondescr.h), and of one party's     *)
(* address binding, XBridgeTransactionMember (ctransaction.h, 558-577).    *)
(*                                                                         *)
(* A descriptor is abstracted to the fields the merge semantics tell      *)
(* apart: its state, and the two wall-clock stamps created and txtime.     *)
(* Amounts, currencies, addresses and raw transactions are copied         *)
(* verbatim by copyFrom and are left out.  Timestamps are integers: the    *)
(* seconds of boost's second_clock.                                        *)
(***************************************************************************)
EXTENDS Integers

\* enum State: the thirteen states, in declaration order.
States == {"trNew", "trPending", "trAccepting", "trHold", "trCreated",
           "trSigned", "trCommited", "trFinished", "trRollback",
           "trDropped", "trCancelled", "trInvalid", "trExpired"}

\* The happy path in enum order; the enum value of a state on it.
HappyPath == <<"trNew", "trPending", "trAccepting", "trHold", "trCreated",
               "trSigned", "trCommited", "trFinished">>

Rank(s) == CHOOSE k \in 1..8 : HappyPath[k] = s

Terminal == {"trFinished", "trRollback", "trDropped", "trCancelled",
             "trInvalid", "trExpired"}

\* Mutant of the default constructor: without the initialiser list the
\* stamps stay default-constructed ptimes, not_a_date_time (here -1).
NewDescrUnstamped(now) == [state |-> "trNew", created |-> -1, txtime |-> -1]

\* XBridgeTransactionDescr(): state trNew, both stamps "now".
NewDescr(now) == [state |-> "trNew", created |-> now, txtime |-> now]

\* operator < : descriptors order by created alone.
Less(a, b) == a.created < b.created

\* copyFrom(d): every field is overwritten by d's, state included; txtime
\* is refreshed to the local clock; created keeps the earlier of the two.
CopyFrom(this, d, now) ==
    [this EXCEPT !.state   = d.state,
                 !.txtime  = now,
                 !.created = IF this.created > d.created THEN d.created
                                                         ELSE this.created]

\* operator = (d): a self-assignment returns at once, otherwise copyFrom.
\* The registry always assigns a decoded copy, never the object itself.
Assign(this, d, now) == CopyFrom(this, d, now)

\* XBridgeTransactionDescr(const XBridgeTransactionDescr & d): the stamps
\* are first set to the local clock, then copyFrom(d) runs.
CopyCtor(d, now) ==
    CopyFrom([state |-> "trNew", created |-> now, txtime |-> now], d, now)

(***************************************************************************)
(* XBridgeTransactionMember: source and destination address, each empty  *)
(* (NoAddr) or an address.                                                 *)
(***************************************************************************)
IsEmpty(m, NoAddr) == m.source = NoAddr \/ m.dest = NoAddr

SetSource(m, addr) == [m EXCEPT !.source = addr]

SetDest(m, addr) == [m EXCEPT !.dest = addr]
=============================================================================
