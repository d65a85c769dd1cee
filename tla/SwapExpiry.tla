------------------------------ MODULE SwapExpiry ------------------------------
(***************************************************************************)
(* The timer loops of the nodes holding one swap, composed with their     *)
(* registries.  Every node's XBridge::onTimer (src/unnamed/part_002)      *)
(* fires once per TIMER_INTERVAL on its dedicated timer thread; each      *)
(* firing rearms the timer, sweeps the registry (sweepExpired) and        *)
(* retransmits the copies still awaiting progress (spec.md 4.4).  A       *)
(* received copy is merged by the source's copyFrom, which takes the      *)
(* incoming state and refreshes txtime (xbridgetransactiondescr.h          *)
(* 110-131).                                                               *)
(*                                                                         *)
(* The swap is stalled in trHold: its owner takes no further step, so     *)
(* the sweep is what must end it.  Time is kept relative so that          *)
(* behaviours can be infinite: a copy records its age, the seconds since  *)
(* its txtime, in TIMER_INTERVAL units and capped once it exceeds         *)
(* TIMEOUT.  A node's outbound packet to a peer is the latest state it    *)
(* retransmitted; an older one still in flight is superseded.             *)
(***************************************************************************)
EXTENDS SwapDescriptor

CONSTANTS
    Nodes,      \* nodes holding a copy of the swap
    TIMEOUT,    \* timer intervals without a refresh after which a copy expires
    NoPacket    \* nothing in flight

ASSUME TIMEOUT \in Nat

VARIABLES
    copy,       \* copy[n]: node n's descriptor, [state, age]
    fired,      \* fired[n]: n's timer has fired in the current interval
    inflight    \* inflight[n]: the state last retransmitted to n, or NoPacket

vars == <<copy, fired, inflight>>

\* Ages beyond TIMEOUT + 1 are not told apart by the sweep.
Aged(a) == IF a > TIMEOUT THEN TIMEOUT + 1 ELSE a

\* sweepExpired's test: a live copy not refreshed for more than TIMEOUT.
StaleCopy(n) == copy[n].state \notin Terminal /\ copy[n].age > TIMEOUT

Init ==
    /\ copy = [n \in Nodes |-> [state |-> "trHold", age |-> 0]]
    /\ fired = [n \in Nodes |-> FALSE]
    /\ inflight = [n \in Nodes |-> NoPacket]

\* onTimer on n's timer thread: rearm, expire the copy if it is stale, and
\* retransmit it to every peer if it is still live.
OnTimer(n) ==
    LET swept == IF StaleCopy(n) THEN [state |-> "trExpired", age |-> 0]
                                 ELSE copy[n]
    IN /\ ~fired[n]
       /\ fired' = [fired EXCEPT ![n] = TRUE]
       /\ copy' = [copy EXCEPT ![n] = swept]
       /\ inflight' = IF swept.state \in Terminal THEN inflight
                      ELSE [m \in Nodes |-> IF m = n THEN inflight[m]
                                                     ELSE swept.state]

\* The dispatcher hands a received copy to operator =: copyFrom takes its
\* state and sets txtime to now, so the age restarts at 0.
Deliver(n) ==
    /\ inflight[n] # NoPacket
    /\ copy' = [copy EXCEPT ![n] = [state |-> inflight[n], age |-> 0]]
    /\ inflight' = [inflight EXCEPT ![n] = NoPacket]
    /\ UNCHANGED fired

\* TIMER_INTERVAL passes once every timer has fired in this interval.
Tick ==
    /\ \A n \in Nodes : fired[n]
    /\ fired' = [n \in Nodes |-> FALSE]
    /\ copy' = [n \in Nodes |-> [copy[n] EXCEPT !.age = Aged(@ + 1)]]
    /\ UNCHANGED inflight

Next == Tick \/ \E n \in Nodes : OnTimer(n) \/ Deliver(n)

\* The timer threads are dedicated and time passes; the network is not
\* assumed to deliver anything.
Spec == Init /\ [][Next]_vars /\ WF_vars(Tick)
        /\ \A n \in Nodes : WF_vars(OnTimer(n))

-----------------------------------------------------------------------------
\* A swap stalled in Hold is eventually expired on every node and stays
\* so (spec.md 8, scenario: a Hold descriptor with no Created transition
\* within the deadline sweeps to Expired), however the peers' periodic
\* retransmissions are delivered (copyFrom refreshes txtime, line 122).
StalledSwapExpires ==
    <>[](\A n \in Nodes : copy[n].state \in Terminal)
=============================================================================
