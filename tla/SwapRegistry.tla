---------------------------- MODULE SwapRegistry ----------------------------
(***************************************************************************)
(* The swap registry of every node of the signalling overlay, the packets *)
(* that carry descriptor copies between nodes, and the timer sweep.       *)
(*                                                                         *)
(* The registry, its transition table, the dispatcher and the sweep are   *)
(* not in the source tree (spec.md 4.1, 4.3, 4.4); they are modelled from *)
(* the spec.  Every copy a node stores is made by the source's own        *)
(* XBridgeTransactionDescr copy constructor or operator = (module          *)
(* SwapDescriptor): a packet for an unknown id is inserted through the    *)
(* copy constructor, a packet for a known id is assigned over the stored  *)
(* descriptor.                                                             *)
(*                                                                         *)
(* The network keeps every packet ever sent (msgs): a packet may be        *)
(* received any number of times, in any order, or never.  Every node has  *)
(* its own wall clock (second_clock::universal_time), and clocks are not  *)
(* synchronised.                                                           *)
(***************************************************************************)
EXTENDS SwapDescriptor, FiniteSets, TLC

CONSTANTS
    Nodes,          \* nodes of the overlay (hub and parties)
    Ids,            \* swap identifiers (uint256)
    Legs,           \* the legs of a swap, one member binding each
    Addrs,          \* chain addresses a member may be bound to
    NoNode,         \* no owner yet
    NoAddr,         \* the empty address vector
    TIMEOUT,        \* seconds without an update after which a copy expires
    MaxTime,        \* last second any clock reaches
    MaxDeliveries,  \* packets received in one behaviour
    MaxAdvances     \* protocol transitions the owners take in one behaviour

ASSUME TIMEOUT \in Nat /\ MaxTime \in Nat
ASSUME MaxDeliveries \in Nat /\ MaxAdvances \in Nat
ASSUME MaxTime > TIMEOUT + 1

\* Every event but a clock tick and a sweep happens no later than this
\* second, so that every copy has time left to expire.
LastEventTime == MaxTime - TIMEOUT - 1

VARIABLES
    reg,         \* reg[n]: the descriptors node n holds, a function on ids
    member,      \* member[i][l]: the address binding of leg l, at the owner
    owner,       \* owner[i]: the node that created order i
    clock,       \* clock[n]: node n's wall clock
    msgs,        \* every descriptor packet ever sent
    deliveries,  \* packets received so far
    advances     \* protocol transitions taken so far

vars == <<reg, member, owner, clock, msgs, deliveries, advances>>

Descr == [state : States, created : 0..MaxTime, txtime : 0..MaxTime]

Packet == [from : Nodes, id : Ids, state : States, created : 0..MaxTime]

Member == [source : Addrs \cup {NoAddr}, dest : Addrs \cup {NoAddr}]

TypeOK ==
    /\ \A n \in Nodes : DOMAIN reg[n] \subseteq Ids
                        /\ \A i \in DOMAIN reg[n] : reg[n][i] \in Descr
    /\ member \in [Ids -> [Legs -> Member]]
    /\ owner \in [Ids -> Nodes \cup {NoNode}]
    /\ clock \in [Nodes -> 0..MaxTime]
    /\ msgs \subseteq Packet
    /\ deliveries \in 0..MaxDeliveries
    /\ advances \in 0..MaxAdvances

-----------------------------------------------------------------------------
\* Transition table of spec.md 4.1: the next state on the happy path, an
\* explicit cancel before Hold, a rollback between Hold and Signed, and
\* Invalid or Dropped from any live state.  Expired is the sweep's alone.
Successors(s) ==
    IF s \in Terminal THEN {}
    ELSE {HappyPath[Rank(s) + 1], "trInvalid", "trDropped"}
         \cup (IF s \in {"trNew", "trPending", "trAccepting"}
               THEN {"trCancelled"} ELSE {})
         \cup (IF s \in {"trHold", "trCreated", "trSigned"}
               THEN {"trRollback"} ELSE {})

\* Accepting -> Hold needs both legs' member bindings complete.
Guard(i, s, t) ==
    s = "trAccepting" /\ t = "trHold" =>
        \A l \in Legs : ~IsEmpty(member[i][l], NoAddr)

\* The packet a node sends for its copy of order i.
PacketOf(n, i) ==
    [from |-> n, id |-> i, state |-> reg[n][i].state,
     created |-> reg[n][i].created]

-----------------------------------------------------------------------------
Init ==
    /\ reg = [n \in Nodes |-> [i \in {} |-> NewDescr(0)]]
    /\ member = [i \in Ids |-> [l \in Legs |-> [source |-> NoAddr,
                                                  dest |-> NoAddr]]]
    /\ owner = [i \in Ids |-> NoNode]
    /\ clock \in [Nodes -> 0..LastEventTime]
    /\ msgs = {}
    /\ deliveries = 0
    /\ advances = 0

\* A node proposes a new order: a default-constructed descriptor with a
\* fresh id enters its registry in state trNew.
Create(n, i) ==
    /\ owner[i] = NoNode
    /\ clock[n] <= LastEventTime
    /\ reg' = [reg EXCEPT ![n] = reg[n] @@ (i :> NewDescr(clock[n]))]
    /\ owner' = [owner EXCEPT ![i] = n]
    /\ UNCHANGED <<member, clock, msgs, deliveries, advances>>

\* During negotiation the owner binds a leg's source or destination
\* address (setSource / setDest): the setters assign unconditionally.
Bind(i, l, a) ==
    /\ owner[i] # NoNode
    /\ clock[owner[i]] <= LastEventTime
    /\ \/ member' = [member EXCEPT ![i][l] = SetSource(@, a)]
       \/ member' = [member EXCEPT ![i][l] = SetDest(@, a)]
    /\ member' # member
    /\ UNCHANGED <<reg, owner, clock, msgs, deliveries, advances>>

\* registry.transition(id, event) at the owner: a guarded step of the
\* table; the update refreshes txtime and its packet is queued to peers.
Advance(i, t) ==
    LET n == owner[i] IN
    /\ n # NoNode
    /\ i \in DOMAIN reg[n]
    /\ clock[n] <= LastEventTime
    /\ advances < MaxAdvances
    /\ t \in Successors(reg[n][i].state)
    /\ Guard(i, reg[n][i].state, t)
    /\ reg' = [reg EXCEPT ![n][i] = [@ EXCEPT !.state = t,
                                              !.txtime = clock[n]]]
    /\ msgs' = msgs \cup {[PacketOf(n, i) EXCEPT !.state = t]}
    /\ advances' = advances + 1
    /\ UNCHANGED <<member, owner, clock, deliveries>>

\* A node resends its current copy of an order (relay, retransmission).
Relay(n, i) ==
    /\ i \in DOMAIN reg[n]
    /\ clock[n] <= LastEventTime
    /\ PacketOf(n, i) \notin msgs
    /\ msgs' = msgs \cup {PacketOf(n, i)}
    /\ UNCHANGED <<reg, member, owner, clock, deliveries, advances>>

\* The dispatcher decodes a packet into a descriptor and upserts it: an
\* unknown id is inserted as a copy-constructed descriptor, a known one is
\* assigned over with operator =.
Receive(n, m) ==
    /\ m.from # n
    /\ deliveries < MaxDeliveries
    /\ clock[n] <= LastEventTime
    /\ reg' = [reg EXCEPT ![n] =
                 IF m.id \in DOMAIN reg[n]
                 THEN [reg[n] EXCEPT ![m.id] = Assign(@, m, clock[n])]
                 ELSE reg[n] @@ (m.id :> CopyCtor(m, clock[n]))]
    /\ deliveries' = deliveries + 1
    /\ UNCHANGED <<member, owner, clock, msgs, advances>>

\* A second passes on node n's wall clock.
Tick(n) ==
    /\ clock[n] < MaxTime
    /\ clock' = [clock EXCEPT ![n] = @ + 1]
    /\ UNCHANGED <<reg, member, owner, msgs, deliveries, advances>>

\* Whether node n's copy of order i has gone TIMEOUT seconds unrefreshed.
Stale(n, i) ==
    /\ reg[n][i].state \notin Terminal
    /\ clock[n] - reg[n][i].txtime > TIMEOUT

\* onTimer -> sweepExpired(now): every stale live copy becomes trExpired.
Sweep(n) ==
    /\ \E i \in DOMAIN reg[n] : Stale(n, i)
    /\ reg' = [reg EXCEPT ![n] =
                 [i \in DOMAIN reg[n] |->
                    IF Stale(n, i)
                    THEN [reg[n][i] EXCEPT !.state = "trExpired",
                                           !.txtime = clock[n]]
                    ELSE reg[n][i]]]
    /\ UNCHANGED <<member, owner, clock, msgs, deliveries, advances>>

\* A terminal descriptor leaves the live registry (to the audit store).
Retire(n, i) ==
    /\ i \in DOMAIN reg[n]
    /\ reg[n][i].state \in Terminal
    /\ reg' = [reg EXCEPT ![n] = [j \in DOMAIN reg[n] \ {i} |-> reg[n][j]]]
    /\ UNCHANGED <<member, owner, clock, msgs, deliveries, advances>>

Next ==
    \/ \E n \in Nodes, i \in Ids : Create(n, i)
    \/ \E i \in Ids, l \in Legs, a \in Addrs : Bind(i, l, a)
    \/ \E i \in Ids, t \in States : Advance(i, t)
    \/ \E n \in Nodes, i \in Ids : Relay(n, i)
    \/ \E n \in Nodes, m \in msgs : Receive(n, m)
    \/ \E n \in Nodes : Tick(n) \/ Sweep(n)
    \/ \E n \in Nodes, i \in Ids : Retire(n, i)

\* The timer thread is dedicated (spec.md 4.4), so sweeps and the clock
\* are weakly fair; peers, the network and the owner's protocol are not.
Fairness ==
    /\ \A n \in Nodes : WF_vars(Tick(n)) /\ WF_vars(Sweep(n))

Spec == Init /\ [][Next]_vars /\ Fairness

-----------------------------------------------------------------------------
(***************************************************************************)
(* Properties                                                              *)
(***************************************************************************)

\* State only moves forward (spec.md 3, invariant 2): a node's copy never
\* goes back along the happy path and never leaves a terminal state.
Forward(s, t) ==
    s = t \/ (s \notin Terminal /\ (t \in Terminal \/ Rank(t) > Rank(s)))

StateNeverRegresses ==
    [][\A n \in Nodes : \A i \in DOMAIN reg[n] \cap DOMAIN reg'[n] :
          Forward(reg[n][i].state, reg'[n][i].state)]_reg

\* Member bindings are fixed once the owner holds the order in Hold or
\* later (spec.md 4.2: a rebind after Hold is rejected): setSource and
\* setDest never change a binding of an order locked on chain.
Locked(i) ==
    /\ owner[i] # NoNode
    /\ i \in DOMAIN reg[owner[i]]
    /\ reg[owner[i]][i].state \in {"trHold", "trCreated", "trSigned",
                                   "trCommited"}

BindingStableAfterHold ==
    [][\A i \in Ids : Locked(i) => member'[i] = member[i]]_member
\* Matching serves the oldest offer first, by operator < on created
\* (xbridgetransactiondescr.h 78-81; spec.md 4.1: created reflects the
\* earliest sighting, so relays cannot reorder offers): no two nodes
\* holding live copies of two orders rank them in opposite order.
Live(n, i) == i \in DOMAIN reg[n] /\ reg[n][i].state \notin Terminal

MatchOrderAgreed ==
    \A n, m \in Nodes, i, j \in Ids :
        Live(n, i) /\ Live(n, j) /\ Live(m, i) /\ Live(m, j) =>
            ~(Less(reg[n][i], reg[n][j]) /\ Less(reg[m][j], reg[m][i]))
=============================================================================
