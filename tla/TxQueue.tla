------------------------------ MODULE TxQueue ------------------------------
(***************************************************************************)
(* The transmit queue of one host, internal/mesh/txqueue.go: packets       *)
(* waiting to go on air, as pure operators on a queue value.  Every        *)
(* operation runs under q.mu, so each is one atomic step of its caller.    *)
(*                                                                         *)
(* A queue is a set of items.  Each item carries the sequence number       *)
(* Enqueue gave it, and Go appends items in that order and only ever       *)
(* removes from the slice, so "earlier in the slice" is "lower seq".       *)
(***************************************************************************)
EXTENDS Integers, FiniteSets

CONSTANTS
  Own,         \* packets that identities of this host originate
  Heard,       \* packets of other nodes that a hosted node relays
  Prio,        \* Prio[k]: priority of packet k (MeshPacket.Priority)
  Origin,      \* Origin[k]: the hosted node that originates or relays k
  Identities,  \* hosted nodes of this host
  MaxHop,      \* largest hop limit of a relayed copy
  QueueMax     \* room in the queue (64: NewTxQueue in NewHost)

Packets == Own \cup Heard

ASSUME QueueAssumption ==
  /\ Own \cap Heard = {}
  /\ Prio \in [Packets -> Nat]
  /\ Origin \in [Packets -> Identities]
  /\ QueueMax \in Nat \ {0}
  /\ MaxHop \in Nat

\* One queued copy of a packet (txItem).  prio, relay and origin are
\* functions of the packet; due is whether the item's due time has come.
Items == [key : Packets, hop : 0..MaxHop, due : BOOLEAN,
          attempts : Nat, seq : Nat \ {0}]

Relay(it) == it.key \in Heard

\* The first of some items in slice order, as a set: {} when there are none.
First(S) == {x \in S : \A y \in S : x.seq <= y.seq}

\* Mutant: any packet that matters less may be pushed out.
VictimsOfAnyKind(q, it) == {x \in q : Prio[x.key] < Prio[it.key]}

\* Relays a newcomer may push out of a full queue: they matter less.
Victims(q, it) ==
  {x \in q : Relay(x) /\ Prio[x.key] < Prio[it.key]}

\* The relay Enqueue evicts: the lowest priority, the first of its equals.
Worst(V) == First({x \in V : \A y \in V : Prio[x.key] <= Prio[y.key]})

Full(q) == Cardinality(q) >= QueueMax

\* Whether Enqueue takes the item (its result).
Accepts(q, it) == Full(q) => Victims(q, it) # {}

\* The queue after Enqueue took the item.
Enqueue(q, it) ==
  (IF Full(q) THEN q \ Worst(Victims(q, it)) ELSE q) \cup {it}

\* Cancel(k, FALSE): a neighbour relayed k first, or k was answered.
CancelRelay(q, k) == q \ First({x \in q : x.key = k /\ Relay(x)})

\* RemoveLowerHop: a copy of k with more hops left was heard.
RemoveLowerHop(q, k, threshold) ==
  q \ First({x \in q : x.key = k /\ Relay(x) /\ x.hop < threshold})

\* What DropOrigin takes out: everything one hosted node queued.
OfOrigin(q, n) == {x \in q : Origin[x.key] = n}

SendsBefore(a, b) ==
  \/ Prio[a.key] > Prio[b.key]
  \/ Prio[a.key] = Prio[b.key] /\ a.seq < b.seq

\* The items Next may hand out: their due time has come.
Due(q) == {x \in q : x.due}
=============================================================================
