------------------------------ MODULE History ------------------------------
(***************************************************************************)
(* The duplicate filter of one host, internal/mesh/history.go, as pure     *)
(* operators on its list: the packets known, the most recently used first. *)
(* (The Go map finds an entry of the list; it holds the same entries.)     *)
(* Every operation runs under h.mu, so each is one atomic step of its      *)
(* caller.  An entry's age is the time since firstSeen; beyond HistTTL it  *)
(* no longer matters how far.  Hop limits, relayers and our own share of   *)
(* a packet decide nothing about what is a duplicate and are left out.     *)
(***************************************************************************)
EXTENDS Integers, Sequences

CONSTANTS
  Keys,     \* packets, by (from, id)
  Cap,      \* entries kept (4096: NewHost)
  HistTTL   \* how long a packet is known (30 minutes: NewHost)

ASSUME HistoryAssumption == Cap \in Nat \ {0} /\ HistTTL \in Nat

Knows(h, k) == \E i \in DOMAIN h : h[i].key = k

\* The entry of k is there and not past its time.
Current(h, k) == \E i \in DOMAIN h : h[i].key = k /\ h[i].age <= HistTTL

\* entries[k].elem: the place of k in the list.
Place(h, k) == CHOOSE i \in DOMAIN h : h[i].key = k

\* remove.
Without(h, k) ==
  IF Knows(h, k) THEN SubSeq(h, 1, Place(h, k) - 1) \o SubSeq(h, Place(h, k) + 1, Len(h)) ELSE h

\* add: a new entry in front, and the last ones go while there are too many.
Add(h, k) ==
  LET grown == <<[key |-> k, age |-> 0]>> \o h
  IN  IF Len(grown) > Cap THEN SubSeq(grown, 1, Cap) ELSE grown

\* Mutant: a packet heard again keeps its place in the list.
ObserveInPlace(h, k) == IF Current(h, k) THEN h ELSE Add(Without(h, k), k)

\* Observe: a known packet moves to the front and keeps its firstSeen, an
\* unknown or expired one is new.
Observe(h, k) ==
  IF Current(h, k)
  THEN <<h[Place(h, k)]>> \o Without(h, k)
  ELSE Add(Without(h, k), k)

\* MarkTx: we transmit k.  Neither its place nor its firstSeen change.
MarkTx(h, k) == IF Knows(h, k) THEN h ELSE Add(h, k)

\* A unit of time passes.
Aged(h) ==
  [i \in DOMAIN h |-> [h[i] EXCEPT !.age = IF @ > HistTTL THEN @ ELSE @ + 1]]
=============================================================================
