---------------------------- MODULE HostingProofs ----------------------------
(***************************************************************************)
(* What module Hosting promises, for any radios, identities, ports and     *)
(* requests: every identity has its node, nodes share no port and no       *)
(* directory but in the cases named, and the files follow the tables.      *)
(***************************************************************************)
EXTENDS Hosting, FiniteSetTheorems, TLAPS

InstOf(a) == req[a].inst
InStart(a) == req[a].do \in {"start", "add", "register"}
SamePort(i, j) == i.radio = j.radio /\ i.slot = j.slot

\* What a request knows at each of its steps.
RequestOK ==
  \A a \in Requests :
    /\ req[a].do # "idle" => /\ req[a].key \in Keys /\ req[a].op # "none"
                             /\ req[a].from \in Radios /\ req[a].at \in Radios /\ req[a].next \in Radios
    /\ req[a].do \notin {"idle", "save"} => req[a].next = 1
    /\ req[a].do \in {"slot", "start", "add", "register"} => req[a].op \in {"create", "move"}
    /\ InStart(a) => /\ InstOf(a) \in Instances
                    /\ InstOf(a).key = req[a].key /\ InstOf(a).radio = req[a].at
    /\ req[a].do \in {"remove", "unhost", "stop", "wipe"} =>
         /\ req[a].op \in {"delete", "move"} /\ InstOf(a) \in Instances
         /\ InstOf(a).key = req[a].key /\ InstOf(a).radio = req[a].from
    /\ req[a].op = "move" /\ req[a].at = req[a].from => req[a].key \in putBack

\* A process that is down does nothing and remembers nothing.
DownIsIdle ==
  ~up => ids = {} /\ nodes = {} /\ procs = {} /\ \A a \in Requests : req[a] = Idle

BornBefore ==
  /\ \A i \in ids \cup nodes \cup procs : i.born <= births
  /\ \A a \in Requests : InstOf(a) # None => InstOf(a).born <= births

\* Until its identity is in the table a node belongs to the request that starts it.
StartIsOwned ==
  \A a \in Requests : req[a].do \in {"start", "add"} =>
    /\ InstOf(a) \notin ids \cup nodes
    /\ InstOf(a) \in procs <=> req[a].do = "add"
    /\ \A b \in Requests \ {a} : InstOf(b) # InstOf(a)

\* A node is stopped only when its identity is gone and its entry removed.
StopIsLast ==
  /\ \A a \in Requests : req[a].do \in {"unhost", "stop", "wipe"} => InstOf(a) \notin ids
  /\ \A a \in Requests : req[a].do \in {"stop", "wipe"} =>
       InstOf(a) \notin nodes /\ \A b \in Requests : InStart(b) => InstOf(b) # InstOf(a)
  /\ \A a \in Requests : req[a].do = "wipe" => InstOf(a) \notin procs
  /\ \A a \in Requests : req[a].do = "register" => InstOf(a) \in procs
  /\ nodes \subseteq procs

\* Every port in use is held: by a registered node, or by a start in progress.
PortsHeld ==
  /\ \A i, j \in nodes : SamePort(i, j) => i = j
  /\ \A a \in Requests : InStart(a) =>
       /\ InstOf(a).slot \in starting[InstOf(a).radio]
       /\ \A i \in nodes : ~SamePort(i, InstOf(a))
       /\ \A b \in Requests \ {a} : InStart(b) => ~SamePort(InstOf(a), InstOf(b))
  /\ \A i \in procs : i \in nodes \/ \E a \in Requests : req[a].do \in {"add", "register", "stop"} /\ InstOf(a) = i

\* Two nodes that run, or one that runs and one being removed, share a directory only if it
\* was in use when the later one was started.
DirsShared ==
  /\ \A i, j \in procs : Dir(i) = Dir(j) => i = j \/ Dir(i) \in reused
  /\ \A a \in Requests : req[a].do \in {"stop", "wipe"} =>
       \A i \in procs : Dir(i) = Dir(InstOf(a)) => i = InstOf(a) \/ Dir(i) \in reused

\* Request a will still write radio r's file, for what it did to identity k.
WillSave(a, k, r) ==
  /\ req[a].key = k
  /\ \/ req[a].do \in {"register", "unhost", "stop", "wipe"}
     \/ req[a].do \in {"slot", "start", "add"} /\ req[a].op = "move"
     \/ req[a].do = "save" /\ req[a].next <= r

FilesFollow ==
  up => \A r \in Radios, k \in Keys \ putBack :
          (k \in file[r] <=> k \in Records(r)) \/ \E a \in Requests : WillSave(a, k, r)

IInv == /\ TypeOK /\ RequestOK /\ DownIsIdle /\ BornBefore /\ StartIsOwned /\ StopIsLast
        /\ IdentityHasItsNode /\ PortsHeld /\ DirsShared /\ NodeHasItsDir /\ FilesFollow

-----------------------------------------------------------------------------
(* Lemmas about the steps of a request. *)

\* No step but its own changes what a request is at.
Mine(a, d) ==
  /\ \A b \in Requests \ {a} : req'[b] = req[b]
  /\ req'[a].do = d /\ req'[a].inst = req[a].inst /\ req'[a].key = req[a].key /\ req'[a].op = req[a].op
  /\ req'[a].from = req[a].from /\ req'[a].at = req[a].at /\ req'[a].next = req[a].next

LEMMA GotoProps ==
  ASSUME TypeOK, NEW a \in Requests, NEW d, Goto(a, d) PROVE Mine(a, d)
<1>1. req' = [req EXCEPT ![a].do = d]
  BY DEF Goto
<1>2. /\ \A b \in Requests \ {a} : req'[b] = req[b]
      /\ req'[a] = [req[a] EXCEPT !.do = d]
  BY <1>1 DEF TypeOK
<1> DEFINE q == req[a]
<1>3. q \in Progress
  BY DEF TypeOK
<1>4. req'[a] = [q EXCEPT !.do = d]
  BY <1>2
<1> HIDE DEF q
<1>5. /\ req'[a].do = d /\ req'[a].inst = q.inst /\ req'[a].key = q.key /\ req'[a].op = q.op
      /\ req'[a].from = q.from /\ req'[a].at = q.at /\ req'[a].next = q.next
  BY <1>3, <1>4 DEF Progress
<1> QED
  BY <1>2, <1>5 DEF Mine, q

\* A request whose node cannot be added ends, or turns back to where the identity was.
LEMMA AddFailedProps ==
  ASSUME TypeOK, NEW a \in Requests, AddFailed(a)
  PROVE  /\ \A b \in Requests \ {a} : req'[b] = req[b]
         /\ putBack \subseteq putBack'
         /\ \/ req'[a] = Idle /\ (req[a].op = "move" => req[a].at = req[a].from) /\ putBack' = putBack
            \/ /\ req[a].op = "move" /\ req'[a] = [req[a] EXCEPT !.at = req[a].from, !.do = "slot", !.inst = None]
               /\ req'[a].op = "move" /\ req'[a].do = "slot" /\ req'[a].inst = None
               /\ req'[a].key = req[a].key /\ req'[a].from = req[a].from /\ req'[a].at = req[a].from
               /\ req'[a].next = req[a].next /\ putBack' = putBack \cup {req[a].key}
<1> DEFINE q == req[a]
<1>1. q \in Progress
  BY DEF TypeOK
<1>2. CASE q.op = "move" /\ q.at # q.from
  <2>1. req' = [req EXCEPT ![a].at = req[a].from, ![a].do = "slot", ![a].inst = None]
        /\ putBack' = putBack \cup {q.key}
    BY <1>2 DEF AddFailed
  <2>2. /\ \A b \in Requests \ {a} : req'[b] = req[b]
        /\ req'[a] = [q EXCEPT !.at = q.from, !.do = "slot", !.inst = None]
    BY <2>1 DEF TypeOK
  <2> HIDE DEF q
  <2>3. /\ req'[a].op = q.op /\ req'[a].do = "slot" /\ req'[a].inst = None
        /\ req'[a].key = q.key /\ req'[a].from = q.from /\ req'[a].at = q.from /\ req'[a].next = q.next
    BY <1>1, <2>2 DEF Progress
  <2> QED
    BY <1>2, <2>1, <2>2, <2>3 DEF q
<1>3. CASE ~(q.op = "move" /\ q.at # q.from)
  <2>1. req' = [req EXCEPT ![a] = Idle] /\ putBack' = putBack
    BY <1>3 DEF AddFailed
  <2> QED
    BY <1>3, <2>1 DEF TypeOK
<1> QED
  BY <1>2, <1>3

LEMMA BeginProps ==
  ASSUME TypeOK, NEW a \in Requests, NEW op, NEW k, NEW r, NEW q, NEW d, NEW i,
         Begin(a, op, k, r, q, d, i)
  PROVE  /\ up /\ req[a] = Idle
         /\ \A b \in Requests \ {a} : req'[b] = req[b]
         /\ req'[a] = [op |-> op, key |-> k, from |-> r, at |-> q, do |-> d, inst |-> i, next |-> 1]
         /\ UNCHANGED <<up, ids, kept, file, nodes, starting, procs, dirs, births, fails, starts, reused, putBack>>
  BY DEF Begin, TypeOK, hostingVars, boundVars

NewInst(a, s) == [key |-> req[a].key, radio |-> req[a].at, slot |-> s, born |-> births + 1]

\* The ways a request goes on, field by field.
AddFailsTo(a) ==
  /\ \A b \in Requests \ {a} : req'[b] = req[b]
  /\ putBack \subseteq putBack'
  /\ \/ /\ req'[a] = Idle /\ (req[a].op = "move" => req[a].at = req[a].from) /\ putBack' = putBack
        /\ req'[a].do = "idle" /\ req'[a].inst = None /\ req'[a].op = "none"
     \/ /\ req[a].op = "move" /\ putBack' = putBack \cup {req[a].key}
        /\ req'[a].op = "move" /\ req'[a].do = "slot" /\ req'[a].inst = None
        /\ req'[a].key = req[a].key /\ req'[a].from = req[a].from /\ req'[a].at = req[a].from
        /\ req'[a].next = req[a].next

Ended(a) ==
  /\ \A b \in Requests \ {a} : req'[b] = req[b]
  /\ req'[a] = Idle /\ req'[a].do = "idle" /\ req'[a].inst = None /\ req'[a].op = "none"

SavesOn(a) ==
  /\ \A b \in Requests \ {a} : req'[b] = req[b]
  /\ req[a].next # NRadios /\ req'[a].next = req[a].next + 1
  /\ req'[a].do = "save" /\ req'[a].inst = req[a].inst /\ req'[a].key = req[a].key /\ req'[a].op = req[a].op
  /\ req'[a].from = req[a].from /\ req'[a].at = req[a].at

Reserved(a, s) ==
  LET i == NewInst(a, s) IN
  /\ i \in Instances /\ i.key = req[a].key /\ i.radio = req[a].at /\ i.slot = s /\ i.born = births + 1
  /\ s \notin starting[req[a].at] /\ \A n \in nodes : ~SamePort(n, i)
  /\ births' = births + 1 /\ births' <= MaxBirths /\ putBack' = putBack
  /\ starting' = [starting EXCEPT ![req[a].at] = starting[req[a].at] \cup {s}]
  /\ \A b \in Requests \ {a} : req'[b] = req[b]
  /\ req'[a].do = "start" /\ req'[a].inst = i /\ req'[a].op = req[a].op /\ req'[a].key = req[a].key
  /\ req'[a].at = req[a].at /\ req'[a].from = req[a].from /\ req'[a].next = req[a].next

LEMMA AddFailsProps ==
  ASSUME TypeOK, NEW a \in Requests, AddFailed(a) PROVE AddFailsTo(a)
<1>1. Idle.do = "idle" /\ Idle.inst = None /\ Idle.op = "none"
  BY DEF Idle
<1> QED
  BY <1>1, AddFailedProps DEF AddFailsTo

LEMMA EndedProps ==
  ASSUME TypeOK, NEW a \in Requests, req' = [req EXCEPT ![a] = Idle] PROVE Ended(a)
  BY DEF TypeOK, Ended, Idle

LEMMA SavesOnProps ==
  ASSUME TypeOK, NEW a \in Requests, Save(a), req[a].next # NRadios PROVE SavesOn(a)
<1> DEFINE q == req[a]
<1>1. q \in Progress /\ q.do = "save"
  BY DEF TypeOK, Save
<1>2. req' = [req EXCEPT ![a].next = req[a].next + 1]
  BY DEF Save
<1>3. /\ \A b \in Requests \ {a} : req'[b] = req[b]
      /\ req'[a] = [q EXCEPT !.next = q.next + 1]
  BY <1>2 DEF TypeOK
<1> HIDE DEF q
<1>4. /\ req'[a].next = q.next + 1 /\ req'[a].do = "save" /\ req'[a].inst = q.inst /\ req'[a].key = q.key
      /\ req'[a].op = q.op /\ req'[a].from = q.from /\ req'[a].at = q.at
  BY <1>1, <1>3 DEF Progress
<1> QED
  BY <1>3, <1>4 DEF SavesOn, q

LEMMA ReservedProps ==
  ASSUME TypeOK, RequestOK, NEW a \in Requests, ReserveSlot(a), births' # births
  PROVE  \E s \in Slots : Reserved(a, s) /\ req'[a] = [req[a] EXCEPT !.do = "start", !.inst = NewInst(a, s)]
<1> DEFINE q == req[a]
           inst(s) == [key |-> q.key, radio |-> q.at, slot |-> s, born |-> births + 1]
<1>1. q \in Progress /\ q.do = "slot"
  BY DEF ReserveSlot, TypeOK
<1>2. q.key \in Keys /\ q.at \in Radios
  BY <1>1 DEF RequestOK
<1>3. PICK s \in FreeSlots(q.at) :
        /\ births < MaxBirths /\ births' = births + 1 /\ putBack' = putBack
        /\ starting' = [starting EXCEPT ![q.at] = starting[q.at] \cup {s}]
        /\ req' = [req EXCEPT ![a].do = "start", ![a].inst = inst(s)]
  BY DEF ReserveSlot
<1>4. s \in Slots /\ s \notin starting[q.at] /\ \A n \in nodes : n.radio = q.at => n.slot # s
  BY <1>3 DEF FreeSlots, On
<1>5. births \in 0..MaxBirths /\ MaxBirths \in Nat
  BY HostingAssumption DEF TypeOK
<1>6. inst(s) \in Instances
  BY <1>2, <1>3, <1>4, <1>5 DEF Instances
<1>7. inst(s).radio = q.at /\ inst(s).slot = s
  OBVIOUS
<1>8. /\ \A b \in Requests \ {a} : req'[b] = req[b]
      /\ req'[a] = [q EXCEPT !.do = "start", !.inst = inst(s)]
  BY <1>3 DEF TypeOK
<1> DEFINE i == inst(s)
<1> HIDE DEF i
<1>9. req'[a] = [q EXCEPT !.do = "start", !.inst = i] /\ i.radio = q.at /\ i.slot = s /\ i \in Instances
  BY <1>6, <1>7, <1>8 DEF i
<1> HIDE DEF q, inst
<1>10. /\ req'[a].do = "start" /\ req'[a].inst = i /\ req'[a].op = q.op /\ req'[a].key = q.key
       /\ req'[a].at = q.at /\ req'[a].from = q.from /\ req'[a].next = q.next
  BY <1>1, <1>9 DEF Progress
<1>11. births' <= MaxBirths
  BY <1>3, <1>5
<1>12. /\ i \in Instances /\ s \notin starting[q.at]
       /\ \A n \in nodes : ~SamePort(n, i)
       /\ starting' = [starting EXCEPT ![q.at] = starting[q.at] \cup {s}]
  BY <1>3, <1>4, <1>9 DEF SamePort
<1> QED
  <2>1. NewInst(a, s) = i
    BY DEF NewInst, i, inst, q
  <2>2. NewInst(a, s).key = req[a].key /\ NewInst(a, s).radio = req[a].at
        /\ NewInst(a, s).slot = s /\ NewInst(a, s).born = births + 1
    BY DEF NewInst
  <2>3. s \in Slots
    BY <1>4
  <2> HIDE DEF i
  <2> WITNESS s \in Slots
  <2> QED
    BY <1>3, <1>4, <1>8, <1>9, <1>10, <1>11, <1>12, <2>1, <2>2 DEF q, Reserved

LEMMA ReserveFails ==
  ASSUME TypeOK, NEW a \in Requests, ReserveSlot(a), births' = births
  PROVE  AddFailed(a) /\ UNCHANGED starting
  BY DEF ReserveSlot, TypeOK

\* Restored identities: each with its node, its port and its directory, and new births.
Fresh(S) ==
  /\ S \subseteq Instances /\ \A i \in S : i.born <= births'
  /\ \A i, j \in S : i.radio = j.radio /\ (i.key = j.key \/ i.slot = j.slot) => i = j

LEMMA StartProps ==
  ASSUME TypeOK, NEW bad \in SUBSET UNION {file[r] : r \in Radios}, Start(bad)
  PROVE  /\ births' \in 0..MaxBirths /\ Fresh(ids') /\ nodes' = ids' /\ procs' = ids'
         /\ \A r \in Radios : KeysOf(On(ids', r)) = file[r] \ bad
<1> DEFINE good(r) == file[r] \ bad
           below(r) == UNION {{<<q, k>> : k \in good(q)} : q \in 1..(r - 1)}
           base(r) == births + Cardinality(below(r))
<1>1. PICK f \in [Radios -> UNION {Restored(r, good(r), base(r)) : r \in Radios}] :
        /\ \A r \in Radios : f[r] \in Restored(r, good(r), base(r))
        /\ ids' = UNION {{f[r][k] : k \in good(r)} : r \in Radios}
  BY DEF Start
<1>2. births' = base(NRadios + 1) /\ births' <= MaxBirths /\ nodes' = ids' /\ procs' = ids'
  BY DEF Start
<1>3. NRadios \in Nat \ {0} /\ births \in Nat /\ \A q \in Radios : good(q) \subseteq Keys
  BY HostingAssumption DEF TypeOK
<1>4. IsFiniteSet(Radios \X Keys)
  <2>1. IsFiniteSet(1..NRadios)
    BY <1>3, FS_Interval
  <2> QED
    BY <2>1, FS_Product, HostingAssumption DEF Radios
<1>5. \A r \in 1..(NRadios + 1) : below(r) \subseteq Radios \X Keys
  BY <1>3 DEF Radios
<1>6. \A r \in 1..(NRadios + 1) : IsFiniteSet(below(r)) /\ Cardinality(below(r)) \in Nat
  BY <1>4, <1>5, FS_Subset, FS_CardinalityType
<1>7. \A r \in Radios : base(r) + Cardinality(good(r)) <= births'
  <2> SUFFICES ASSUME NEW r \in Radios PROVE base(r) + Cardinality(good(r)) <= births'
    OBVIOUS
  <2> DEFINE mine == {<<r, k>> : k \in good(r)}
             pair == [k \in good(r) |-> <<r, k>>]
  <2>1. IsFiniteSet(good(r))
    BY <1>3, FS_Subset, HostingAssumption
  <2>2. pair \in Bijection(good(r), mine)
    BY DEF Bijection, Injection, Surjection, IsInjective
  <2>3. IsFiniteSet(mine) /\ Cardinality(mine) = Cardinality(good(r)) /\ Cardinality(mine) \in Nat
    <3>1. ExistsBijection(good(r), mine)
      BY <2>2 DEF ExistsBijection
    <3> HIDE DEF mine, good, pair
    <3> QED
      BY <2>1, <3>1, FS_Bijection, FS_CardinalityType
  <2>4. r \in 1..(NRadios + 1) /\ NRadios + 1 \in 1..(NRadios + 1)
    BY <1>3 DEF Radios
  <2>5. below(r) \cap mine = {}
    BY <1>3 DEF Radios
  <2>6. below(r) \cup mine \subseteq below(NRadios + 1)
    BY <1>3 DEF Radios
  <2>7. IsFiniteSet(below(r)) /\ IsFiniteSet(below(NRadios + 1))
        /\ Cardinality(below(r)) \in Nat /\ Cardinality(below(NRadios + 1)) \in Nat
    BY <1>6, <2>4
  <2> DEFINE B == below(r)
             T == below(NRadios + 1)
  <2>8. IsFiniteSet(B) /\ IsFiniteSet(T) /\ B \cap mine = {} /\ B \cup mine \subseteq T
        /\ Cardinality(B) \in Nat /\ Cardinality(T) \in Nat
    BY <2>5, <2>6, <2>7
  <2>9. births' = births + Cardinality(T) /\ base(r) = births + Cardinality(B)
    BY <1>2
  <2> HIDE DEF B, T, mine, pair, below, base, good
  <2>10. Cardinality(B \cup mine) <= Cardinality(T)
    BY <2>8, FS_Subset
  <2>11. Cardinality(B \cup mine) = Cardinality(B) + Cardinality(mine)
    <3>1. Cardinality(B \cup mine) = Cardinality(B) + Cardinality(mine) - Cardinality(B \cap mine)
      BY <2>3, <2>8, FS_Union
    <3>2. Cardinality(B \cap mine) = 0
      BY <2>8, FS_EmptySet
    <3> QED
      BY <2>3, <2>8, <3>1, <3>2
  <2> QED
    BY <1>3, <2>3, <2>8, <2>9, <2>10, <2>11
<1>8. \A r \in Radios : /\ base(r) \in Nat /\ Cardinality(good(r)) \in Nat
  <2> SUFFICES ASSUME NEW r \in Radios PROVE base(r) \in Nat /\ Cardinality(good(r)) \in Nat
    OBVIOUS
  <2>1. r \in 1..(NRadios + 1)
    BY <1>3 DEF Radios
  <2>2. IsFiniteSet(good(r))
    BY <1>3, FS_Subset, HostingAssumption
  <2> QED
    BY <1>3, <1>6, <2>1, <2>2, FS_CardinalityType
<1> HIDE DEF base, below, good
<1>9. \A r \in Radios : /\ \A k \in good(r) :
                              /\ f[r][k] \in Instances /\ f[r][k].key = k /\ f[r][k].radio = r
                              /\ f[r][k].born <= births'
                        /\ \A k, m \in good(r) : k # m => f[r][k].slot # f[r][m].slot
  <2> SUFFICES ASSUME NEW r \in Radios
               PROVE  /\ \A k \in good(r) :
                              /\ f[r][k] \in Instances /\ f[r][k].key = k /\ f[r][k].radio = r
                              /\ f[r][k].born <= births'
                      /\ \A k, m \in good(r) : k # m => f[r][k].slot # f[r][m].slot
    OBVIOUS
  <2>1. /\ f[r] \in [good(r) -> Instances]
        /\ \A k \in good(r) : f[r][k].key = k /\ f[r][k].radio = r /\ f[r][k].slot <= Cardinality(good(r))
                              /\ f[r][k].born = base(r) + f[r][k].slot
        /\ \A k, m \in good(r) : k # m => f[r][k].slot # f[r][m].slot
    BY <1>1 DEF Restored
  <2>2. base(r) \in Nat /\ Cardinality(good(r)) \in Nat /\ base(r) + Cardinality(good(r)) <= births' /\ births' \in Int
    BY <1>2, <1>3, <1>6, <1>7, <1>8 DEF base
  <2> SUFFICES ASSUME NEW k \in good(r) PROVE f[r][k] \in Instances /\ f[r][k].born <= births'
    BY <2>1
  <2>3. f[r][k] \in Instances /\ f[r][k].slot \in Nat
    BY <2>1, HostingAssumption DEF Instances, Slots
  <2> QED
    BY <2>1, <2>2, <2>3
<1>10. births' \in 0..MaxBirths
  <2>1. births' \in Nat
    BY <1>2, <1>3, <1>6 DEF base
  <2> QED
    BY <1>2, <2>1, HostingAssumption
<1>11. Fresh(ids')
  BY <1>1, <1>9 DEF Fresh
<1>12. \A r \in Radios : KeysOf(On(ids', r)) = good(r)
  BY <1>1, <1>9 DEF KeysOf, On
<1> QED
  BY <1>2, <1>10, <1>11, <1>12 DEF good

\* What each step of a request does, where it matters to the others.
Begun(a, op, k, r, q, d, i) ==
  /\ up /\ req[a] = Idle /\ \A b \in Requests \ {a} : req'[b] = req[b]
  /\ req'[a] = [op |-> op, key |-> k, from |-> r, at |-> q, do |-> d, inst |-> i, next |-> 1]
  /\ UNCHANGED <<up, ids, kept, file, nodes, starting, procs, dirs, births, fails, starts, reused, putBack>>

NoSlot(a) == /\ req[a].do = "slot" /\ AddFailsTo(a)
             /\ UNCHANGED <<up, ids, kept, file, nodes, starting, procs, dirs, births, reused>>
GotSlot(a) == /\ req[a].do = "slot" /\ \E s \in Slots : Reserved(a, s)
              /\ UNCHANGED <<up, ids, kept, file, nodes, procs, dirs, reused>>
NotStarted(a) == /\ req[a].do = "start" /\ AddFailsTo(a) /\ LetGo(a)
                 /\ UNCHANGED <<up, ids, kept, file, nodes, procs, dirs, births, reused>>
NotAdded(a) == /\ req[a].do = "add" /\ AddFailsTo(a) /\ LetGo(a) /\ procs' = procs \ {req[a].inst}
               /\ UNCHANGED <<up, ids, kept, file, nodes, dirs, births, reused>>
Added(a) == /\ req[a].do = "add" /\ Mine(a, "register") /\ ids' = ids \cup {req[a].inst}
            /\ UNCHANGED <<up, kept, file, nodes, starting, procs, dirs, births, reused, putBack>>
BackAgain(a) == /\ req[a].do = "register" /\ req[a].op = "move" /\ req[a].at = req[a].from
                /\ Ended(a) /\ nodes' = nodes \cup {req[a].inst} /\ LetGo(a)
                /\ UNCHANGED <<up, ids, kept, file, procs, dirs, births, reused, putBack>>
Registered(a) == /\ req[a].do = "register" /\ ~(req[a].op = "move" /\ req[a].at = req[a].from)
                 /\ Mine(a, "save") /\ nodes' = nodes \cup {req[a].inst} /\ LetGo(a)
                 /\ UNCHANGED <<up, ids, kept, file, procs, dirs, births, reused, putBack>>
NoneRemoved(a) == /\ req[a].do = "remove" /\ Ended(a)
                  /\ UNCHANGED <<up, ids, kept, file, nodes, starting, procs, dirs, births, reused, putBack>>
Removed(a) == /\ req[a].do = "remove" /\ Mine(a, "unhost")
              /\ ids' = ids \ {i \in ids : i.key = req[a].key /\ i.radio = req[a].from}
              /\ UNCHANGED <<up, kept, file, nodes, starting, procs, dirs, births, reused, putBack>>
SavedLast(a) == /\ req[a].do = "save" /\ req[a].next = NRadios /\ Ended(a)
                /\ file' = [file EXCEPT ![req[a].next] = Records(req[a].next)]
                /\ UNCHANGED <<up, ids, kept, nodes, starting, procs, dirs, births, reused, putBack>>
SavedOne(a) == /\ req[a].do = "save" /\ SavesOn(a)
               /\ file' = [file EXCEPT ![req[a].next] = Records(req[a].next)]
               /\ UNCHANGED <<up, ids, kept, nodes, starting, procs, dirs, births, reused, putBack>>

LEMMA Effects ==
  ASSUME TypeOK, RequestOK, NEW a \in Requests
  PROVE  /\ ReserveSlot(a) => NoSlot(a) \/ GotSlot(a)
         /\ StartFails(a) => NotStarted(a)
         /\ AddIdentity(a) => NotAdded(a) \/ Added(a)
         /\ Register(a) => BackAgain(a) \/ Registered(a)
         /\ RemoveIdentity(a) => NoneRemoved(a) \/ Removed(a)
         /\ Save(a) => SavedLast(a) \/ SavedOne(a)
<1> USE DEF hostingVars, boundVars
<1>1. ReserveSlot(a) => NoSlot(a) \/ GotSlot(a)
  <2>1. CASE births' = births
    BY <2>1, ReserveFails, AddFailsProps DEF ReserveSlot, NoSlot
  <2>2. CASE births' # births
    BY <2>2, ReservedProps DEF ReserveSlot, GotSlot
  <2> QED
    BY <2>1, <2>2
<1>2. StartFails(a) => NotStarted(a)
  BY AddFailsProps DEF StartFails, NotStarted
<1>3. AddIdentity(a) => NotAdded(a) \/ Added(a)
  BY AddFailsProps, GotoProps DEF AddIdentity, NotAdded, Added
<1>4. Register(a) => BackAgain(a) \/ Registered(a)
  BY EndedProps, GotoProps DEF Register, BackAgain, Registered
<1>5. RemoveIdentity(a) => NoneRemoved(a) \/ Removed(a)
  BY EndedProps, GotoProps DEF RemoveIdentity, NoneRemoved, Removed
<1>6. Save(a) => SavedLast(a) \/ SavedOne(a)
  BY EndedProps, SavesOnProps DEF Save, SavedLast, SavedOne
<1> QED
  BY <1>1, <1>2, <1>3, <1>4, <1>5, <1>6

Places == {"idle", "slot", "start", "add", "register", "remove", "unhost", "stop", "wipe", "save"}

\* Where a request goes on, its record stays one.
LEMMA RequestTypes ==
  ASSUME TypeOK, NEW a \in Requests
  PROVE  /\ \A d \in Places : Goto(a, d) => req' \in [Requests -> Progress]
         /\ req' = [req EXCEPT ![a] = Idle] => req' \in [Requests -> Progress]
         /\ AddFailed(a) => req' \in [Requests -> Progress]
         /\ ReserveSlot(a) /\ RequestOK => req' \in [Requests -> Progress]
<1> DEFINE q == req[a]
<1>1. q \in Progress /\ Idle \in Progress
  BY HostingAssumption DEF TypeOK, Progress, Idle
<1>2. \A x \in Progress : [req EXCEPT ![a] = x] \in [Requests -> Progress]
  BY DEF TypeOK
<1>3. ASSUME NEW d \in Places, Goto(a, d) PROVE req' \in [Requests -> Progress]
  <2>1. req' = [req EXCEPT ![a] = [q EXCEPT !.do = d]]
    BY <1>3 DEF Goto
  <2> HIDE DEF q
  <2>2. [q EXCEPT !.do = d] \in Progress
    BY <1>1 DEF Progress, Places
  <2> QED
    BY <1>2, <2>1, <2>2
<1>4. ASSUME AddFailed(a) PROVE req' \in [Requests -> Progress]
  <2>1. req' = [req EXCEPT ![a] = Idle] \/ req' = [req EXCEPT ![a] = [q EXCEPT !.at = q.from, !.do = "slot", !.inst = None]]
    BY <1>4 DEF AddFailed
  <2> HIDE DEF q
  <2>2. [q EXCEPT !.at = q.from, !.do = "slot", !.inst = None] \in Progress
    BY <1>1 DEF Progress
  <2> QED
    BY <1>1, <1>2, <2>1, <2>2
<1>5. ASSUME ReserveSlot(a), RequestOK PROVE req' \in [Requests -> Progress]
  <2>1. CASE births' = births
    BY <1>4, <1>5, <2>1, ReserveFails
  <2>2. CASE births' # births
    <3>1. PICK i \in Instances : req'[a] = [q EXCEPT !.do = "start", !.inst = i]
      <4>1. PICK s \in Slots : Reserved(a, s) /\ req'[a] = [q EXCEPT !.do = "start", !.inst = NewInst(a, s)]
        BY <1>5, <2>2, ReservedProps
      <4>2. NewInst(a, s) \in Instances
        BY <4>1 DEF Reserved
      <4> QED
        BY <4>1, <4>2
    <3> HIDE DEF q
    <3>2. req'[a] \in Progress
      BY <1>1, <3>1 DEF Progress
    <3>3. \E x : req' = [req EXCEPT ![a] = x]
      BY <1>5, <2>2 DEF ReserveSlot, TypeOK
    <3>4. req' = [req EXCEPT ![a] = req'[a]]
      BY <3>3 DEF TypeOK
    <3> QED
      BY <1>2, <3>2, <3>4
  <2> QED
    BY <2>1, <2>2
<1> QED
  BY <1>1, <1>2, <1>3, <1>4, <1>5

LEMMA BeginType ==
  ASSUME TypeOK, NEW a \in Requests, NEW op \in {"create", "delete", "move"}, NEW k \in Keys,
         NEW r \in Radios, NEW q \in Radios, NEW d \in Places, NEW i \in Instances \cup {None},
         Begin(a, op, k, r, q, d, i)
  PROVE  TypeOK'
<1>1. [op |-> op, key |-> k, from |-> r, at |-> q, do |-> d, inst |-> i, next |-> 1] \in Progress
  BY HostingAssumption DEF Progress, Radios, Places
<1>2. req' \in [Requests -> Progress]
  BY <1>1 DEF Begin, TypeOK
<1> QED
  BY <1>2 DEF Begin, TypeOK, hostingVars, boundVars

LEMMA HostingTypeStep == TypeOK /\ RequestOK /\ [Next]_vars => TypeOK'
<1> SUFFICES ASSUME TypeOK, RequestOK, [Next]_vars PROVE TypeOK'
  OBVIOUS
<1> USE DEF TypeOK, hostingVars, boundVars
<1>1. ASSUME NEW a \in Requests, NEW k \in Keys, NEW r \in Radios, CreateIdentity(a, k, r) PROVE TypeOK'
  <2>1. Begin(a, "create", k, r, r, "slot", None)
    BY <1>1 DEF CreateIdentity
  <2> QED
    BY <2>1, BeginType DEF Places
<1>2. ASSUME NEW a \in Requests, NEW i \in ids, DeleteIdentity(a, i) PROVE TypeOK'
  <2>1. Begin(a, "delete", i.key, i.radio, i.radio, "remove", i) /\ i \in Instances
    BY <1>2 DEF DeleteIdentity, TypeOK
  <2>2. i.key \in Keys /\ i.radio \in Radios
    BY <2>1 DEF Instances
  <2> QED
    BY <2>1, <2>2, BeginType DEF Places
<1>3. ASSUME NEW a \in Requests, NEW i \in ids, NEW q \in Radios, MoveIdentity(a, i, q) PROVE TypeOK'
  <2>1. Begin(a, "move", i.key, i.radio, q, "remove", i) /\ i \in Instances
    BY <1>3 DEF MoveIdentity, TypeOK
  <2>2. i.key \in Keys /\ i.radio \in Radios
    BY <2>1 DEF Instances
  <2> QED
    BY <2>1, <2>2, BeginType DEF Places
<1>4. ASSUME NEW a \in Requests, ReserveSlot(a) PROVE TypeOK'
  <2>1. req' \in [Requests -> Progress]
    BY <1>4, RequestTypes
  <2>2. starting' \in [Radios -> SUBSET Slots] /\ births' \in 0..MaxBirths /\ putBack' \subseteq Keys
    <3>1. CASE births' = births
      <4>1. AddFailed(a) /\ starting' = starting
        BY <1>4, <3>1, ReserveFails
      <4>2. req[a].key \in Keys
        BY <1>4 DEF RequestOK, ReserveSlot
      <4> QED
        BY <3>1, <4>1, <4>2 DEF AddFailed
    <3>2. CASE births' # births
      <4>1. PICK s \in Slots : /\ births' = births + 1 /\ births' <= MaxBirths /\ putBack' = putBack
                               /\ starting' = [starting EXCEPT ![req[a].at] = starting[req[a].at] \cup {s}]
        <5> HIDE DEF TypeOK
        <5> QED
          BY <1>4, <3>2, ReservedProps DEF Reserved
      <4>2. births' \in 0..MaxBirths
        BY <4>1, HostingAssumption
      <4>3. starting' \in [Radios -> SUBSET Slots]
        BY <4>1
      <4> QED
        BY <4>1, <4>2, <4>3
    <3> QED
      BY <3>1, <3>2
  <2> QED
    BY <1>4, <2>1, <2>2 DEF ReserveSlot
<1>5. ASSUME NEW a \in Requests, StartHosted(a) PROVE TypeOK'
  <2>0. req[a].inst \in Instances /\ req[a].inst.radio \in Radios /\ req[a].key \in Keys
        /\ Dir(req[a].inst) \in Radios \X Keys
    BY <1>5 DEF RequestOK, InStart, InstOf, Instances, Dir, StartHosted
  <2>1. req' \in [Requests -> Progress]
    BY <1>5, RequestTypes DEF StartHosted, Places
  <2>2. dirs' \subseteq Radios \X Keys /\ reused' \subseteq Radios \X Keys /\ procs' \subseteq Instances
    BY <1>5, <2>0 DEF StartHosted
  <2>3. UNCHANGED <<up, ids, kept, file, nodes, starting, births, fails, starts, putBack>>
    BY <1>5 DEF StartHosted
  <2> QED
    BY <2>1, <2>2, <2>3
<1>6. ASSUME NEW a \in Requests, StartFails(a) PROVE TypeOK'
  <2>0. req[a].inst \in Instances /\ req[a].inst.radio \in Radios /\ req[a].key \in Keys
        /\ Dir(req[a].inst) \in Radios \X Keys
    BY <1>6 DEF RequestOK, InStart, InstOf, Instances, Dir, StartFails
  <2>1. req' \in [Requests -> Progress]
    BY <1>6, RequestTypes DEF StartFails
  <2>2. starting' \in [Radios -> SUBSET Slots]
    BY <1>6, <2>0 DEF LetGo, StartFails
  <2>3. putBack' \subseteq Keys
    BY <1>6, <2>0 DEF StartFails, AddFailed
  <2> QED
    BY <1>6, <2>1, <2>2, <2>3, HostingAssumption DEF StartFails
<1>7. ASSUME NEW a \in Requests, AddIdentity(a) PROVE TypeOK'
  <2>0. req[a].inst \in Instances /\ req[a].inst.radio \in Radios /\ req[a].key \in Keys
        /\ Dir(req[a].inst) \in Radios \X Keys
    BY <1>7 DEF RequestOK, InStart, InstOf, Instances, Dir, AddIdentity
  <2>1. CASE req[a].key \in KeysOf(On(ids, req[a].at))
    <3>1. AddFailed(a) /\ LetGo(a) /\ ids' = ids /\ procs' \subseteq procs
      BY <1>7, <2>1 DEF AddIdentity
    <3>2. req' \in [Requests -> Progress]
      BY <3>1, RequestTypes
    <3>3. starting' \in [Radios -> SUBSET Slots] /\ putBack' \subseteq Keys
      BY <2>0, <3>1 DEF LetGo, AddFailed
    <3> QED
      BY <1>7, <3>1, <3>2, <3>3 DEF AddIdentity
  <2>2. CASE req[a].key \notin KeysOf(On(ids, req[a].at))
    <3>1. Goto(a, "register") /\ ids' = ids \cup {req[a].inst} /\ UNCHANGED <<procs, starting, putBack>>
      BY <1>7, <2>2 DEF AddIdentity
    <3>2. req' \in [Requests -> Progress]
      BY <3>1, RequestTypes DEF Places
    <3>3. req[a].inst.key = req[a].key /\ req[a].inst.radio = req[a].at
      BY <1>7 DEF RequestOK, InStart, InstOf, AddIdentity
    <3>4. \A i \in ids : i.radio = req[a].at => i.key # req[a].key
      BY <2>2 DEF KeysOf, On
    <3>5. \A i, j \in ids' : i.radio = j.radio /\ i.key = j.key => i = j
      BY <3>1, <3>3, <3>4
    <3> QED
      BY <1>7, <2>0, <3>1, <3>2, <3>5 DEF AddIdentity
  <2> QED
    BY <2>1, <2>2
<1>8. ASSUME NEW a \in Requests, Register(a) PROVE TypeOK'
  <2>0. req[a].inst \in Instances /\ req[a].inst.radio \in Radios /\ req[a].key \in Keys
        /\ Dir(req[a].inst) \in Radios \X Keys
    BY <1>8 DEF RequestOK, InStart, InstOf, Instances, Dir, Register
  <2>1. req' \in [Requests -> Progress]
    BY <1>8, RequestTypes DEF Register, Places
  <2>2. starting' \in [Radios -> SUBSET Slots]
    BY <1>8, <2>0 DEF LetGo, Register
  <2> QED
    BY <1>8, <2>0, <2>1, <2>2 DEF Register
<1>9. ASSUME NEW a \in Requests, RemoveIdentity(a) PROVE TypeOK'
  <2>1. req' \in [Requests -> Progress]
    BY <1>9, RequestTypes DEF RemoveIdentity, Places
  <2> QED
    BY <1>9, <2>1 DEF RemoveIdentity
<1>10. ASSUME NEW a \in Requests, Unhost(a) PROVE TypeOK'
  <2>1. req' \in [Requests -> Progress]
    BY <1>10, RequestTypes DEF Unhost, Places, AfterDrop
  <2> QED
    BY <1>10, <2>1 DEF Unhost
<1>11. ASSUME NEW a \in Requests, StopNode(a) PROVE TypeOK'
  <2>1. req' \in [Requests -> Progress]
    BY <1>11, RequestTypes DEF StopNode, Places
  <2> QED
    BY <1>11, <2>1 DEF StopNode
<1>12. ASSUME NEW a \in Requests, Wipe(a) PROVE TypeOK'
  <2>1. req' \in [Requests -> Progress]
    BY <1>12, RequestTypes DEF Wipe, Places, AfterDrop
  <2> QED
    BY <1>12, <2>1 DEF Wipe
<1>13. ASSUME NEW a \in Requests, Save(a) PROVE TypeOK'
  <2>1. req' \in [Requests -> Progress]
    <3> DEFINE q == req[a]
    <3>1. q \in Progress /\ q.next \in Radios
      BY <1>13 DEF RequestOK, Save, TypeOK
    <3>2. req' = [req EXCEPT ![a] = Idle] \/ (q.next # NRadios /\ req' = [req EXCEPT ![a] = [q EXCEPT !.next = q.next + 1]])
      <4>1. CASE q.next = NRadios
        BY <1>13, <4>1 DEF Save
      <4>2. CASE q.next # NRadios
        <5>1. req' = [req EXCEPT ![a].next = req[a].next + 1]
          BY <1>13, <4>2 DEF Save
        <5> QED
          BY <4>2, <5>1
      <4> QED
        BY <4>1, <4>2
    <3> HIDE DEF q
    <3>3. q.next # NRadios => [q EXCEPT !.next = q.next + 1] \in Progress
      <4>1. q.next # NRadios => q.next + 1 \in 0..NRadios
        BY <3>1, HostingAssumption DEF Radios
      <4> QED
        BY <3>1, <4>1 DEF Progress
    <3> QED
      BY <3>2, <3>3, RequestTypes
  <2>2. Records(req[a].next) \subseteq Keys
    BY <1>13 DEF Save, RequestOK, Records, KeysOf, On, Instances
  <2> QED
    BY <1>13, <2>1, <2>2 DEF Save
<1>14. ASSUME NEW i \in procs, NodeConfigured(i) PROVE TypeOK'
  <2>1. Records(i.radio) \subseteq Keys
    BY DEF Records, KeysOf, On, Instances
  <2> QED
    BY <1>14, <2>1 DEF NodeConfigured
<1>15. CASE Crash
  <2>1. [a \in Requests |-> Idle] \in [Requests -> Progress]
    BY HostingAssumption DEF Progress, Idle
  <2>2. \A r \in Radios : Records(r) \subseteq Keys
    BY DEF Records, KeysOf, On, Instances
  <2> QED
    BY <1>15, <2>1, <2>2 DEF Crash, Down
<1>16. CASE Exit
  <2>1. [a \in Requests |-> Idle] \in [Requests -> Progress]
    BY HostingAssumption DEF Progress, Idle
  <2>2. \A r \in Radios : Records(r) \subseteq Keys
    BY DEF Records, KeysOf, On, Instances
  <2> QED
    BY <1>16, <2>1, <2>2 DEF Exit, Down
<1>17. ASSUME NEW bad \in SUBSET UNION {file[r] : r \in Radios}, Start(bad) PROVE TypeOK'
  <2>1. births' \in 0..MaxBirths /\ Fresh(ids') /\ nodes' = ids' /\ procs' = ids'
    BY <1>17, StartProps
  <2>2. ids' \subseteq Instances /\ \A i, j \in ids' : i.radio = j.radio /\ i.key = j.key => i = j
    BY <2>1 DEF Fresh
  <2>3. dirs' \subseteq Radios \X Keys
    BY <1>17, <2>2 DEF Start, Dir, Instances
  <2>4. kept' \in [Radios -> SUBSET Keys] /\ starts' \in 0..MaxStarts /\ fails' \in 0..MaxFails
    <3>1. IsFiniteSet(Keys) /\ bad \subseteq Keys
      BY HostingAssumption
    <3>2. Cardinality(bad) \in Nat
      BY <3>1, FS_Subset, FS_CardinalityType
    <3>3. fails' = fails + Cardinality(bad) /\ fails' <= MaxFails /\ starts' = starts + 1 /\ starts < MaxStarts
          /\ kept' = [r \in Radios |-> file[r] \cap bad]
      BY <1>17 DEF Start
    <3> QED
      BY <3>2, <3>3, HostingAssumption
  <2>5. UNCHANGED <<file, starting, req>> /\ reused' = {} /\ putBack' = {} /\ up' = TRUE
    BY <1>17 DEF Start
  <2> QED
    BY <2>1, <2>2, <2>3, <2>4, <2>5
<1>18. CASE UNCHANGED vars
  BY <1>18 DEF vars, hostingVars, boundVars
<1> QED
  BY <1>1, <1>2, <1>3, <1>4, <1>5, <1>6, <1>7, <1>8, <1>9, <1>10, <1>11, <1>12, <1>13,
     <1>14, <1>15, <1>16, <1>17, <1>18
     DEF Next, Request, Handler


-----------------------------------------------------------------------------
(* Requests. *)

LEMMA RequestStep == TypeOK /\ RequestOK /\ DownIsIdle /\ [Next]_vars => RequestOK'
<1> SUFFICES ASSUME TypeOK, RequestOK, DownIsIdle, [Next]_vars PROVE RequestOK'
  OBVIOUS
<1>1. ASSUME NEW a \in Requests, NEW k \in Keys, NEW r \in Radios, CreateIdentity(a, k, r) PROVE RequestOK'
  <2>0. 1 \in Radios
    BY HostingAssumption DEF Radios
  <2>1. Begun(a, "create", k, r, r, "slot", None)
    BY <1>1, BeginProps DEF CreateIdentity, Begun
  <2> QED
    BY <1>1, <2>1, <2>0 DEF Idle, RequestOK, InStart, InstOf, Begun, CreateIdentity
<1>2. ASSUME NEW a \in Requests, NEW i \in ids, DeleteIdentity(a, i) PROVE RequestOK'
  <2>0. i \in Instances /\ i.key \in Keys /\ i.radio \in Radios /\ 1 \in Radios
    BY <1>2, HostingAssumption DEF DeleteIdentity, TypeOK, Instances, Radios
  <2>1. Begun(a, "delete", i.key, i.radio, i.radio, "remove", i)
    BY <1>2, BeginProps DEF DeleteIdentity, Begun
  <2> QED
    BY <1>2, <2>1, <2>0 DEF Idle, RequestOK, InStart, InstOf, Begun, DeleteIdentity
<1>3. ASSUME NEW a \in Requests, NEW i \in ids, NEW q \in Radios, MoveIdentity(a, i, q) PROVE RequestOK'
  <2>0. i \in Instances /\ i.key \in Keys /\ i.radio \in Radios /\ 1 \in Radios
    BY <1>3, HostingAssumption DEF MoveIdentity, TypeOK, Instances, Radios
  <2>1. Begun(a, "move", i.key, i.radio, q, "remove", i)
    BY <1>3, BeginProps DEF MoveIdentity, Begun
  <2> QED
    BY <1>3, <2>1, <2>0 DEF Idle, RequestOK, InStart, InstOf, Begun, MoveIdentity
<1>4. ASSUME NEW a \in Requests, ReserveSlot(a) PROVE RequestOK'
  <2>1. CASE NoSlot(a)
    BY <2>1 DEF Idle, RequestOK, InStart, InstOf, NoSlot, AddFailsTo
  <2>2. CASE GotSlot(a)
    <3>1. PICK s \in Slots : Reserved(a, s)
      BY <2>2 DEF GotSlot
    <3> DEFINE n == NewInst(a, s)
    <3>2. /\ n \in Instances /\ n.key = req[a].key /\ n.radio = req[a].at /\ n.slot = s /\ n.born = births + 1
          /\ s \notin starting[req[a].at] /\ \A m \in nodes : ~SamePort(m, n)
          /\ births' = births + 1 /\ births' <= MaxBirths /\ putBack' = putBack
          /\ starting' = [starting EXCEPT ![req[a].at] = starting[req[a].at] \cup {s}]
          /\ \A b \in Requests \ {a} : req'[b] = req[b]
          /\ req'[a].do = "start" /\ req'[a].inst = n /\ req'[a].op = req[a].op /\ req'[a].key = req[a].key
          /\ req'[a].at = req[a].at /\ req'[a].from = req[a].from /\ req'[a].next = req[a].next
      BY <3>1 DEF Reserved
    <3>3. UNCHANGED <<up, ids, kept, file, nodes, procs, dirs, reused>> /\ req[a].do = "slot"
      BY <2>2 DEF GotSlot
    <3> HIDE DEF n
    <3> QED
      BY <3>2, <3>3 DEF Idle, RequestOK, InStart, InstOf
  <2> QED
    BY <1>4, <2>1, <2>2, Effects
<1>5. ASSUME NEW a \in Requests, StartHosted(a) PROVE RequestOK'
  <2>1. Mine(a, "add")
    BY <1>5, GotoProps DEF StartHosted
  <2> QED
    BY <1>5, <2>1
       DEF Idle, RequestOK, InStart, InstOf, Mine, StartHosted, hostingVars, boundVars
<1>6. ASSUME NEW a \in Requests, StartFails(a) PROVE RequestOK'
  <2>1. NotStarted(a)
    BY <1>6, Effects
  <2> QED
    BY <1>6, <2>1 DEF Idle, RequestOK, InStart, InstOf, NotStarted, AddFailsTo, LetGo
<1>7. ASSUME NEW a \in Requests, AddIdentity(a) PROVE RequestOK'
  <2>1. CASE NotAdded(a)
    BY <2>1 DEF Idle, RequestOK, InStart, InstOf, NotAdded, AddFailsTo, LetGo
  <2>2. CASE Added(a)
    BY <2>2 DEF Idle, RequestOK, InStart, InstOf, Added, Mine
  <2> QED
    BY <1>7, <2>1, <2>2, Effects
<1>8. ASSUME NEW a \in Requests, Register(a) PROVE RequestOK'
  <2>1. CASE BackAgain(a)
    BY <2>1 DEF Idle, RequestOK, InStart, InstOf, BackAgain, Ended, LetGo
  <2>2. CASE Registered(a)
    BY <2>2 DEF Idle, RequestOK, InStart, InstOf, Registered, Mine, LetGo
  <2> QED
    BY <1>8, <2>1, <2>2, Effects
<1>9. ASSUME NEW a \in Requests, RemoveIdentity(a) PROVE RequestOK'
  <2>1. CASE NoneRemoved(a)
    BY <2>1 DEF Idle, RequestOK, InStart, InstOf, NoneRemoved, Ended
  <2>2. CASE Removed(a)
    BY <2>2 DEF Idle, RequestOK, InStart, InstOf, Removed, Mine
  <2> QED
    BY <1>9, <2>1, <2>2, Effects
<1>10. ASSUME NEW a \in Requests, Unhost(a) PROVE RequestOK'
  <2>1. Mine(a, IF req[a].inst \in nodes THEN "stop" ELSE AfterDrop(a))
    BY <1>10, GotoProps DEF Unhost
  <2> QED
    BY <1>10, <2>1
       DEF Idle, RequestOK, InStart, InstOf, Mine, Unhost, hostingVars, boundVars, AfterDrop
<1>11. ASSUME NEW a \in Requests, StopNode(a) PROVE RequestOK'
  <2>1. Mine(a, "wipe")
    BY <1>11, GotoProps DEF StopNode
  <2> QED
    BY <1>11, <2>1 DEF Idle, RequestOK, InStart, InstOf, Mine, StopNode, hostingVars, boundVars
<1>12. ASSUME NEW a \in Requests, Wipe(a) PROVE RequestOK'
  <2>1. Mine(a, AfterDrop(a))
    BY <1>12, GotoProps DEF Wipe
  <2> QED
    BY <1>12, <2>1
       DEF Idle, RequestOK, InStart, InstOf, Mine, Wipe, hostingVars, boundVars, AfterDrop
<1>13. ASSUME NEW a \in Requests, Save(a) PROVE RequestOK'
  <2>1. CASE SavedLast(a)
    BY <2>1 DEF Idle, RequestOK, InStart, InstOf, SavedLast, Ended
  <2>2. CASE SavedOne(a)
    <3>1. req[a].next + 1 \in Radios
      BY <2>2, HostingAssumption DEF RequestOK, SavedOne, SavesOn, Radios
    <3> QED
      BY <2>2, <3>1 DEF RequestOK, InStart, InstOf, SavedOne, SavesOn
  <2> QED
    BY <1>13, <2>1, <2>2, Effects
<1>14. ASSUME NEW i \in procs, NodeConfigured(i) PROVE RequestOK'
  BY <1>14 DEF Idle, RequestOK, InStart, InstOf, NodeConfigured, hostingVars, boundVars
<1>15. CASE Crash
  BY <1>15 DEF Idle, RequestOK, InStart, InstOf, Crash, Down, hostingVars, boundVars
<1>16. CASE Exit
  BY <1>16 DEF Idle, RequestOK, InStart, InstOf, Exit, Down, hostingVars, boundVars
<1>17. ASSUME NEW bad \in SUBSET UNION {file[r] : r \in Radios}, Start(bad) PROVE RequestOK'
  <2>1. Fresh(ids') /\ nodes' = ids' /\ procs' = ids'
    BY <1>17, StartProps
  <2>2. UNCHANGED <<file, starting, req>> /\ reused' = {} /\ putBack' = {} /\ up' = TRUE /\ ~up
    BY <1>17 DEF Start
  <2> QED
    BY <2>1, <2>2 DEF Idle, RequestOK, InStart, InstOf, Fresh, DownIsIdle
<1>18. CASE UNCHANGED vars
  BY <1>18 DEF Idle, RequestOK, InStart, InstOf, vars, hostingVars, boundVars
<1> QED
  BY <1>1, <1>2, <1>3, <1>4, <1>5, <1>6, <1>7, <1>8, <1>9, <1>10, <1>11, <1>12, <1>13,
     <1>14, <1>15, <1>16, <1>17, <1>18
     DEF Next, Request, Handler


-----------------------------------------------------------------------------
(* Nodes and their ports. *)

LEMMA Basics ==
  ASSUME TypeOK, RequestOK
  PROVE  /\ births \in Nat /\ None \notin Instances /\ \A i \in Instances : i.born \in Nat
         /\ \A a \in Requests : InstOf(a) \in Instances \cup {None}
         /\ \A a \in Requests : InStart(a) \/ req[a].do \in {"remove", "unhost", "stop", "wipe"}
                                  => InstOf(a) \in Instances
         /\ ids \subseteq Instances /\ nodes \subseteq Instances /\ procs \subseteq Instances
<1>1. births \in Nat /\ None \notin Instances /\ \A i \in Instances : i.born \in Nat
  BY HostingAssumption DEF TypeOK, Instances
<1>2. \A a \in Requests : InstOf(a) \in Instances \cup {None}
  BY DEF TypeOK, Progress, InstOf
<1> QED
  BY <1>1, <1>2 DEF TypeOK, RequestOK

LEMMA DownStep == TypeOK /\ RequestOK /\ DownIsIdle /\ [Next]_vars => DownIsIdle'
<1> SUFFICES ASSUME TypeOK, RequestOK, DownIsIdle, [Next]_vars PROVE DownIsIdle'
  OBVIOUS
<1>1. ASSUME NEW a \in Requests, NEW k \in Keys, NEW r \in Radios, CreateIdentity(a, k, r) PROVE DownIsIdle'
  BY <1>1 DEF CreateIdentity, Begin, DownIsIdle
<1>2. ASSUME NEW a \in Requests, NEW i \in ids, DeleteIdentity(a, i) PROVE DownIsIdle'
  BY <1>2 DEF DeleteIdentity, Begin, DownIsIdle
<1>3. ASSUME NEW a \in Requests, NEW i \in ids, NEW q \in Radios, MoveIdentity(a, i, q) PROVE DownIsIdle'
  BY <1>3 DEF MoveIdentity, Begin, DownIsIdle
<1>4. ASSUME NEW a \in Requests, ReserveSlot(a) PROVE DownIsIdle'
  BY <1>4 DEF ReserveSlot, DownIsIdle, Idle
<1>5. ASSUME NEW a \in Requests, StartHosted(a) PROVE DownIsIdle'
  BY <1>5 DEF StartHosted, DownIsIdle, Idle
<1>6. ASSUME NEW a \in Requests, StartFails(a) PROVE DownIsIdle'
  BY <1>6 DEF StartFails, DownIsIdle, Idle
<1>7. ASSUME NEW a \in Requests, AddIdentity(a) PROVE DownIsIdle'
  BY <1>7 DEF AddIdentity, DownIsIdle, Idle
<1>8. ASSUME NEW a \in Requests, Register(a) PROVE DownIsIdle'
  BY <1>8 DEF Register, DownIsIdle, Idle
<1>9. ASSUME NEW a \in Requests, RemoveIdentity(a) PROVE DownIsIdle'
  BY <1>9 DEF RemoveIdentity, DownIsIdle, Idle
<1>10. ASSUME NEW a \in Requests, Unhost(a) PROVE DownIsIdle'
  BY <1>10 DEF Unhost, DownIsIdle, Idle
<1>11. ASSUME NEW a \in Requests, StopNode(a) PROVE DownIsIdle'
  BY <1>11 DEF StopNode, DownIsIdle, Idle
<1>12. ASSUME NEW a \in Requests, Wipe(a) PROVE DownIsIdle'
  BY <1>12 DEF Wipe, DownIsIdle, Idle
<1>13. ASSUME NEW a \in Requests, Save(a) PROVE DownIsIdle'
  BY <1>13 DEF Save, DownIsIdle, Idle
<1>14. ASSUME NEW i \in procs, NodeConfigured(i) PROVE DownIsIdle'
  BY <1>14 DEF DownIsIdle, NodeConfigured, hostingVars
<1>15. CASE Crash
  BY <1>15 DEF DownIsIdle, Crash, Down, Idle, hostingVars, boundVars
<1>16. CASE Exit
  BY <1>16 DEF DownIsIdle, Exit, Down, Idle, hostingVars, boundVars
<1>17. ASSUME NEW bad \in SUBSET UNION {file[r] : r \in Radios}, Start(bad) PROVE DownIsIdle'
  <2>1. Fresh(ids') /\ nodes' = ids' /\ procs' = ids'
    BY <1>17, StartProps
  <2>2. UNCHANGED <<file, starting, req>> /\ reused' = {} /\ putBack' = {} /\ up' = TRUE /\ ~up
    BY <1>17 DEF Start
  <2> QED
    BY <2>1, <2>2 DEF DownIsIdle, Fresh, Idle, DownIsIdle
<1>18. CASE UNCHANGED vars
  BY <1>18 DEF DownIsIdle, vars, hostingVars, boundVars
<1> QED
  BY <1>1, <1>2, <1>3, <1>4, <1>5, <1>6, <1>7, <1>8, <1>9, <1>10, <1>11, <1>12, <1>13,
     <1>14, <1>15, <1>16, <1>17, <1>18
     DEF Next, Request, Handler

LEMMA BornStep == TypeOK /\ RequestOK /\ DownIsIdle /\ BornBefore /\ [Next]_vars => BornBefore'
<1> SUFFICES ASSUME TypeOK, RequestOK, DownIsIdle, BornBefore, [Next]_vars PROVE BornBefore'
  OBVIOUS
<1>0. /\ births \in Nat /\ None \notin Instances /\ \A i \in Instances : i.born \in Nat
      /\ \A b \in Requests : InstOf(b) \in Instances \cup {None}
      /\ \A b \in Requests : InStart(b) \/ req[b].do \in {"remove", "unhost", "stop", "wipe"}
                               => InstOf(b) \in Instances
      /\ ids \subseteq Instances /\ nodes \subseteq Instances /\ procs \subseteq Instances
  BY Basics
<1>1. ASSUME NEW a \in Requests, NEW k \in Keys, NEW r \in Radios, CreateIdentity(a, k, r) PROVE BornBefore'
  <2>1. Begun(a, "create", k, r, r, "slot", None)
    BY <1>1, BeginProps DEF CreateIdentity, Begun
  <2> QED
    BY <1>1, <1>0, <2>1 DEF BornBefore, InstOf, InStart, Begun, CreateIdentity
<1>2. ASSUME NEW a \in Requests, NEW i \in ids, DeleteIdentity(a, i) PROVE BornBefore'
  <2>1. Begun(a, "delete", i.key, i.radio, i.radio, "remove", i)
    BY <1>2, BeginProps DEF DeleteIdentity, Begun
  <2> QED
    BY <1>2, <1>0, <2>1 DEF BornBefore, InstOf, InStart, Begun, DeleteIdentity
<1>3. ASSUME NEW a \in Requests, NEW i \in ids, NEW q \in Radios, MoveIdentity(a, i, q) PROVE BornBefore'
  <2>1. Begun(a, "move", i.key, i.radio, q, "remove", i)
    BY <1>3, BeginProps DEF MoveIdentity, Begun
  <2> QED
    BY <1>3, <1>0, <2>1 DEF BornBefore, InstOf, InStart, Begun, MoveIdentity
<1>4. ASSUME NEW a \in Requests, ReserveSlot(a) PROVE BornBefore'
  <2>1. CASE NoSlot(a)
    BY <1>0, <2>1 DEF BornBefore, InstOf, InStart, NoSlot, AddFailsTo
  <2>2. CASE GotSlot(a)
    <3>1. PICK s \in Slots : Reserved(a, s)
      BY <2>2 DEF GotSlot
    <3> DEFINE n == NewInst(a, s)
    <3>2. /\ n \in Instances /\ n.key = req[a].key /\ n.radio = req[a].at /\ n.slot = s /\ n.born = births + 1
          /\ s \notin starting[req[a].at] /\ \A m \in nodes : ~SamePort(m, n)
          /\ births' = births + 1 /\ births' <= MaxBirths /\ putBack' = putBack
          /\ starting' = [starting EXCEPT ![req[a].at] = starting[req[a].at] \cup {s}]
          /\ \A b \in Requests \ {a} : req'[b] = req[b]
          /\ req'[a].do = "start" /\ req'[a].inst = n /\ req'[a].op = req[a].op /\ req'[a].key = req[a].key
          /\ req'[a].at = req[a].at /\ req'[a].from = req[a].from /\ req'[a].next = req[a].next
      BY <3>1 DEF Reserved
    <3>3. UNCHANGED <<up, ids, kept, file, nodes, procs, dirs, reused>> /\ req[a].do = "slot"
      BY <2>2 DEF GotSlot
    <3> HIDE DEF n
    <3>5. \A b \in Requests \ {a} : InstOf(b)' = InstOf(b)
      BY <3>2 DEF InstOf
    <3>6. InstOf(a)' = n /\ births' = births + 1 /\ n.born = births + 1
      BY <3>2 DEF InstOf
    <3>7. \A i \in ids' \cup nodes' \cup procs' : i.born <= births'
      <4> SUFFICES ASSUME NEW i \in ids \cup nodes \cup procs PROVE i.born <= births + 1
        BY <3>3, <3>6
      <4>1. i.born <= births
        BY DEF BornBefore
      <4>2. i.born \in Nat /\ births \in Nat
        BY <1>0
      <4> QED
        BY <4>1, <4>2
    <3>8. \A b \in Requests \ {a} : InstOf(b) # None => InstOf(b).born <= births + 1
      BY <1>0 DEF BornBefore
    <3> QED
      BY <1>0, <3>5, <3>6, <3>7, <3>8 DEF BornBefore
  <2> QED
    BY <1>4, <2>1, <2>2, Effects
<1>5. ASSUME NEW a \in Requests, StartHosted(a) PROVE BornBefore'
  <2>1. Mine(a, "add")
    BY <1>5, GotoProps DEF StartHosted
  <2> QED
    BY <1>5, <1>0, <2>1
       DEF BornBefore, InstOf, InStart, Mine, StartHosted, hostingVars, boundVars
<1>6. ASSUME NEW a \in Requests, StartFails(a) PROVE BornBefore'
  <2>1. NotStarted(a)
    BY <1>6, Effects
  <2> QED
    BY <1>6, <1>0, <2>1 DEF BornBefore, InstOf, InStart, NotStarted, AddFailsTo, LetGo
<1>7. ASSUME NEW a \in Requests, AddIdentity(a) PROVE BornBefore'
  <2>1. CASE NotAdded(a)
    BY <1>0, <2>1 DEF BornBefore, InstOf, InStart, NotAdded, AddFailsTo, LetGo
  <2>2. CASE Added(a)
    BY <1>0, <2>2 DEF BornBefore, InstOf, InStart, Added, Mine
  <2> QED
    BY <1>7, <2>1, <2>2, Effects
<1>8. ASSUME NEW a \in Requests, Register(a) PROVE BornBefore'
  <2>1. CASE BackAgain(a)
    BY <1>0, <2>1 DEF BornBefore, InstOf, InStart, BackAgain, Ended, LetGo
  <2>2. CASE Registered(a)
    BY <1>0, <2>2 DEF BornBefore, InstOf, InStart, Registered, Mine, LetGo
  <2> QED
    BY <1>8, <2>1, <2>2, Effects
<1>9. ASSUME NEW a \in Requests, RemoveIdentity(a) PROVE BornBefore'
  <2>1. CASE NoneRemoved(a)
    BY <1>0, <2>1 DEF BornBefore, InstOf, InStart, NoneRemoved, Ended
  <2>2. CASE Removed(a)
    BY <1>0, <2>2 DEF BornBefore, InstOf, InStart, Removed, Mine
  <2> QED
    BY <1>9, <2>1, <2>2, Effects
<1>10. ASSUME NEW a \in Requests, Unhost(a) PROVE BornBefore'
  <2>1. Mine(a, IF req[a].inst \in nodes THEN "stop" ELSE AfterDrop(a))
    BY <1>10, GotoProps DEF Unhost
  <2> QED
    BY <1>10, <1>0, <2>1
       DEF BornBefore, InstOf, InStart, Mine, Unhost, hostingVars, boundVars, AfterDrop
<1>11. ASSUME NEW a \in Requests, StopNode(a) PROVE BornBefore'
  <2>1. Mine(a, "wipe")
    BY <1>11, GotoProps DEF StopNode
  <2> QED
    BY <1>11, <1>0, <2>1 DEF BornBefore, InstOf, InStart, Mine, StopNode, hostingVars, boundVars
<1>12. ASSUME NEW a \in Requests, Wipe(a) PROVE BornBefore'
  <2>1. Mine(a, AfterDrop(a))
    BY <1>12, GotoProps DEF Wipe
  <2> QED
    BY <1>12, <1>0, <2>1
       DEF BornBefore, InstOf, InStart, Mine, Wipe, hostingVars, boundVars, AfterDrop
<1>13. ASSUME NEW a \in Requests, Save(a) PROVE BornBefore'
  <2>1. CASE SavedLast(a)
    BY <1>0, <2>1 DEF BornBefore, InstOf, InStart, SavedLast, Ended
  <2>2. CASE SavedOne(a)
    BY <1>0, <2>2 DEF BornBefore, InstOf, InStart, SavedOne, SavesOn
  <2> QED
    BY <1>13, <2>1, <2>2, Effects
<1>14. ASSUME NEW i \in procs, NodeConfigured(i) PROVE BornBefore'
  BY <1>14 DEF BornBefore, InstOf, InStart, NodeConfigured, hostingVars, boundVars
<1>15. CASE Crash
  BY <1>15 DEF BornBefore, InstOf, InStart, Crash, Down, Idle, hostingVars, boundVars
<1>16. CASE Exit
  BY <1>16 DEF BornBefore, InstOf, InStart, Exit, Down, Idle, hostingVars, boundVars
<1>17. ASSUME NEW bad \in SUBSET UNION {file[r] : r \in Radios}, Start(bad) PROVE BornBefore'
  <2>1. Fresh(ids') /\ nodes' = ids' /\ procs' = ids'
    BY <1>17, StartProps
  <2>2. UNCHANGED <<file, starting, req>> /\ reused' = {} /\ putBack' = {} /\ up' = TRUE /\ ~up
    BY <1>17 DEF Start
  <2> QED
    BY <2>1, <2>2 DEF BornBefore, InstOf, InStart, Fresh, Idle, DownIsIdle
<1>18. CASE UNCHANGED vars
  BY <1>18 DEF BornBefore, InstOf, InStart, vars, hostingVars, boundVars
<1> QED
  BY <1>1, <1>2, <1>3, <1>4, <1>5, <1>6, <1>7, <1>8, <1>9, <1>10, <1>11, <1>12, <1>13,
     <1>14, <1>15, <1>16, <1>17, <1>18
     DEF Next, Request, Handler

LEMMA OwnedStep == TypeOK /\ RequestOK /\ DownIsIdle /\ BornBefore /\ StartIsOwned /\ [Next]_vars => StartIsOwned'
<1> SUFFICES ASSUME TypeOK, RequestOK, DownIsIdle, BornBefore, StartIsOwned, [Next]_vars PROVE StartIsOwned'
  OBVIOUS
<1>0. /\ births \in Nat /\ None \notin Instances /\ \A i \in Instances : i.born \in Nat
      /\ \A b \in Requests : InstOf(b) \in Instances \cup {None}
      /\ \A b \in Requests : InStart(b) \/ req[b].do \in {"remove", "unhost", "stop", "wipe"}
                               => InstOf(b) \in Instances
      /\ ids \subseteq Instances /\ nodes \subseteq Instances /\ procs \subseteq Instances
  BY Basics
<1>1. ASSUME NEW a \in Requests, NEW k \in Keys, NEW r \in Radios, CreateIdentity(a, k, r) PROVE StartIsOwned'
  <2>1. Begun(a, "create", k, r, r, "slot", None)
    BY <1>1, BeginProps DEF CreateIdentity, Begun
  <2> QED
    BY <1>1, <1>0, <2>1 DEF StartIsOwned, InstOf, InStart, BornBefore, Begun, CreateIdentity
<1>2. ASSUME NEW a \in Requests, NEW i \in ids, DeleteIdentity(a, i) PROVE StartIsOwned'
  <2>1. Begun(a, "delete", i.key, i.radio, i.radio, "remove", i)
    BY <1>2, BeginProps DEF DeleteIdentity, Begun
  <2> QED
    BY <1>2, <1>0, <2>1 DEF StartIsOwned, InstOf, InStart, BornBefore, Begun, DeleteIdentity
<1>3. ASSUME NEW a \in Requests, NEW i \in ids, NEW q \in Radios, MoveIdentity(a, i, q) PROVE StartIsOwned'
  <2>1. Begun(a, "move", i.key, i.radio, q, "remove", i)
    BY <1>3, BeginProps DEF MoveIdentity, Begun
  <2> QED
    BY <1>3, <1>0, <2>1 DEF StartIsOwned, InstOf, InStart, BornBefore, Begun, MoveIdentity
<1>4. ASSUME NEW a \in Requests, ReserveSlot(a) PROVE StartIsOwned'
  <2>1. CASE NoSlot(a)
    BY <1>0, <2>1 DEF StartIsOwned, InstOf, InStart, BornBefore, NoSlot, AddFailsTo
  <2>2. CASE GotSlot(a)
    <3>1. PICK s \in Slots : Reserved(a, s)
      BY <2>2 DEF GotSlot
    <3> DEFINE n == NewInst(a, s)
    <3>2. /\ n \in Instances /\ n.key = req[a].key /\ n.radio = req[a].at /\ n.slot = s /\ n.born = births + 1
          /\ s \notin starting[req[a].at] /\ \A m \in nodes : ~SamePort(m, n)
          /\ births' = births + 1 /\ births' <= MaxBirths /\ putBack' = putBack
          /\ starting' = [starting EXCEPT ![req[a].at] = starting[req[a].at] \cup {s}]
          /\ \A b \in Requests \ {a} : req'[b] = req[b]
          /\ req'[a].do = "start" /\ req'[a].inst = n /\ req'[a].op = req[a].op /\ req'[a].key = req[a].key
          /\ req'[a].at = req[a].at /\ req'[a].from = req[a].from /\ req'[a].next = req[a].next
      BY <3>1 DEF Reserved
    <3>3. UNCHANGED <<up, ids, kept, file, nodes, procs, dirs, reused>> /\ req[a].do = "slot"
      BY <2>2 DEF GotSlot
    <3> HIDE DEF n
    <3> QED
      BY <1>0, <3>2, <3>3 DEF StartIsOwned, InstOf, InStart, BornBefore
  <2> QED
    BY <1>4, <2>1, <2>2, Effects
<1>5. ASSUME NEW a \in Requests, StartHosted(a) PROVE StartIsOwned'
  <2>1. Mine(a, "add")
    BY <1>5, GotoProps DEF StartHosted
  <2> QED
    BY <1>5, <1>0, <2>1
       DEF StartIsOwned, InstOf, InStart, BornBefore, Mine, StartHosted, hostingVars, boundVars
<1>6. ASSUME NEW a \in Requests, StartFails(a) PROVE StartIsOwned'
  <2>1. NotStarted(a)
    BY <1>6, Effects
  <2> QED
    BY <1>6, <1>0, <2>1
       DEF StartIsOwned, InstOf, InStart, BornBefore, NotStarted, AddFailsTo, LetGo
<1>7. ASSUME NEW a \in Requests, AddIdentity(a) PROVE StartIsOwned'
  <2>1. CASE NotAdded(a)
    BY <1>0, <2>1 DEF StartIsOwned, InstOf, InStart, BornBefore, NotAdded, AddFailsTo, LetGo
  <2>2. CASE Added(a)
    BY <1>0, <2>2 DEF StartIsOwned, InstOf, InStart, BornBefore, Added, Mine
  <2> QED
    BY <1>7, <2>1, <2>2, Effects
<1>8. ASSUME NEW a \in Requests, Register(a) PROVE StartIsOwned'
  <2>1. CASE BackAgain(a)
    BY <1>0, <2>1 DEF StartIsOwned, InstOf, InStart, BornBefore, BackAgain, Ended, LetGo
  <2>2. CASE Registered(a)
    BY <1>0, <2>2 DEF StartIsOwned, InstOf, InStart, BornBefore, Registered, Mine, LetGo
  <2> QED
    BY <1>8, <2>1, <2>2, Effects
<1>9. ASSUME NEW a \in Requests, RemoveIdentity(a) PROVE StartIsOwned'
  <2>1. CASE NoneRemoved(a)
    BY <1>0, <2>1 DEF StartIsOwned, InstOf, InStart, BornBefore, NoneRemoved, Ended
  <2>2. CASE Removed(a)
    BY <1>0, <2>2 DEF StartIsOwned, InstOf, InStart, BornBefore, Removed, Mine
  <2> QED
    BY <1>9, <2>1, <2>2, Effects
<1>10. ASSUME NEW a \in Requests, Unhost(a) PROVE StartIsOwned'
  <2>1. Mine(a, IF req[a].inst \in nodes THEN "stop" ELSE AfterDrop(a))
    BY <1>10, GotoProps DEF Unhost
  <2> QED
    BY <1>10, <1>0, <2>1
       DEF StartIsOwned, InstOf, InStart, BornBefore, Mine, Unhost, hostingVars, boundVars,
           AfterDrop
<1>11. ASSUME NEW a \in Requests, StopNode(a) PROVE StartIsOwned'
  <2>1. Mine(a, "wipe")
    BY <1>11, GotoProps DEF StopNode
  <2> QED
    BY <1>11, <1>0, <2>1
       DEF StartIsOwned, InstOf, InStart, BornBefore, Mine, StopNode, hostingVars, boundVars
<1>12. ASSUME NEW a \in Requests, Wipe(a) PROVE StartIsOwned'
  <2>1. Mine(a, AfterDrop(a))
    BY <1>12, GotoProps DEF Wipe
  <2> QED
    BY <1>12, <1>0, <2>1
       DEF StartIsOwned, InstOf, InStart, BornBefore, Mine, Wipe, hostingVars, boundVars,
           AfterDrop
<1>13. ASSUME NEW a \in Requests, Save(a) PROVE StartIsOwned'
  <2>1. CASE SavedLast(a)
    BY <1>0, <2>1 DEF StartIsOwned, InstOf, InStart, BornBefore, SavedLast, Ended
  <2>2. CASE SavedOne(a)
    BY <1>0, <2>2 DEF StartIsOwned, InstOf, InStart, BornBefore, SavedOne, SavesOn
  <2> QED
    BY <1>13, <2>1, <2>2, Effects
<1>14. ASSUME NEW i \in procs, NodeConfigured(i) PROVE StartIsOwned'
  BY <1>14 DEF StartIsOwned, InstOf, InStart, BornBefore, NodeConfigured, hostingVars, boundVars
<1>15. CASE Crash
  BY <1>15
     DEF StartIsOwned, InstOf, InStart, BornBefore, Crash, Down, Idle, hostingVars, boundVars
<1>16. CASE Exit
  BY <1>16
     DEF StartIsOwned, InstOf, InStart, BornBefore, Exit, Down, Idle, hostingVars, boundVars
<1>17. ASSUME NEW bad \in SUBSET UNION {file[r] : r \in Radios}, Start(bad) PROVE StartIsOwned'
  <2>1. Fresh(ids') /\ nodes' = ids' /\ procs' = ids'
    BY <1>17, StartProps
  <2>2. UNCHANGED <<file, starting, req>> /\ reused' = {} /\ putBack' = {} /\ up' = TRUE /\ ~up
    BY <1>17 DEF Start
  <2> QED
    BY <2>1, <2>2 DEF StartIsOwned, InstOf, InStart, BornBefore, Fresh, Idle, DownIsIdle
<1>18. CASE UNCHANGED vars
  BY <1>18 DEF StartIsOwned, InstOf, InStart, BornBefore, vars, hostingVars, boundVars
<1> QED
  BY <1>1, <1>2, <1>3, <1>4, <1>5, <1>6, <1>7, <1>8, <1>9, <1>10, <1>11, <1>12, <1>13,
     <1>14, <1>15, <1>16, <1>17, <1>18
     DEF Next, Request, Handler

LEMMA StopStep == TypeOK /\ RequestOK /\ DownIsIdle /\ BornBefore /\ StartIsOwned /\ StopIsLast /\ PortsHeld /\ [Next]_vars => StopIsLast'
<1> SUFFICES ASSUME TypeOK, RequestOK, DownIsIdle, BornBefore, StartIsOwned, StopIsLast, PortsHeld, [Next]_vars PROVE StopIsLast'
  OBVIOUS
<1>0. /\ births \in Nat /\ None \notin Instances /\ \A i \in Instances : i.born \in Nat
      /\ \A b \in Requests : InstOf(b) \in Instances \cup {None}
      /\ \A b \in Requests : InStart(b) \/ req[b].do \in {"remove", "unhost", "stop", "wipe"}
                               => InstOf(b) \in Instances
      /\ ids \subseteq Instances /\ nodes \subseteq Instances /\ procs \subseteq Instances
  BY Basics
<1>1. ASSUME NEW a \in Requests, NEW k \in Keys, NEW r \in Radios, CreateIdentity(a, k, r) PROVE StopIsLast'
  <2>1. Begun(a, "create", k, r, r, "slot", None)
    BY <1>1, BeginProps DEF CreateIdentity, Begun
  <2> QED
    BY <1>1, <1>0, <2>1 DEF StopIsLast, StartIsOwned, InstOf, InStart, Begun, CreateIdentity
<1>2. ASSUME NEW a \in Requests, NEW i \in ids, DeleteIdentity(a, i) PROVE StopIsLast'
  <2>1. Begun(a, "delete", i.key, i.radio, i.radio, "remove", i)
    BY <1>2, BeginProps DEF DeleteIdentity, Begun
  <2> QED
    BY <1>2, <1>0, <2>1 DEF StopIsLast, StartIsOwned, InstOf, InStart, Begun, DeleteIdentity
<1>3. ASSUME NEW a \in Requests, NEW i \in ids, NEW q \in Radios, MoveIdentity(a, i, q) PROVE StopIsLast'
  <2>1. Begun(a, "move", i.key, i.radio, q, "remove", i)
    BY <1>3, BeginProps DEF MoveIdentity, Begun
  <2> QED
    BY <1>3, <1>0, <2>1 DEF StopIsLast, StartIsOwned, InstOf, InStart, Begun, MoveIdentity
<1>4. ASSUME NEW a \in Requests, ReserveSlot(a) PROVE StopIsLast'
  <2>1. CASE NoSlot(a)
    BY <1>0, <2>1 DEF StopIsLast, StartIsOwned, InstOf, InStart, NoSlot, AddFailsTo
  <2>2. CASE GotSlot(a)
    <3>1. PICK s \in Slots : Reserved(a, s)
      BY <2>2 DEF GotSlot
    <3> DEFINE n == NewInst(a, s)
    <3>2. /\ n \in Instances /\ n.key = req[a].key /\ n.radio = req[a].at /\ n.slot = s /\ n.born = births + 1
          /\ s \notin starting[req[a].at] /\ \A m \in nodes : ~SamePort(m, n)
          /\ births' = births + 1 /\ births' <= MaxBirths /\ putBack' = putBack
          /\ starting' = [starting EXCEPT ![req[a].at] = starting[req[a].at] \cup {s}]
          /\ \A b \in Requests \ {a} : req'[b] = req[b]
          /\ req'[a].do = "start" /\ req'[a].inst = n /\ req'[a].op = req[a].op /\ req'[a].key = req[a].key
          /\ req'[a].at = req[a].at /\ req'[a].from = req[a].from /\ req'[a].next = req[a].next
      BY <3>1 DEF Reserved
    <3>3. UNCHANGED <<up, ids, kept, file, nodes, procs, dirs, reused>> /\ req[a].do = "slot"
      BY <2>2 DEF GotSlot
    <3> HIDE DEF n
    <3>5. \A b \in Requests \ {a} : InstOf(b)' = InstOf(b) /\ req'[b].do = req[b].do
      BY <3>2 DEF InstOf
    <3>6. InstOf(a)' = n /\ req'[a].do = "start" /\ n.born = births + 1
      BY <3>2 DEF InstOf
    <3>7. \A b \in Requests : InstOf(b) # None => InstOf(b) # n
      BY <1>0, <3>6 DEF BornBefore
    <3>8. \A b \in Requests : req[b].do \in {"stop", "wipe"} => InstOf(b) # None
      BY <1>0
    <3>9. \A b, c \in Requests : req'[b].do \in {"stop", "wipe"} /\ InStart(c)' => InstOf(c)' # InstOf(b)'
      <4> SUFFICES ASSUME NEW b \in Requests, NEW c \in Requests, req'[b].do \in {"stop", "wipe"}, InStart(c)'
                   PROVE  InstOf(c)' # InstOf(b)'
        OBVIOUS
      <4>1. b # a /\ req[b].do \in {"stop", "wipe"} /\ InstOf(b)' = InstOf(b)
        BY <3>5, <3>6
      <4>2. CASE c = a
        BY <3>6, <3>7, <3>8, <4>1, <4>2
      <4>3. CASE c # a
        BY <3>5, <4>1, <4>3 DEF StopIsLast, InStart
      <4> QED
        BY <4>2, <4>3
    <3> QED
      BY <3>3, <3>5, <3>6, <3>9 DEF StopIsLast
  <2> QED
    BY <1>4, <2>1, <2>2, Effects
<1>5. ASSUME NEW a \in Requests, StartHosted(a) PROVE StopIsLast'
  <2>1. Mine(a, "add")
    BY <1>5, GotoProps DEF StartHosted
  <2> QED
    BY <1>5, <1>0, <2>1
       DEF StopIsLast, StartIsOwned, InstOf, InStart, Mine, StartHosted, hostingVars, boundVars
<1>6. ASSUME NEW a \in Requests, StartFails(a) PROVE StopIsLast'
  <2>1. NotStarted(a)
    BY <1>6, Effects
  <2> QED
    BY <1>6, <1>0, <2>1
       DEF StopIsLast, StartIsOwned, InstOf, InStart, NotStarted, AddFailsTo, LetGo
<1>7. ASSUME NEW a \in Requests, AddIdentity(a) PROVE StopIsLast'
  <2>1. CASE NotAdded(a)
    BY <1>0, <2>1 DEF StopIsLast, StartIsOwned, InstOf, InStart, NotAdded, AddFailsTo, LetGo
  <2>2. CASE Added(a)
    BY <1>0, <2>2 DEF StopIsLast, StartIsOwned, InstOf, InStart, Added, Mine
  <2> QED
    BY <1>7, <2>1, <2>2, Effects
<1>8. ASSUME NEW a \in Requests, Register(a) PROVE StopIsLast'
  <2>1. CASE BackAgain(a)
    BY <1>0, <2>1 DEF StopIsLast, StartIsOwned, InstOf, InStart, BackAgain, Ended, LetGo
  <2>2. CASE Registered(a)
    BY <1>0, <2>2 DEF StopIsLast, StartIsOwned, InstOf, InStart, Registered, Mine, LetGo
  <2> QED
    BY <1>8, <2>1, <2>2, Effects
<1>9. ASSUME NEW a \in Requests, RemoveIdentity(a) PROVE StopIsLast'
  <2>1. CASE NoneRemoved(a)
    BY <1>0, <2>1 DEF StopIsLast, StartIsOwned, InstOf, InStart, NoneRemoved, Ended
  <2>2. CASE Removed(a)
    <3>1. InstOf(a).key = req[a].key /\ InstOf(a).radio = req[a].from
      BY <2>2 DEF RequestOK, Removed
    <3>2. InstOf(a) \notin ids'
      BY <2>2, <3>1 DEF Removed
    <3> QED
      BY <1>0, <2>2, <3>2 DEF StopIsLast, StartIsOwned, InstOf, InStart, Removed, Mine
  <2> QED
    BY <1>9, <2>1, <2>2, Effects
<1>10. ASSUME NEW a \in Requests, Unhost(a) PROVE StopIsLast'
  <2>1. Mine(a, IF req[a].inst \in nodes THEN "stop" ELSE AfterDrop(a))
    BY <1>10, GotoProps DEF Unhost
  <2>2. \A b \in Requests : InStart(b) => InstOf(b) \notin nodes
    BY DEF PortsHeld, SamePort
  <2> QED
    BY <1>10, <1>0, <2>1, <2>2
       DEF StopIsLast, StartIsOwned, InstOf, InStart, Mine, Unhost, hostingVars, boundVars,
           AfterDrop
<1>11. ASSUME NEW a \in Requests, StopNode(a) PROVE StopIsLast'
  <2>1. Mine(a, "wipe")
    BY <1>11, GotoProps DEF StopNode
  <2> QED
    BY <1>11, <1>0, <2>1
       DEF StopIsLast, StartIsOwned, InstOf, InStart, Mine, StopNode, hostingVars, boundVars
<1>12. ASSUME NEW a \in Requests, Wipe(a) PROVE StopIsLast'
  <2>1. Mine(a, AfterDrop(a))
    BY <1>12, GotoProps DEF Wipe
  <2> QED
    BY <1>12, <1>0, <2>1
       DEF StopIsLast, StartIsOwned, InstOf, InStart, Mine, Wipe, hostingVars, boundVars,
           AfterDrop
<1>13. ASSUME NEW a \in Requests, Save(a) PROVE StopIsLast'
  <2>1. CASE SavedLast(a)
    BY <1>0, <2>1 DEF StopIsLast, StartIsOwned, InstOf, InStart, SavedLast, Ended
  <2>2. CASE SavedOne(a)
    BY <1>0, <2>2 DEF StopIsLast, StartIsOwned, InstOf, InStart, SavedOne, SavesOn
  <2> QED
    BY <1>13, <2>1, <2>2, Effects
<1>14. ASSUME NEW i \in procs, NodeConfigured(i) PROVE StopIsLast'
  BY <1>14 DEF StopIsLast, StartIsOwned, InstOf, InStart, NodeConfigured, hostingVars, boundVars
<1>15. CASE Crash
  BY <1>15
     DEF StopIsLast, StartIsOwned, InstOf, InStart, Crash, Down, Idle, hostingVars, boundVars
<1>16. CASE Exit
  BY <1>16
     DEF StopIsLast, StartIsOwned, InstOf, InStart, Exit, Down, Idle, hostingVars, boundVars
<1>17. ASSUME NEW bad \in SUBSET UNION {file[r] : r \in Radios}, Start(bad) PROVE StopIsLast'
  <2>1. Fresh(ids') /\ nodes' = ids' /\ procs' = ids'
    BY <1>17, StartProps
  <2>2. UNCHANGED <<file, starting, req>> /\ reused' = {} /\ putBack' = {} /\ up' = TRUE /\ ~up
    BY <1>17 DEF Start
  <2> QED
    BY <2>1, <2>2 DEF StopIsLast, StartIsOwned, InstOf, InStart, Fresh, Idle, DownIsIdle
<1>18. CASE UNCHANGED vars
  BY <1>18 DEF StopIsLast, StartIsOwned, InstOf, InStart, vars, hostingVars, boundVars
<1> QED
  BY <1>1, <1>2, <1>3, <1>4, <1>5, <1>6, <1>7, <1>8, <1>9, <1>10, <1>11, <1>12, <1>13,
     <1>14, <1>15, <1>16, <1>17, <1>18
     DEF Next, Request, Handler

LEMMA IdentityHasItsNodeStep == TypeOK /\ RequestOK /\ DownIsIdle /\ StartIsOwned /\ StopIsLast /\ IdentityHasItsNode /\ [Next]_vars => IdentityHasItsNode'
<1> SUFFICES ASSUME TypeOK, RequestOK, DownIsIdle, StartIsOwned, StopIsLast, IdentityHasItsNode, [Next]_vars PROVE IdentityHasItsNode'
  OBVIOUS
<1>0. /\ births \in Nat /\ None \notin Instances /\ \A i \in Instances : i.born \in Nat
      /\ \A b \in Requests : InstOf(b) \in Instances \cup {None}
      /\ \A b \in Requests : InStart(b) \/ req[b].do \in {"remove", "unhost", "stop", "wipe"}
                               => InstOf(b) \in Instances
      /\ ids \subseteq Instances /\ nodes \subseteq Instances /\ procs \subseteq Instances
  BY Basics
<1>1. ASSUME NEW a \in Requests, NEW k \in Keys, NEW r \in Radios, CreateIdentity(a, k, r) PROVE IdentityHasItsNode'
  <2>1. Begun(a, "create", k, r, r, "slot", None)
    BY <1>1, BeginProps DEF CreateIdentity, Begun
  <2> QED
    BY <1>1, <1>0, <2>1
       DEF IdentityHasItsNode, StartIsOwned, StopIsLast, InstOf, InStart, Begun, CreateIdentity
<1>2. ASSUME NEW a \in Requests, NEW i \in ids, DeleteIdentity(a, i) PROVE IdentityHasItsNode'
  <2>1. Begun(a, "delete", i.key, i.radio, i.radio, "remove", i)
    BY <1>2, BeginProps DEF DeleteIdentity, Begun
  <2> QED
    BY <1>2, <1>0, <2>1
       DEF IdentityHasItsNode, StartIsOwned, StopIsLast, InstOf, InStart, Begun, DeleteIdentity
<1>3. ASSUME NEW a \in Requests, NEW i \in ids, NEW q \in Radios, MoveIdentity(a, i, q) PROVE IdentityHasItsNode'
  <2>1. Begun(a, "move", i.key, i.radio, q, "remove", i)
    BY <1>3, BeginProps DEF MoveIdentity, Begun
  <2> QED
    BY <1>3, <1>0, <2>1
       DEF IdentityHasItsNode, StartIsOwned, StopIsLast, InstOf, InStart, Begun, MoveIdentity
<1>4. ASSUME NEW a \in Requests, ReserveSlot(a) PROVE IdentityHasItsNode'
  <2>1. CASE NoSlot(a)
    BY <1>0, <2>1
       DEF IdentityHasItsNode, StartIsOwned, StopIsLast, InstOf, InStart, NoSlot, AddFailsTo
  <2>2. CASE GotSlot(a)
    <3>1. PICK s \in Slots : Reserved(a, s)
      BY <2>2 DEF GotSlot
    <3> DEFINE n == NewInst(a, s)
    <3>2. /\ n \in Instances /\ n.key = req[a].key /\ n.radio = req[a].at /\ n.slot = s /\ n.born = births + 1
          /\ s \notin starting[req[a].at] /\ \A m \in nodes : ~SamePort(m, n)
          /\ births' = births + 1 /\ births' <= MaxBirths /\ putBack' = putBack
          /\ starting' = [starting EXCEPT ![req[a].at] = starting[req[a].at] \cup {s}]
          /\ \A b \in Requests \ {a} : req'[b] = req[b]
          /\ req'[a].do = "start" /\ req'[a].inst = n /\ req'[a].op = req[a].op /\ req'[a].key = req[a].key
          /\ req'[a].at = req[a].at /\ req'[a].from = req[a].from /\ req'[a].next = req[a].next
      BY <3>1 DEF Reserved
    <3>3. UNCHANGED <<up, ids, kept, file, nodes, procs, dirs, reused>> /\ req[a].do = "slot"
      BY <2>2 DEF GotSlot
    <3> HIDE DEF n
    <3> QED
      BY <1>0, <3>2, <3>3 DEF IdentityHasItsNode, StartIsOwned, StopIsLast, InstOf, InStart
  <2> QED
    BY <1>4, <2>1, <2>2, Effects
<1>5. ASSUME NEW a \in Requests, StartHosted(a) PROVE IdentityHasItsNode'
  <2>1. Mine(a, "add")
    BY <1>5, GotoProps DEF StartHosted
  <2> QED
    BY <1>5, <1>0, <2>1
       DEF IdentityHasItsNode, StartIsOwned, StopIsLast, InstOf, InStart, Mine, StartHosted,
           hostingVars, boundVars
<1>6. ASSUME NEW a \in Requests, StartFails(a) PROVE IdentityHasItsNode'
  <2>1. NotStarted(a)
    BY <1>6, Effects
  <2> QED
    BY <1>6, <1>0, <2>1
       DEF IdentityHasItsNode, StartIsOwned, StopIsLast, InstOf, InStart, NotStarted,
           AddFailsTo, LetGo
<1>7. ASSUME NEW a \in Requests, AddIdentity(a) PROVE IdentityHasItsNode'
  <2>1. CASE NotAdded(a)
    BY <1>0, <2>1
       DEF IdentityHasItsNode, StartIsOwned, StopIsLast, InstOf, InStart, NotAdded, AddFailsTo,
           LetGo
  <2>2. CASE Added(a)
    BY <1>0, <2>2 DEF IdentityHasItsNode, StartIsOwned, StopIsLast, InstOf, InStart, Added, Mine
  <2> QED
    BY <1>7, <2>1, <2>2, Effects
<1>8. ASSUME NEW a \in Requests, Register(a) PROVE IdentityHasItsNode'
  <2>1. CASE BackAgain(a)
    BY <1>0, <2>1
       DEF IdentityHasItsNode, StartIsOwned, StopIsLast, InstOf, InStart, BackAgain, Ended,
           LetGo
  <2>2. CASE Registered(a)
    BY <1>0, <2>2
       DEF IdentityHasItsNode, StartIsOwned, StopIsLast, InstOf, InStart, Registered, Mine,
           LetGo
  <2> QED
    BY <1>8, <2>1, <2>2, Effects
<1>9. ASSUME NEW a \in Requests, RemoveIdentity(a) PROVE IdentityHasItsNode'
  <2>1. CASE NoneRemoved(a)
    BY <1>0, <2>1
       DEF IdentityHasItsNode, StartIsOwned, StopIsLast, InstOf, InStart, NoneRemoved, Ended
  <2>2. CASE Removed(a)
    BY <1>0, <2>2
       DEF IdentityHasItsNode, StartIsOwned, StopIsLast, InstOf, InStart, Removed, Mine
  <2> QED
    BY <1>9, <2>1, <2>2, Effects
<1>10. ASSUME NEW a \in Requests, Unhost(a) PROVE IdentityHasItsNode'
  <2>1. Mine(a, IF req[a].inst \in nodes THEN "stop" ELSE AfterDrop(a))
    BY <1>10, GotoProps DEF Unhost
  <2> QED
    BY <1>10, <1>0, <2>1
       DEF IdentityHasItsNode, StartIsOwned, StopIsLast, InstOf, InStart, Mine, Unhost,
           hostingVars, boundVars, AfterDrop
<1>11. ASSUME NEW a \in Requests, StopNode(a) PROVE IdentityHasItsNode'
  <2>1. Mine(a, "wipe")
    BY <1>11, GotoProps DEF StopNode
  <2> QED
    BY <1>11, <1>0, <2>1
       DEF IdentityHasItsNode, StartIsOwned, StopIsLast, InstOf, InStart, Mine, StopNode,
           hostingVars, boundVars
<1>12. ASSUME NEW a \in Requests, Wipe(a) PROVE IdentityHasItsNode'
  <2>1. Mine(a, AfterDrop(a))
    BY <1>12, GotoProps DEF Wipe
  <2> QED
    BY <1>12, <1>0, <2>1
       DEF IdentityHasItsNode, StartIsOwned, StopIsLast, InstOf, InStart, Mine, Wipe,
           hostingVars, boundVars, AfterDrop
<1>13. ASSUME NEW a \in Requests, Save(a) PROVE IdentityHasItsNode'
  <2>1. CASE SavedLast(a)
    BY <1>0, <2>1
       DEF IdentityHasItsNode, StartIsOwned, StopIsLast, InstOf, InStart, SavedLast, Ended
  <2>2. CASE SavedOne(a)
    BY <1>0, <2>2
       DEF IdentityHasItsNode, StartIsOwned, StopIsLast, InstOf, InStart, SavedOne, SavesOn
  <2> QED
    BY <1>13, <2>1, <2>2, Effects
<1>14. ASSUME NEW i \in procs, NodeConfigured(i) PROVE IdentityHasItsNode'
  BY <1>14
     DEF IdentityHasItsNode, StartIsOwned, StopIsLast, InstOf, InStart, NodeConfigured,
         hostingVars, boundVars
<1>15. CASE Crash
  BY <1>15
     DEF IdentityHasItsNode, StartIsOwned, StopIsLast, InstOf, InStart, Crash, Down, Idle,
         hostingVars, boundVars
<1>16. CASE Exit
  BY <1>16
     DEF IdentityHasItsNode, StartIsOwned, StopIsLast, InstOf, InStart, Exit, Down, Idle,
         hostingVars, boundVars
<1>17. ASSUME NEW bad \in SUBSET UNION {file[r] : r \in Radios}, Start(bad) PROVE IdentityHasItsNode'
  <2>1. Fresh(ids') /\ nodes' = ids' /\ procs' = ids'
    BY <1>17, StartProps
  <2>2. UNCHANGED <<file, starting, req>> /\ reused' = {} /\ putBack' = {} /\ up' = TRUE /\ ~up
    BY <1>17 DEF Start
  <2> QED
    BY <2>1, <2>2
       DEF IdentityHasItsNode, StartIsOwned, StopIsLast, InstOf, InStart, Fresh, Idle,
           DownIsIdle
<1>18. CASE UNCHANGED vars
  BY <1>18
     DEF IdentityHasItsNode, StartIsOwned, StopIsLast, InstOf, InStart, vars, hostingVars,
         boundVars
<1> QED
  BY <1>1, <1>2, <1>3, <1>4, <1>5, <1>6, <1>7, <1>8, <1>9, <1>10, <1>11, <1>12, <1>13,
     <1>14, <1>15, <1>16, <1>17, <1>18
     DEF Next, Request, Handler

LEMMA PortsStep == TypeOK /\ RequestOK /\ DownIsIdle /\ StartIsOwned /\ StopIsLast /\ PortsHeld /\ [Next]_vars => PortsHeld'
<1> SUFFICES ASSUME TypeOK, RequestOK, DownIsIdle, StartIsOwned, StopIsLast, PortsHeld, [Next]_vars PROVE PortsHeld'
  OBVIOUS
<1>0. /\ births \in Nat /\ None \notin Instances /\ \A i \in Instances : i.born \in Nat
      /\ \A b \in Requests : InstOf(b) \in Instances \cup {None}
      /\ \A b \in Requests : InStart(b) \/ req[b].do \in {"remove", "unhost", "stop", "wipe"}
                               => InstOf(b) \in Instances
      /\ ids \subseteq Instances /\ nodes \subseteq Instances /\ procs \subseteq Instances
  BY Basics
<1>1. ASSUME NEW a \in Requests, NEW k \in Keys, NEW r \in Radios, CreateIdentity(a, k, r) PROVE PortsHeld'
  <2>1. Begun(a, "create", k, r, r, "slot", None)
    BY <1>1, BeginProps DEF CreateIdentity, Begun
  <2> QED
    BY <1>1, <1>0, <2>1
       DEF Idle, PortsHeld, SamePort, StartIsOwned, StopIsLast, InstOf, InStart, Begun,
           CreateIdentity
<1>2. ASSUME NEW a \in Requests, NEW i \in ids, DeleteIdentity(a, i) PROVE PortsHeld'
  <2>1. Begun(a, "delete", i.key, i.radio, i.radio, "remove", i)
    BY <1>2, BeginProps DEF DeleteIdentity, Begun
  <2> QED
    BY <1>2, <1>0, <2>1
       DEF Idle, PortsHeld, SamePort, StartIsOwned, StopIsLast, InstOf, InStart, Begun,
           DeleteIdentity
<1>3. ASSUME NEW a \in Requests, NEW i \in ids, NEW q \in Radios, MoveIdentity(a, i, q) PROVE PortsHeld'
  <2>1. Begun(a, "move", i.key, i.radio, q, "remove", i)
    BY <1>3, BeginProps DEF MoveIdentity, Begun
  <2> QED
    BY <1>3, <1>0, <2>1
       DEF Idle, PortsHeld, SamePort, StartIsOwned, StopIsLast, InstOf, InStart, Begun,
           MoveIdentity
<1>4. ASSUME NEW a \in Requests, ReserveSlot(a) PROVE PortsHeld'
  <2>1. CASE NoSlot(a)
    BY <1>0, <2>1
       DEF PortsHeld, SamePort, StartIsOwned, StopIsLast, InstOf, InStart, NoSlot, AddFailsTo
  <2>2. CASE GotSlot(a)
    <3>1. PICK s \in Slots : Reserved(a, s)
      BY <2>2 DEF GotSlot
    <3> DEFINE n == NewInst(a, s)
    <3>2. /\ n \in Instances /\ n.key = req[a].key /\ n.radio = req[a].at /\ n.slot = s /\ n.born = births + 1
          /\ s \notin starting[req[a].at] /\ \A m \in nodes : ~SamePort(m, n)
          /\ births' = births + 1 /\ births' <= MaxBirths /\ putBack' = putBack
          /\ starting' = [starting EXCEPT ![req[a].at] = starting[req[a].at] \cup {s}]
          /\ \A b \in Requests \ {a} : req'[b] = req[b]
          /\ req'[a].do = "start" /\ req'[a].inst = n /\ req'[a].op = req[a].op /\ req'[a].key = req[a].key
          /\ req'[a].at = req[a].at /\ req'[a].from = req[a].from /\ req'[a].next = req[a].next
      BY <3>1 DEF Reserved
    <3>3. UNCHANGED <<up, ids, kept, file, nodes, procs, dirs, reused>> /\ req[a].do = "slot"
      BY <2>2 DEF GotSlot
    <3> HIDE DEF n
    <3>5. \A b \in Requests \ {a} : InstOf(b)' = InstOf(b) /\ InStart(b)' = InStart(b) /\ req'[b].do = req[b].do
      BY <3>2 DEF InstOf, InStart
    <3>6. InstOf(a)' = n /\ req'[a].do = "start"
      BY <3>2 DEF InstOf
    <3>7. \A b \in Requests : InStart(b) =>
            /\ InstOf(b).slot \in starting'[InstOf(b).radio] /\ ~SamePort(n, InstOf(b)) /\ ~SamePort(InstOf(b), n)
      <4> SUFFICES ASSUME NEW b \in Requests, InStart(b)
                   PROVE  /\ InstOf(b).slot \in starting'[InstOf(b).radio]
                          /\ ~SamePort(n, InstOf(b)) /\ ~SamePort(InstOf(b), n)
        OBVIOUS
      <4>1. InstOf(b).radio \in Radios /\ InstOf(b).slot \in starting[InstOf(b).radio]
        BY <1>0 DEF PortsHeld, Instances
      <4>2. InstOf(b).slot \in starting'[InstOf(b).radio]
        BY <3>2, <4>1 DEF TypeOK
      <4>3. ~SamePort(n, InstOf(b)) /\ ~SamePort(InstOf(b), n)
        BY <3>2, <4>1 DEF SamePort
      <4> QED
        BY <4>2, <4>3
    <3>8. n.slot \in starting'[n.radio] /\ \A m \in nodes : ~SamePort(m, n)
      BY <3>2 DEF TypeOK, Instances
    <3>9. \A i, j \in nodes' : SamePort(i, j) => i = j
      BY <3>3 DEF PortsHeld
    <3>10. \A b \in Requests : InStart(b)' =>
             /\ InstOf(b)'.slot \in starting'[InstOf(b)'.radio]
             /\ \A i \in nodes' : ~SamePort(i, InstOf(b)')
      BY <3>3, <3>5, <3>6, <3>7, <3>8 DEF PortsHeld
    <3>11. \A b \in Requests : \A c \in Requests \ {b} :
             InStart(b)' /\ InStart(c)' => ~SamePort(InstOf(b)', InstOf(c)')
      BY <3>5, <3>6, <3>7 DEF PortsHeld
    <3>12. \A i \in procs' : \/ i \in nodes'
                             \/ \E b \in Requests : req'[b].do \in {"add", "register", "stop"} /\ InstOf(b)' = i
      <4>1. \A b \in Requests : req[b].do \in {"add", "register", "stop"} => b # a
        BY <3>3
      <4> QED
        BY <3>3, <3>5, <4>1 DEF PortsHeld
    <3> HIDE DEF SamePort
    <3> QED
      BY <3>9, <3>10, <3>11, <3>12 DEF PortsHeld, SamePort
  <2> QED
    BY <1>4, <2>1, <2>2, Effects
<1>5. ASSUME NEW a \in Requests, StartHosted(a) PROVE PortsHeld'
  <2>1. Mine(a, "add")
    BY <1>5, GotoProps DEF StartHosted
  <2> QED
    BY <1>5, <1>0, <2>1
       DEF PortsHeld, SamePort, StartIsOwned, StopIsLast, InstOf, InStart, Mine, StartHosted,
           hostingVars, boundVars
<1>6. ASSUME NEW a \in Requests, StartFails(a) PROVE PortsHeld'
  <2>1. NotStarted(a)
    BY <1>6, Effects
  <2> QED
    BY <1>6, <1>0, <2>1
       DEF PortsHeld, SamePort, StartIsOwned, StopIsLast, InstOf, InStart, NotStarted,
           AddFailsTo, LetGo
<1>7. ASSUME NEW a \in Requests, AddIdentity(a) PROVE PortsHeld'
  <2>1. CASE NotAdded(a)
    BY <1>0, <2>1
       DEF PortsHeld, SamePort, StartIsOwned, StopIsLast, InstOf, InStart, NotAdded,
           AddFailsTo, LetGo
  <2>2. CASE Added(a)
    BY <1>0, <2>2
       DEF PortsHeld, SamePort, StartIsOwned, StopIsLast, InstOf, InStart, Added, Mine
  <2> QED
    BY <1>7, <2>1, <2>2, Effects
<1>8. ASSUME NEW a \in Requests, Register(a) PROVE PortsHeld'
  <2>1. CASE BackAgain(a)
    BY <1>0, <2>1
       DEF PortsHeld, SamePort, StartIsOwned, StopIsLast, InstOf, InStart, BackAgain, Ended,
           LetGo
  <2>2. CASE Registered(a)
    BY <1>0, <2>2
       DEF PortsHeld, SamePort, StartIsOwned, StopIsLast, InstOf, InStart, Registered, Mine,
           LetGo
  <2> QED
    BY <1>8, <2>1, <2>2, Effects
<1>9. ASSUME NEW a \in Requests, RemoveIdentity(a) PROVE PortsHeld'
  <2>1. CASE NoneRemoved(a)
    BY <1>0, <2>1
       DEF PortsHeld, SamePort, StartIsOwned, StopIsLast, InstOf, InStart, NoneRemoved, Ended
  <2>2. CASE Removed(a)
    BY <1>0, <2>2
       DEF PortsHeld, SamePort, StartIsOwned, StopIsLast, InstOf, InStart, Removed, Mine
  <2> QED
    BY <1>9, <2>1, <2>2, Effects
<1>10. ASSUME NEW a \in Requests, Unhost(a) PROVE PortsHeld'
  <2>1. Mine(a, IF req[a].inst \in nodes THEN "stop" ELSE AfterDrop(a))
    BY <1>10, GotoProps DEF Unhost
  <2> QED
    BY <1>10, <1>0, <2>1
       DEF PortsHeld, SamePort, StartIsOwned, StopIsLast, InstOf, InStart, Mine, Unhost,
           hostingVars, boundVars, AfterDrop
<1>11. ASSUME NEW a \in Requests, StopNode(a) PROVE PortsHeld'
  <2>1. Mine(a, "wipe")
    BY <1>11, GotoProps DEF StopNode
  <2> QED
    BY <1>11, <1>0, <2>1
       DEF PortsHeld, SamePort, StartIsOwned, StopIsLast, InstOf, InStart, Mine, StopNode,
           hostingVars, boundVars
<1>12. ASSUME NEW a \in Requests, Wipe(a) PROVE PortsHeld'
  <2>1. Mine(a, AfterDrop(a))
    BY <1>12, GotoProps DEF Wipe
  <2> QED
    BY <1>12, <1>0, <2>1
       DEF PortsHeld, SamePort, StartIsOwned, StopIsLast, InstOf, InStart, Mine, Wipe,
           hostingVars, boundVars, AfterDrop
<1>13. ASSUME NEW a \in Requests, Save(a) PROVE PortsHeld'
  <2>1. CASE SavedLast(a)
    BY <1>0, <2>1
       DEF PortsHeld, SamePort, StartIsOwned, StopIsLast, InstOf, InStart, SavedLast, Ended
  <2>2. CASE SavedOne(a)
    BY <1>0, <2>2
       DEF PortsHeld, SamePort, StartIsOwned, StopIsLast, InstOf, InStart, SavedOne, SavesOn
  <2> QED
    BY <1>13, <2>1, <2>2, Effects
<1>14. ASSUME NEW i \in procs, NodeConfigured(i) PROVE PortsHeld'
  BY <1>14
     DEF PortsHeld, SamePort, StartIsOwned, StopIsLast, InstOf, InStart, NodeConfigured,
         hostingVars, boundVars
<1>15. CASE Crash
  BY <1>15
     DEF PortsHeld, SamePort, StartIsOwned, StopIsLast, InstOf, InStart, Crash, Down, Idle,
         hostingVars, boundVars
<1>16. CASE Exit
  BY <1>16
     DEF PortsHeld, SamePort, StartIsOwned, StopIsLast, InstOf, InStart, Exit, Down, Idle,
         hostingVars, boundVars
<1>17. ASSUME NEW bad \in SUBSET UNION {file[r] : r \in Radios}, Start(bad) PROVE PortsHeld'
  <2>1. Fresh(ids') /\ nodes' = ids' /\ procs' = ids'
    BY <1>17, StartProps
  <2>2. UNCHANGED <<file, starting, req>> /\ reused' = {} /\ putBack' = {} /\ up' = TRUE /\ ~up
    BY <1>17 DEF Start
  <2> QED
    BY <2>1, <2>2
       DEF PortsHeld, SamePort, StartIsOwned, StopIsLast, InstOf, InStart, Fresh, Idle,
           DownIsIdle
<1>18. CASE UNCHANGED vars
  BY <1>18
     DEF PortsHeld, SamePort, StartIsOwned, StopIsLast, InstOf, InStart, vars, hostingVars,
         boundVars
<1> QED
  BY <1>1, <1>2, <1>3, <1>4, <1>5, <1>6, <1>7, <1>8, <1>9, <1>10, <1>11, <1>12, <1>13,
     <1>14, <1>15, <1>16, <1>17, <1>18
     DEF Next, Request, Handler


-----------------------------------------------------------------------------
(* Directories and files. *)

LEMMA DirsSharedStep == TypeOK /\ RequestOK /\ DownIsIdle /\ StartIsOwned /\ StopIsLast /\ PortsHeld /\ DirsShared /\ [Next]_vars => DirsShared'
<1> SUFFICES ASSUME TypeOK, RequestOK, DownIsIdle, StartIsOwned, StopIsLast, PortsHeld, DirsShared, [Next]_vars PROVE DirsShared'
  OBVIOUS
<1>0. /\ births \in Nat /\ None \notin Instances /\ \A i \in Instances : i.born \in Nat
      /\ \A b \in Requests : InstOf(b) \in Instances \cup {None}
      /\ \A b \in Requests : InStart(b) \/ req[b].do \in {"remove", "unhost", "stop", "wipe"}
                               => InstOf(b) \in Instances
      /\ ids \subseteq Instances /\ nodes \subseteq Instances /\ procs \subseteq Instances
  BY Basics
<1>1. ASSUME NEW a \in Requests, NEW k \in Keys, NEW r \in Radios, CreateIdentity(a, k, r) PROVE DirsShared'
  <2>1. Begun(a, "create", k, r, r, "slot", None)
    BY <1>1, BeginProps DEF CreateIdentity, Begun
  <2> QED
    BY <1>1, <1>0, <2>1
       DEF DirsShared, StartIsOwned, StopIsLast, InstOf, InStart, InUse, Begun, CreateIdentity
<1>2. ASSUME NEW a \in Requests, NEW i \in ids, DeleteIdentity(a, i) PROVE DirsShared'
  <2>1. Begun(a, "delete", i.key, i.radio, i.radio, "remove", i)
    BY <1>2, BeginProps DEF DeleteIdentity, Begun
  <2> QED
    BY <1>2, <1>0, <2>1
       DEF DirsShared, StartIsOwned, StopIsLast, InstOf, InStart, InUse, Begun, DeleteIdentity
<1>3. ASSUME NEW a \in Requests, NEW i \in ids, NEW q \in Radios, MoveIdentity(a, i, q) PROVE DirsShared'
  <2>1. Begun(a, "move", i.key, i.radio, q, "remove", i)
    BY <1>3, BeginProps DEF MoveIdentity, Begun
  <2> QED
    BY <1>3, <1>0, <2>1
       DEF DirsShared, StartIsOwned, StopIsLast, InstOf, InStart, InUse, Begun, MoveIdentity
<1>4. ASSUME NEW a \in Requests, ReserveSlot(a) PROVE DirsShared'
  <2>1. CASE NoSlot(a)
    BY <1>0, <2>1
       DEF DirsShared, StartIsOwned, StopIsLast, InstOf, InStart, InUse, NoSlot, AddFailsTo
  <2>2. CASE GotSlot(a)
    <3>1. PICK s \in Slots : Reserved(a, s)
      BY <2>2 DEF GotSlot
    <3> DEFINE n == NewInst(a, s)
    <3>2. /\ n \in Instances /\ n.key = req[a].key /\ n.radio = req[a].at /\ n.slot = s /\ n.born = births + 1
          /\ s \notin starting[req[a].at] /\ \A m \in nodes : ~SamePort(m, n)
          /\ births' = births + 1 /\ births' <= MaxBirths /\ putBack' = putBack
          /\ starting' = [starting EXCEPT ![req[a].at] = starting[req[a].at] \cup {s}]
          /\ \A b \in Requests \ {a} : req'[b] = req[b]
          /\ req'[a].do = "start" /\ req'[a].inst = n /\ req'[a].op = req[a].op /\ req'[a].key = req[a].key
          /\ req'[a].at = req[a].at /\ req'[a].from = req[a].from /\ req'[a].next = req[a].next
      BY <3>1 DEF Reserved
    <3>3. UNCHANGED <<up, ids, kept, file, nodes, procs, dirs, reused>> /\ req[a].do = "slot"
      BY <2>2 DEF GotSlot
    <3> HIDE DEF n
    <3> QED
      BY <1>0, <3>2, <3>3 DEF DirsShared, StartIsOwned, StopIsLast, InstOf, InStart, InUse
  <2> QED
    BY <1>4, <2>1, <2>2, Effects
<1>5. ASSUME NEW a \in Requests, StartHosted(a) PROVE DirsShared'
  <2>1. Mine(a, "add")
    BY <1>5, GotoProps DEF StartHosted
  <2> QED
    BY <1>5, <1>0, <2>1
       DEF DirsShared, StartIsOwned, StopIsLast, InstOf, InStart, InUse, Mine, StartHosted,
           hostingVars, boundVars
<1>6. ASSUME NEW a \in Requests, StartFails(a) PROVE DirsShared'
  <2>1. NotStarted(a)
    BY <1>6, Effects
  <2> QED
    BY <1>6, <1>0, <2>1
       DEF DirsShared, StartIsOwned, StopIsLast, InstOf, InStart, InUse, NotStarted,
           AddFailsTo, LetGo
<1>7. ASSUME NEW a \in Requests, AddIdentity(a) PROVE DirsShared'
  <2>1. CASE NotAdded(a)
    BY <1>0, <2>1
       DEF DirsShared, StartIsOwned, StopIsLast, InstOf, InStart, InUse, NotAdded, AddFailsTo,
           LetGo
  <2>2. CASE Added(a)
    BY <1>0, <2>2 DEF DirsShared, StartIsOwned, StopIsLast, InstOf, InStart, InUse, Added, Mine
  <2> QED
    BY <1>7, <2>1, <2>2, Effects
<1>8. ASSUME NEW a \in Requests, Register(a) PROVE DirsShared'
  <2>1. CASE BackAgain(a)
    BY <1>0, <2>1
       DEF DirsShared, StartIsOwned, StopIsLast, InstOf, InStart, InUse, BackAgain, Ended, LetGo
  <2>2. CASE Registered(a)
    BY <1>0, <2>2
       DEF DirsShared, StartIsOwned, StopIsLast, InstOf, InStart, InUse, Registered, Mine, LetGo
  <2> QED
    BY <1>8, <2>1, <2>2, Effects
<1>9. ASSUME NEW a \in Requests, RemoveIdentity(a) PROVE DirsShared'
  <2>1. CASE NoneRemoved(a)
    BY <1>0, <2>1
       DEF DirsShared, StartIsOwned, StopIsLast, InstOf, InStart, InUse, NoneRemoved, Ended
  <2>2. CASE Removed(a)
    BY <1>0, <2>2
       DEF DirsShared, StartIsOwned, StopIsLast, InstOf, InStart, InUse, Removed, Mine
  <2> QED
    BY <1>9, <2>1, <2>2, Effects
<1>10. ASSUME NEW a \in Requests, Unhost(a) PROVE DirsShared'
  <2>1. Mine(a, IF req[a].inst \in nodes THEN "stop" ELSE AfterDrop(a))
    BY <1>10, GotoProps DEF Unhost
  <2> QED
    BY <1>10, <1>0, <2>1
       DEF DirsShared, StartIsOwned, StopIsLast, InstOf, InStart, InUse, Mine, Unhost,
           hostingVars, boundVars, AfterDrop
<1>11. ASSUME NEW a \in Requests, StopNode(a) PROVE DirsShared'
  <2>1. Mine(a, "wipe")
    BY <1>11, GotoProps DEF StopNode
  <2> QED
    BY <1>11, <1>0, <2>1
       DEF DirsShared, StartIsOwned, StopIsLast, InstOf, InStart, InUse, Mine, StopNode,
           hostingVars, boundVars
<1>12. ASSUME NEW a \in Requests, Wipe(a) PROVE DirsShared'
  <2>1. Mine(a, AfterDrop(a))
    BY <1>12, GotoProps DEF Wipe
  <2> QED
    BY <1>12, <1>0, <2>1
       DEF DirsShared, StartIsOwned, StopIsLast, InstOf, InStart, InUse, Mine, Wipe,
           hostingVars, boundVars, AfterDrop
<1>13. ASSUME NEW a \in Requests, Save(a) PROVE DirsShared'
  <2>1. CASE SavedLast(a)
    BY <1>0, <2>1
       DEF DirsShared, StartIsOwned, StopIsLast, InstOf, InStart, InUse, SavedLast, Ended
  <2>2. CASE SavedOne(a)
    BY <1>0, <2>2
       DEF DirsShared, StartIsOwned, StopIsLast, InstOf, InStart, InUse, SavedOne, SavesOn
  <2> QED
    BY <1>13, <2>1, <2>2, Effects
<1>14. ASSUME NEW i \in procs, NodeConfigured(i) PROVE DirsShared'
  BY <1>14
     DEF DirsShared, StartIsOwned, StopIsLast, InstOf, InStart, InUse, NodeConfigured,
         hostingVars, boundVars
<1>15. CASE Crash
  BY <1>15
     DEF DirsShared, StartIsOwned, StopIsLast, InstOf, InStart, InUse, Crash, Down, Idle,
         hostingVars, boundVars
<1>16. CASE Exit
  BY <1>16
     DEF DirsShared, StartIsOwned, StopIsLast, InstOf, InStart, InUse, Exit, Down, Idle,
         hostingVars, boundVars
<1>17. ASSUME NEW bad \in SUBSET UNION {file[r] : r \in Radios}, Start(bad) PROVE DirsShared'
  <2>1. Fresh(ids') /\ nodes' = ids' /\ procs' = ids'
    BY <1>17, StartProps
  <2>2. UNCHANGED <<file, starting, req>> /\ reused' = {} /\ putBack' = {} /\ up' = TRUE /\ ~up
    BY <1>17 DEF Start
  <2>3. \A b \in Requests : req'[b].do = "idle"
    BY <2>2 DEF DownIsIdle, Idle
  <2>4. \A i, j \in procs' : Dir(i) = Dir(j) => i = j
    <3> SUFFICES ASSUME NEW i \in ids', NEW j \in ids', Dir(i) = Dir(j) PROVE i = j
      BY <2>1
    <3>1. i.radio = j.radio /\ i.key = j.key
      BY DEF Dir
    <3> QED
      BY <2>1, <3>1 DEF Fresh
  <2> QED
    BY <2>3, <2>4 DEF DirsShared
<1>18. CASE UNCHANGED vars
  BY <1>18
     DEF DirsShared, StartIsOwned, StopIsLast, InstOf, InStart, InUse, vars, hostingVars,
         boundVars
<1> QED
  BY <1>1, <1>2, <1>3, <1>4, <1>5, <1>6, <1>7, <1>8, <1>9, <1>10, <1>11, <1>12, <1>13,
     <1>14, <1>15, <1>16, <1>17, <1>18
     DEF Next, Request, Handler

LEMMA NodeHasItsDirStep == TypeOK /\ RequestOK /\ DownIsIdle /\ StopIsLast /\ DirsShared /\ NodeHasItsDir /\ [Next]_vars => NodeHasItsDir'
<1> SUFFICES ASSUME TypeOK, RequestOK, DownIsIdle, StopIsLast, DirsShared, NodeHasItsDir, [Next]_vars PROVE NodeHasItsDir'
  OBVIOUS
<1>0. /\ births \in Nat /\ None \notin Instances /\ \A i \in Instances : i.born \in Nat
      /\ \A b \in Requests : InstOf(b) \in Instances \cup {None}
      /\ \A b \in Requests : InStart(b) \/ req[b].do \in {"remove", "unhost", "stop", "wipe"}
                               => InstOf(b) \in Instances
      /\ ids \subseteq Instances /\ nodes \subseteq Instances /\ procs \subseteq Instances
  BY Basics
<1>1. ASSUME NEW a \in Requests, NEW k \in Keys, NEW r \in Radios, CreateIdentity(a, k, r) PROVE NodeHasItsDir'
  <2>1. Begun(a, "create", k, r, r, "slot", None)
    BY <1>1, BeginProps DEF CreateIdentity, Begun
  <2> QED
    BY <1>1, <1>0, <2>1 DEF NodeHasItsDir, DirsShared, StopIsLast, InstOf, Begun, CreateIdentity
<1>2. ASSUME NEW a \in Requests, NEW i \in ids, DeleteIdentity(a, i) PROVE NodeHasItsDir'
  <2>1. Begun(a, "delete", i.key, i.radio, i.radio, "remove", i)
    BY <1>2, BeginProps DEF DeleteIdentity, Begun
  <2> QED
    BY <1>2, <1>0, <2>1 DEF NodeHasItsDir, DirsShared, StopIsLast, InstOf, Begun, DeleteIdentity
<1>3. ASSUME NEW a \in Requests, NEW i \in ids, NEW q \in Radios, MoveIdentity(a, i, q) PROVE NodeHasItsDir'
  <2>1. Begun(a, "move", i.key, i.radio, q, "remove", i)
    BY <1>3, BeginProps DEF MoveIdentity, Begun
  <2> QED
    BY <1>3, <1>0, <2>1 DEF NodeHasItsDir, DirsShared, StopIsLast, InstOf, Begun, MoveIdentity
<1>4. ASSUME NEW a \in Requests, ReserveSlot(a) PROVE NodeHasItsDir'
  <2>1. CASE NoSlot(a)
    BY <1>0, <2>1 DEF NodeHasItsDir, DirsShared, StopIsLast, InstOf, NoSlot, AddFailsTo
  <2>2. CASE GotSlot(a)
    <3>1. PICK s \in Slots : Reserved(a, s)
      BY <2>2 DEF GotSlot
    <3> DEFINE n == NewInst(a, s)
    <3>2. /\ n \in Instances /\ n.key = req[a].key /\ n.radio = req[a].at /\ n.slot = s /\ n.born = births + 1
          /\ s \notin starting[req[a].at] /\ \A m \in nodes : ~SamePort(m, n)
          /\ births' = births + 1 /\ births' <= MaxBirths /\ putBack' = putBack
          /\ starting' = [starting EXCEPT ![req[a].at] = starting[req[a].at] \cup {s}]
          /\ \A b \in Requests \ {a} : req'[b] = req[b]
          /\ req'[a].do = "start" /\ req'[a].inst = n /\ req'[a].op = req[a].op /\ req'[a].key = req[a].key
          /\ req'[a].at = req[a].at /\ req'[a].from = req[a].from /\ req'[a].next = req[a].next
      BY <3>1 DEF Reserved
    <3>3. UNCHANGED <<up, ids, kept, file, nodes, procs, dirs, reused>> /\ req[a].do = "slot"
      BY <2>2 DEF GotSlot
    <3> HIDE DEF n
    <3> QED
      BY <1>0, <3>2, <3>3 DEF NodeHasItsDir, DirsShared, StopIsLast, InstOf
  <2> QED
    BY <1>4, <2>1, <2>2, Effects
<1>5. ASSUME NEW a \in Requests, StartHosted(a) PROVE NodeHasItsDir'
  <2>1. Mine(a, "add")
    BY <1>5, GotoProps DEF StartHosted
  <2> QED
    BY <1>5, <1>0, <2>1
       DEF NodeHasItsDir, DirsShared, StopIsLast, InstOf, Mine, StartHosted, hostingVars,
           boundVars
<1>6. ASSUME NEW a \in Requests, StartFails(a) PROVE NodeHasItsDir'
  <2>1. NotStarted(a)
    BY <1>6, Effects
  <2> QED
    BY <1>6, <1>0, <2>1
       DEF NodeHasItsDir, DirsShared, StopIsLast, InstOf, NotStarted, AddFailsTo, LetGo
<1>7. ASSUME NEW a \in Requests, AddIdentity(a) PROVE NodeHasItsDir'
  <2>1. CASE NotAdded(a)
    BY <1>0, <2>1 DEF NodeHasItsDir, DirsShared, StopIsLast, InstOf, NotAdded, AddFailsTo, LetGo
  <2>2. CASE Added(a)
    BY <1>0, <2>2 DEF NodeHasItsDir, DirsShared, StopIsLast, InstOf, Added, Mine
  <2> QED
    BY <1>7, <2>1, <2>2, Effects
<1>8. ASSUME NEW a \in Requests, Register(a) PROVE NodeHasItsDir'
  <2>1. CASE BackAgain(a)
    BY <1>0, <2>1 DEF NodeHasItsDir, DirsShared, StopIsLast, InstOf, BackAgain, Ended, LetGo
  <2>2. CASE Registered(a)
    BY <1>0, <2>2 DEF NodeHasItsDir, DirsShared, StopIsLast, InstOf, Registered, Mine, LetGo
  <2> QED
    BY <1>8, <2>1, <2>2, Effects
<1>9. ASSUME NEW a \in Requests, RemoveIdentity(a) PROVE NodeHasItsDir'
  <2>1. CASE NoneRemoved(a)
    BY <1>0, <2>1 DEF NodeHasItsDir, DirsShared, StopIsLast, InstOf, NoneRemoved, Ended
  <2>2. CASE Removed(a)
    BY <1>0, <2>2 DEF NodeHasItsDir, DirsShared, StopIsLast, InstOf, Removed, Mine
  <2> QED
    BY <1>9, <2>1, <2>2, Effects
<1>10. ASSUME NEW a \in Requests, Unhost(a) PROVE NodeHasItsDir'
  <2>1. Mine(a, IF req[a].inst \in nodes THEN "stop" ELSE AfterDrop(a))
    BY <1>10, GotoProps DEF Unhost
  <2> QED
    BY <1>10, <1>0, <2>1
       DEF NodeHasItsDir, DirsShared, StopIsLast, InstOf, Mine, Unhost, hostingVars, boundVars,
           AfterDrop
<1>11. ASSUME NEW a \in Requests, StopNode(a) PROVE NodeHasItsDir'
  <2>1. Mine(a, "wipe")
    BY <1>11, GotoProps DEF StopNode
  <2> QED
    BY <1>11, <1>0, <2>1
       DEF NodeHasItsDir, DirsShared, StopIsLast, InstOf, Mine, StopNode, hostingVars, boundVars
<1>12. ASSUME NEW a \in Requests, Wipe(a) PROVE NodeHasItsDir'
  <2>1. Mine(a, AfterDrop(a))
    BY <1>12, GotoProps DEF Wipe
  <2> QED
    BY <1>12, <1>0, <2>1
       DEF NodeHasItsDir, DirsShared, StopIsLast, InstOf, Mine, Wipe, hostingVars, boundVars,
           AfterDrop
<1>13. ASSUME NEW a \in Requests, Save(a) PROVE NodeHasItsDir'
  <2>1. CASE SavedLast(a)
    BY <1>0, <2>1 DEF NodeHasItsDir, DirsShared, StopIsLast, InstOf, SavedLast, Ended
  <2>2. CASE SavedOne(a)
    BY <1>0, <2>2 DEF NodeHasItsDir, DirsShared, StopIsLast, InstOf, SavedOne, SavesOn
  <2> QED
    BY <1>13, <2>1, <2>2, Effects
<1>14. ASSUME NEW i \in procs, NodeConfigured(i) PROVE NodeHasItsDir'
  BY <1>14
     DEF NodeHasItsDir, DirsShared, StopIsLast, InstOf, NodeConfigured, hostingVars, boundVars
<1>15. CASE Crash
  BY <1>15
     DEF NodeHasItsDir, DirsShared, StopIsLast, InstOf, Crash, Down, Idle, hostingVars,
         boundVars
<1>16. CASE Exit
  BY <1>16
     DEF NodeHasItsDir, DirsShared, StopIsLast, InstOf, Exit, Down, Idle, hostingVars, boundVars
<1>17. ASSUME NEW bad \in SUBSET UNION {file[r] : r \in Radios}, Start(bad) PROVE NodeHasItsDir'
  <2>1. Fresh(ids') /\ nodes' = ids' /\ procs' = ids'
    BY <1>17, StartProps
  <2>2. UNCHANGED <<file, starting, req>> /\ reused' = {} /\ putBack' = {} /\ up' = TRUE /\ ~up
        /\ dirs' = dirs \cup {Dir(i) : i \in ids'}
    BY <1>17 DEF Start
  <2> QED
    BY <2>1, <2>2 DEF NodeHasItsDir, DirsShared, StopIsLast, InstOf, Fresh, Idle, DownIsIdle
<1>18. CASE UNCHANGED vars
  BY <1>18 DEF NodeHasItsDir, DirsShared, StopIsLast, InstOf, vars, hostingVars, boundVars
<1> QED
  BY <1>1, <1>2, <1>3, <1>4, <1>5, <1>6, <1>7, <1>8, <1>9, <1>10, <1>11, <1>12, <1>13,
     <1>14, <1>15, <1>16, <1>17, <1>18
     DEF Next, Request, Handler

\* What a request changes it will also save, and it goes on to do so.
LEMMA FilesKept ==
  ASSUME FilesFollow, NEW a \in Requests, up, UNCHANGED file, putBack \subseteq putBack',
         \A b \in Requests \ {a} : req'[b] = req[b],
         \A r \in Radios, k \in Keys \ putBack' : WillSave(a, k, r) => WillSave(a, k, r)',
         \A r \in Radios, k \in Keys \ putBack' :
           (k \in Records(r)' <=> k \in Records(r)) \/ WillSave(a, k, r)'
  PROVE  FilesFollow'
<1> SUFFICES ASSUME NEW r \in Radios, NEW k \in Keys \ putBack', ~WillSave(a, k, r)'
             PROVE  (k \in file'[r] <=> k \in Records(r)') \/ \E b \in Requests : WillSave(b, k, r)'
  BY DEF FilesFollow
<1>1. (k \in Records(r)' <=> k \in Records(r)) /\ ~WillSave(a, k, r)
  OBVIOUS
<1>2. \A b \in Requests \ {a} : WillSave(b, k, r) => WillSave(b, k, r)'
  BY DEF WillSave
<1>3. (k \in file[r] <=> k \in Records(r)) \/ \E b \in Requests \ {a} : WillSave(b, k, r)
  BY <1>1 DEF FilesFollow
<1> HIDE DEF WillSave, Records
<1> QED
  BY <1>1, <1>2, <1>3

LEMMA SameRecords == UNCHANGED <<ids, kept>> => \A r \in Radios : Records(r)' = Records(r)
  BY DEF Records, KeysOf, On

LEMMA FilesStep == TypeOK /\ RequestOK /\ DownIsIdle /\ FilesFollow /\ [Next]_vars => FilesFollow'
<1> SUFFICES ASSUME TypeOK, RequestOK, DownIsIdle, FilesFollow, [Next]_vars PROVE FilesFollow'
  OBVIOUS
<1>1. ASSUME NEW a \in Requests, NEW k \in Keys, NEW r \in Radios, CreateIdentity(a, k, r) PROVE FilesFollow'
  <2>1. Begun(a, "create", k, r, r, "slot", None)
    BY <1>1, BeginProps DEF CreateIdentity, Begun
    <2>7. up /\ UNCHANGED file
      BY <2>1 DEF DownIsIdle, Idle, Begun
    <2>8. \A p \in Radios, e \in Keys \ putBack' : WillSave(a, e, p) => WillSave(a, e, p)'
      BY <2>1 DEF WillSave, Idle, Begun
    <2>9. \A p \in Radios, e \in Keys \ putBack' : (e \in Records(p)' <=> e \in Records(p)) \/ WillSave(a, e, p)'
      BY <2>1, SameRecords DEF Begun
  <2> QED
    BY <2>1, <2>7, <2>8, <2>9, FilesKept DEF Begun
<1>2. ASSUME NEW a \in Requests, NEW i \in ids, DeleteIdentity(a, i) PROVE FilesFollow'
  <2>1. Begun(a, "delete", i.key, i.radio, i.radio, "remove", i)
    BY <1>2, BeginProps DEF DeleteIdentity, Begun
    <2>7. up /\ UNCHANGED file
      BY <2>1 DEF DownIsIdle, Idle, Begun
    <2>8. \A p \in Radios, e \in Keys \ putBack' : WillSave(a, e, p) => WillSave(a, e, p)'
      BY <2>1 DEF WillSave, Idle, Begun
    <2>9. \A p \in Radios, e \in Keys \ putBack' : (e \in Records(p)' <=> e \in Records(p)) \/ WillSave(a, e, p)'
      BY <2>1, SameRecords DEF Begun
  <2> QED
    BY <2>1, <2>7, <2>8, <2>9, FilesKept DEF Begun
<1>3. ASSUME NEW a \in Requests, NEW i \in ids, NEW q \in Radios, MoveIdentity(a, i, q) PROVE FilesFollow'
  <2>1. Begun(a, "move", i.key, i.radio, q, "remove", i)
    BY <1>3, BeginProps DEF MoveIdentity, Begun
    <2>7. up /\ UNCHANGED file
      BY <2>1 DEF DownIsIdle, Idle, Begun
    <2>8. \A p \in Radios, e \in Keys \ putBack' : WillSave(a, e, p) => WillSave(a, e, p)'
      BY <2>1 DEF WillSave, Idle, Begun
    <2>9. \A p \in Radios, e \in Keys \ putBack' : (e \in Records(p)' <=> e \in Records(p)) \/ WillSave(a, e, p)'
      BY <2>1, SameRecords DEF Begun
  <2> QED
    BY <2>1, <2>7, <2>8, <2>9, FilesKept DEF Begun
<1>4. ASSUME NEW a \in Requests, ReserveSlot(a) PROVE FilesFollow'
  <2>1. CASE NoSlot(a)
      <3>7. up /\ UNCHANGED file
        BY <2>1 DEF DownIsIdle, Idle, NoSlot
      <3>8. \A p \in Radios, e \in Keys \ putBack' : WillSave(a, e, p) => WillSave(a, e, p)'
        BY <2>1 DEF WillSave, RequestOK, AddFailsTo, NoSlot
      <3>9. \A p \in Radios, e \in Keys \ putBack' : (e \in Records(p)' <=> e \in Records(p)) \/ WillSave(a, e, p)'
        BY <2>1, SameRecords DEF NoSlot
    <3> QED
      BY <2>1, <3>7, <3>8, <3>9, FilesKept DEF NoSlot, AddFailsTo
  <2>2. CASE GotSlot(a)
    <3>1. PICK s \in Slots : Reserved(a, s)
      BY <2>2 DEF GotSlot
      <3>7. up /\ UNCHANGED file
        BY <2>2 DEF DownIsIdle, Idle, GotSlot
      <3>8. \A p \in Radios, e \in Keys \ putBack' : WillSave(a, e, p) => WillSave(a, e, p)'
        BY <2>2, <3>1 DEF WillSave, Reserved, GotSlot
      <3>9. \A p \in Radios, e \in Keys \ putBack' : (e \in Records(p)' <=> e \in Records(p)) \/ WillSave(a, e, p)'
        BY <2>2, SameRecords DEF GotSlot
    <3> QED
      BY <2>2, <3>1, <3>7, <3>8, <3>9, FilesKept DEF GotSlot, Reserved
  <2> QED
    BY <1>4, <2>1, <2>2, Effects
<1>5. ASSUME NEW a \in Requests, StartHosted(a) PROVE FilesFollow'
  <2>1. Mine(a, "add")
    BY <1>5, GotoProps DEF StartHosted
  <2>2. req[a].key \in Keys /\ req[a].next \in Radios /\ UNCHANGED <<up, ids, kept, file, putBack>>
    BY <1>5 DEF StartHosted, RequestOK, hostingVars, boundVars
    <2>7. up /\ UNCHANGED file
      BY <1>5, <2>2 DEF DownIsIdle, Idle, StartHosted
    <2>8. \A p \in Radios, e \in Keys \ putBack' : WillSave(a, e, p) => WillSave(a, e, p)'
      BY <1>5, <2>1, <2>2, HostingAssumption
         DEF WillSave, Mine, RequestOK, Radios, StartHosted, AfterDrop
    <2>9. \A p \in Radios, e \in Keys \ putBack' : (e \in Records(p)' <=> e \in Records(p)) \/ WillSave(a, e, p)'
      BY <2>2, SameRecords
  <2> QED
    BY <2>1, <2>2, <2>7, <2>8, <2>9, FilesKept DEF Mine
<1>6. ASSUME NEW a \in Requests, StartFails(a) PROVE FilesFollow'
  <2>1. NotStarted(a)
    BY <1>6, Effects
    <2>7. up /\ UNCHANGED file
      BY <2>1 DEF DownIsIdle, Idle, NotStarted
    <2>8. \A p \in Radios, e \in Keys \ putBack' : WillSave(a, e, p) => WillSave(a, e, p)'
      BY <2>1 DEF WillSave, RequestOK, AddFailsTo, NotStarted
    <2>9. \A p \in Radios, e \in Keys \ putBack' : (e \in Records(p)' <=> e \in Records(p)) \/ WillSave(a, e, p)'
      BY <2>1, SameRecords DEF NotStarted
  <2> QED
    BY <2>1, <2>7, <2>8, <2>9, FilesKept DEF AddFailsTo, NotStarted
<1>7. ASSUME NEW a \in Requests, AddIdentity(a) PROVE FilesFollow'
  <2>1. CASE NotAdded(a)
      <3>7. up /\ UNCHANGED file
        BY <2>1 DEF DownIsIdle, Idle, NotAdded
      <3>8. \A p \in Radios, e \in Keys \ putBack' : WillSave(a, e, p) => WillSave(a, e, p)'
        BY <2>1 DEF WillSave, RequestOK, AddFailsTo, NotAdded
      <3>9. \A p \in Radios, e \in Keys \ putBack' : (e \in Records(p)' <=> e \in Records(p)) \/ WillSave(a, e, p)'
        BY <2>1, SameRecords DEF NotAdded
    <3> QED
      BY <2>1, <3>7, <3>8, <3>9, FilesKept DEF NotAdded, AddFailsTo
  <2>2. CASE Added(a)
      <3>7. up /\ UNCHANGED file
        BY <2>2 DEF DownIsIdle, Idle, Added
      <3>8. \A p \in Radios, e \in Keys \ putBack' : WillSave(a, e, p) => WillSave(a, e, p)'
        BY <2>2 DEF WillSave, Mine, Added
      <3>9. \A p \in Radios, e \in Keys \ putBack' : (e \in Records(p)' <=> e \in Records(p)) \/ WillSave(a, e, p)'
        <4>1. InstOf(a).key = req[a].key
        BY <2>2 DEF RequestOK, InStart, Added
      <4>2. \A r \in Radios, k \in Keys : k # req[a].key => (k \in Records(r)' <=> k \in Records(r))
        BY <2>2, <4>1 DEF Records, KeysOf, On, InstOf, Added
      <4>3. \A r \in Radios, k \in Keys : k = req[a].key => WillSave(a, k, r)'
        BY <2>2 DEF WillSave, Mine, Added
      <4> QED
        BY <4>2, <4>3
    <3> QED
      BY <2>2, <3>7, <3>8, <3>9, FilesKept DEF Added, Mine
  <2> QED
    BY <1>7, <2>1, <2>2, Effects
<1>8. ASSUME NEW a \in Requests, Register(a) PROVE FilesFollow'
  <2>1. CASE BackAgain(a)
      <3>7. up /\ UNCHANGED file
        BY <2>1 DEF DownIsIdle, Idle, BackAgain
      <3>8. \A p \in Radios, e \in Keys \ putBack' : WillSave(a, e, p) => WillSave(a, e, p)'
        BY <2>1 DEF WillSave, RequestOK, Ended, BackAgain
      <3>9. \A p \in Radios, e \in Keys \ putBack' : (e \in Records(p)' <=> e \in Records(p)) \/ WillSave(a, e, p)'
        BY <2>1, SameRecords DEF BackAgain
    <3> QED
      BY <2>1, <3>7, <3>8, <3>9, FilesKept DEF BackAgain, Ended
  <2>2. CASE Registered(a)
      <3>7. up /\ UNCHANGED file
        BY <2>2 DEF DownIsIdle, Idle, Registered
      <3>8. \A p \in Radios, e \in Keys \ putBack' : WillSave(a, e, p) => WillSave(a, e, p)'
        BY <2>2, HostingAssumption DEF WillSave, RequestOK, Mine, Radios, Registered
      <3>9. \A p \in Radios, e \in Keys \ putBack' : (e \in Records(p)' <=> e \in Records(p)) \/ WillSave(a, e, p)'
        BY <2>2, SameRecords DEF Registered
    <3> QED
      BY <2>2, <3>7, <3>8, <3>9, FilesKept DEF Registered, Mine
  <2> QED
    BY <1>8, <2>1, <2>2, Effects
<1>9. ASSUME NEW a \in Requests, RemoveIdentity(a) PROVE FilesFollow'
  <2>1. CASE NoneRemoved(a)
      <3>7. up /\ UNCHANGED file
        BY <2>1 DEF DownIsIdle, Idle, NoneRemoved
      <3>8. \A p \in Radios, e \in Keys \ putBack' : WillSave(a, e, p) => WillSave(a, e, p)'
        BY <2>1 DEF WillSave, NoneRemoved
      <3>9. \A p \in Radios, e \in Keys \ putBack' : (e \in Records(p)' <=> e \in Records(p)) \/ WillSave(a, e, p)'
        BY <2>1, SameRecords DEF NoneRemoved
    <3> QED
      BY <2>1, <3>7, <3>8, <3>9, FilesKept DEF NoneRemoved, Ended
  <2>2. CASE Removed(a)
      <3>7. up /\ UNCHANGED file
        BY <2>2 DEF DownIsIdle, Idle, Removed
      <3>8. \A p \in Radios, e \in Keys \ putBack' : WillSave(a, e, p) => WillSave(a, e, p)'
        BY <2>2 DEF WillSave, Removed
      <3>9. \A p \in Radios, e \in Keys \ putBack' : (e \in Records(p)' <=> e \in Records(p)) \/ WillSave(a, e, p)'
        <4>1. \A r \in Radios, k \in Keys : k # req[a].key => (k \in Records(r)' <=> k \in Records(r))
        BY <2>2 DEF Records, KeysOf, On, Removed
      <4>2. \A r \in Radios, k \in Keys : k = req[a].key => WillSave(a, k, r)'
        BY <2>2 DEF WillSave, Mine, Removed
      <4> QED
        BY <4>1, <4>2
    <3> QED
      BY <2>2, <3>7, <3>8, <3>9, FilesKept DEF Removed, Mine
  <2> QED
    BY <1>9, <2>1, <2>2, Effects
<1>10. ASSUME NEW a \in Requests, Unhost(a) PROVE FilesFollow'
  <2>1. Mine(a, IF req[a].inst \in nodes THEN "stop" ELSE AfterDrop(a))
    BY <1>10, GotoProps DEF Unhost
  <2>2. req[a].key \in Keys /\ req[a].next \in Radios /\ UNCHANGED <<up, ids, kept, file, putBack>>
    BY <1>10 DEF Unhost, RequestOK, hostingVars, boundVars
    <2>7. up /\ UNCHANGED file
      BY <1>10, <2>2 DEF DownIsIdle, Idle, Unhost
    <2>8. \A p \in Radios, e \in Keys \ putBack' : WillSave(a, e, p) => WillSave(a, e, p)'
      BY <1>10, <2>1, <2>2, HostingAssumption
         DEF WillSave, Mine, RequestOK, Radios, Unhost, AfterDrop
    <2>9. \A p \in Radios, e \in Keys \ putBack' : (e \in Records(p)' <=> e \in Records(p)) \/ WillSave(a, e, p)'
      BY <2>2, SameRecords
  <2> QED
    BY <2>1, <2>2, <2>7, <2>8, <2>9, FilesKept DEF Mine
<1>11. ASSUME NEW a \in Requests, StopNode(a) PROVE FilesFollow'
  <2>1. Mine(a, "wipe")
    BY <1>11, GotoProps DEF StopNode
  <2>2. req[a].key \in Keys /\ req[a].next \in Radios /\ UNCHANGED <<up, ids, kept, file, putBack>>
    BY <1>11 DEF StopNode, RequestOK, hostingVars, boundVars
    <2>7. up /\ UNCHANGED file
      BY <1>11, <2>2 DEF DownIsIdle, Idle, StopNode
    <2>8. \A p \in Radios, e \in Keys \ putBack' : WillSave(a, e, p) => WillSave(a, e, p)'
      BY <1>11, <2>1, <2>2, HostingAssumption
         DEF WillSave, Mine, RequestOK, Radios, StopNode, AfterDrop
    <2>9. \A p \in Radios, e \in Keys \ putBack' : (e \in Records(p)' <=> e \in Records(p)) \/ WillSave(a, e, p)'
      BY <2>2, SameRecords
  <2> QED
    BY <2>1, <2>2, <2>7, <2>8, <2>9, FilesKept DEF Mine
<1>12. ASSUME NEW a \in Requests, Wipe(a) PROVE FilesFollow'
  <2>1. Mine(a, AfterDrop(a))
    BY <1>12, GotoProps DEF Wipe
  <2>2. req[a].key \in Keys /\ req[a].next \in Radios /\ UNCHANGED <<up, ids, kept, file, putBack>>
    BY <1>12 DEF Wipe, RequestOK, hostingVars, boundVars
    <2>7. up /\ UNCHANGED file
      BY <1>12, <2>2 DEF DownIsIdle, Idle, Wipe
    <2>8. \A p \in Radios, e \in Keys \ putBack' : WillSave(a, e, p) => WillSave(a, e, p)'
      BY <1>12, <2>1, <2>2, HostingAssumption
         DEF WillSave, Mine, RequestOK, Radios, Wipe, AfterDrop
    <2>9. \A p \in Radios, e \in Keys \ putBack' : (e \in Records(p)' <=> e \in Records(p)) \/ WillSave(a, e, p)'
      BY <2>2, SameRecords
  <2> QED
    BY <2>1, <2>2, <2>7, <2>8, <2>9, FilesKept DEF Mine
<1>13. ASSUME NEW a \in Requests, Save(a) PROVE FilesFollow'
  <2>1. CASE SavedLast(a)
    <3>2. req[a].next \in 1..NRadios /\ NRadios \in Nat
      BY <2>1, HostingAssumption DEF RequestOK, Radios, SavedLast
    <3> SUFFICES ASSUME up', NEW r \in Radios, NEW k \in Keys \ putBack'
                 PROVE  (k \in file'[r] <=> k \in Records(r)') \/ \E b \in Requests : WillSave(b, k, r)'
      BY DEF FilesFollow
    <3>3. Records(r)' = Records(r) /\ up /\ k \in Keys \ putBack
      BY <2>1, SameRecords DEF SavedLast
    <3>4. CASE r = req[a].next
      BY <2>1, <3>3, <3>4 DEF TypeOK, SavedLast
    <3>5. CASE r # req[a].next
      <4>1. file'[r] = file[r]
        BY <2>1, <3>5 DEF TypeOK, SavedLast
      <4>2. \A b \in Requests \ {a} : WillSave(b, k, r) => WillSave(b, k, r)'
        BY <2>1 DEF WillSave, Ended, SavedLast
      <4>3. WillSave(a, k, r) => WillSave(a, k, r)'
        BY <2>1, <3>2, <3>5 DEF WillSave, Ended, Radios, SavedLast
      <4>4. (k \in file[r] <=> k \in Records(r)) \/ \E b \in Requests : WillSave(b, k, r)
        BY <3>3 DEF FilesFollow
      <4> QED
        BY <3>3, <4>1, <4>2, <4>3, <4>4
    <3> QED
      BY <3>4, <3>5
  <2>2. CASE SavedOne(a)
    <3>2. req[a].next \in 1..NRadios /\ NRadios \in Nat
      BY <2>2, HostingAssumption DEF RequestOK, Radios, SavedOne
    <3> SUFFICES ASSUME up', NEW r \in Radios, NEW k \in Keys \ putBack'
                 PROVE  (k \in file'[r] <=> k \in Records(r)') \/ \E b \in Requests : WillSave(b, k, r)'
      BY DEF FilesFollow
    <3>3. Records(r)' = Records(r) /\ up /\ k \in Keys \ putBack
      BY <2>2, SameRecords DEF SavedOne
    <3>4. CASE r = req[a].next
      BY <2>2, <3>3, <3>4 DEF TypeOK, SavedOne
    <3>5. CASE r # req[a].next
      <4>1. file'[r] = file[r]
        BY <2>2, <3>5 DEF TypeOK, SavedOne
      <4>2. \A b \in Requests \ {a} : WillSave(b, k, r) => WillSave(b, k, r)'
        BY <2>2 DEF WillSave, SavesOn, SavedOne
      <4>3. WillSave(a, k, r) => WillSave(a, k, r)'
        BY <2>2, <3>2, <3>5 DEF WillSave, SavesOn, Radios, SavedOne
      <4>4. (k \in file[r] <=> k \in Records(r)) \/ \E b \in Requests : WillSave(b, k, r)
        BY <3>3 DEF FilesFollow
      <4> QED
        BY <3>3, <4>1, <4>2, <4>3, <4>4
    <3> QED
      BY <3>4, <3>5
  <2> QED
    BY <1>13, <2>1, <2>2, Effects
<1>14. ASSUME NEW i \in procs, NodeConfigured(i) PROVE FilesFollow'
  <2>1. \A r \in Radios : Records(r)' = Records(r)
    BY <1>14, SameRecords DEF NodeConfigured
  <2>2. i.radio \in Radios
    BY DEF TypeOK, Instances
  <2>3. \A b \in Requests, k \in Keys, r \in Radios : WillSave(b, k, r) => WillSave(b, k, r)'
    BY <1>14 DEF NodeConfigured, WillSave
  <2>4. \A r \in Radios : file'[r] = IF r = i.radio THEN Records(r) ELSE file[r]
    BY <1>14 DEF NodeConfigured, TypeOK
  <2>5. up' = up /\ putBack' = putBack
    BY <1>14 DEF NodeConfigured
  <2> QED
    BY <2>1, <2>3, <2>4, <2>5 DEF FilesFollow
<1>15. CASE Crash
  BY <1>15 DEF FilesFollow, Crash, Down
<1>16. CASE Exit
  BY <1>16 DEF FilesFollow, Exit, Down
<1>17. ASSUME NEW bad \in SUBSET UNION {file[r] : r \in Radios}, Start(bad) PROVE FilesFollow'
  <2>1. \A r \in Radios : KeysOf(On(ids', r)) = file[r] \ bad
    BY <1>17, StartProps
  <2>2. file' = file /\ kept' = [r \in Radios |-> file[r] \cap bad]
    BY <1>17 DEF Start
  <2>3. \A r \in Radios : Records(r)' = file'[r]
    BY <2>1, <2>2 DEF Records
  <2> QED
    BY <2>3 DEF FilesFollow
<1>18. CASE UNCHANGED vars
  <2>1. UNCHANGED <<up, ids, kept, file, req, putBack>>
    BY <1>18 DEF vars
  <2> QED
    BY <2>1 DEF FilesFollow, WillSave, Records, KeysOf, On
<1> QED
  BY <1>1, <1>2, <1>3, <1>4, <1>5, <1>6, <1>7, <1>8, <1>9, <1>10, <1>11, <1>12, <1>13,
     <1>14, <1>15, <1>16, <1>17, <1>18
     DEF Next, Request, Handler


-----------------------------------------------------------------------------
(* Theorems. *)

LEMMA HostingInitInv == Init => IInv
<1> SUFFICES ASSUME Init PROVE IInv
  OBVIOUS
<1>1. /\ up = FALSE /\ ids = {} /\ nodes = {} /\ procs = {} /\ dirs = {} /\ reused = {} /\ putBack = {}
      /\ births = 0 /\ fails = 0 /\ starts = 0
      /\ \A a \in Requests : /\ req[a] = Idle /\ req[a].do = "idle" /\ req[a].op = "none"
                             /\ req[a].inst = None
  BY DEF Init, Idle
<1>2. Idle \in Progress
  BY HostingAssumption DEF Idle, Progress
<1>3. TypeOK
  <2>1. req \in [Requests -> Progress]
    BY <1>2 DEF Init
  <2>2. births \in 0..MaxBirths /\ fails \in 0..MaxFails /\ starts \in 0..MaxStarts
    BY <1>1, HostingAssumption
  <2>3. file \in [Radios -> SUBSET Keys] /\ kept \in [Radios -> SUBSET Keys]
        /\ starting \in [Radios -> SUBSET Slots]
    BY DEF Init
  <2> QED
    BY <1>1, <2>1, <2>2, <2>3 DEF TypeOK
<1>4. RequestOK /\ DownIsIdle /\ BornBefore
  BY <1>1 DEF RequestOK, DownIsIdle, BornBefore, InStart, InstOf
<1>5. StartIsOwned /\ StopIsLast /\ IdentityHasItsNode
  BY <1>1 DEF StartIsOwned, StopIsLast, IdentityHasItsNode, InstOf
<1>6. PortsHeld /\ DirsShared /\ NodeHasItsDir /\ FilesFollow
  BY <1>1 DEF PortsHeld, DirsShared, NodeHasItsDir, FilesFollow, InStart
<1> QED
  BY <1>3, <1>4, <1>5, <1>6 DEF IInv

LEMMA HostingIInvStep == IInv /\ [Next]_vars => IInv'
  BY HostingTypeStep, RequestStep, DownStep, BornStep, OwnedStep, StopStep,
     IdentityHasItsNodeStep, PortsStep, DirsSharedStep, NodeHasItsDirStep, FilesStep
     DEF IInv

\* What requests, tables, nodes, directories and files keep true together.
THEOREM HostingInductive == Spec => []IInv
  BY HostingInitInv, HostingIInvStep, PTL DEF Spec

\* The variables have their types; a radio's table never shows one key twice.
THEOREM HostingTypeCorrect == Spec => []TypeOK
<1>1. IInv => TypeOK
  BY DEF IInv
<1> QED
  BY <1>1, HostingInductive, PTL

\* Every identity a host shows has its meshtasticd running: AddIdentity shows it after its
\* start, and Unhost stops a node only after RemoveIdentity.
THEOREM HostingIdentityHasItsNode == Spec => []IdentityHasItsNode
<1>1. IInv => IdentityHasItsNode
  BY DEF IInv
<1> QED
  BY <1>1, HostingInductive, PTL

\* Two nodes of a radio have one port only while Unhost, which freed it, still stops one.
THEOREM HostingPortsClashOnlyWhileStopping == Spec => []PortsClashOnlyWhileStopping
<1>1. IInv => PortsClashOnlyWhileStopping
  <2> SUFFICES ASSUME IInv, NEW i \in procs, NEW j \in procs, i # j, SamePort(i, j),
                      \A a \in Requests : ~(req[a].do = "stop" /\ InstOf(a) \in {i, j})
               PROVE  FALSE
    BY DEF PortsClashOnlyWhileStopping, SamePort, InstOf
  <2> DEFINE Held(n) == n \in nodes
             Started(n) == \E a \in Requests : InStart(a) /\ InstOf(a) = n
  <2>1. (Held(i) \/ Started(i)) /\ (Held(j) \/ Started(j))
    BY DEF IInv, PortsHeld, InStart
  <2>2. ~(Held(i) /\ Held(j))
    BY DEF IInv, PortsHeld
  <2>3. \A m, n : SamePort(m, n) => SamePort(n, m)
    BY DEF SamePort
  <2>4. ~(Held(i) /\ Started(j)) /\ ~(Started(i) /\ Held(j))
    BY <2>3 DEF IInv, PortsHeld
  <2>5. ~(Started(i) /\ Started(j))
    BY DEF IInv, PortsHeld
  <2> QED
    BY <2>1, <2>2, <2>4, <2>5
<1> QED
  BY <1>1, HostingInductive, PTL

\* Unhost removes no running node's directory, but where a second node for the key was
\* started before the first one's directory was gone.
THEOREM HostingNodeHasItsDir == Spec => []NodeHasItsDir
<1>1. IInv => NodeHasItsDir
  BY DEF IInv
<1> QED
  BY <1>1, HostingInductive, PTL

\* When no request is under way, identities.json of every radio says what its table says,
\* whatever requests ran side by side: each saves every radio after what it changed.
THEOREM HostingFilesAreCurrent == Spec => []FilesAreCurrent
<1>1. IInv => FilesAreCurrent
  <2> SUFFICES ASSUME IInv, up, \A a \in Requests : req[a] = Idle,
                      NEW r \in Radios, NEW k \in Keys \ putBack
               PROVE  k \in file[r] <=> k \in Records(r)
    BY DEF FilesAreCurrent
  <2>1. \A a \in Requests : ~WillSave(a, k, r)
    BY DEF WillSave, Idle
  <2> HIDE DEF Records
  <2> QED
    BY <2>1 DEF IInv, FilesFollow
<1> QED
  BY <1>1, HostingInductive, PTL
=============================================================================
