----------------------------- MODULE LinksProofs -----------------------------
(***************************************************************************)
(* What modules History and Links promise, for any packets, connections    *)
(* and settings: a packet is news once, a broker gets it once, and traffic *)
(* crosses between connections, or onto the air, only where they allow it. *)
(***************************************************************************)
EXTENDS Links, SequenceTheorems, FiniteSetTheorems, TLAPS

\* No packet has two entries, and an entry is as old as the ghost says.
Unique(h) == \A i, j \in 1..Len(h) : h[i].key = h[j].key => i = j
FilterOK(h) == h \in Seq(Entries) /\ Len(h) <= Cap /\ Unique(h)
AgesAgree == \A i \in 1..Len(hist) : hist[i].key \in Readable => hist[i].age = news[hist[i].key]

\* k has an entry, and only packets of F have one in front of it.
Placed(h, k, F) ==
  \E i \in 1..Len(h) : h[i].key = k /\ \A m \in 1..(i - 1) : h[m].key \in F

\* What was new and is not to be forgotten yet has its entry, behind fresher packets only.
Remembered ==
  \A k \in Readable :
    /\ IsFiniteSet(fresher[k])
    /\ news[k] <= HistTTL /\ Cardinality(fresher[k]) < Cap => Placed(hist, k, fresher[k])

\* The hosted nodes got a packet that is known from brokers only with a hop limit that leaves
\* it, once relayed, the hops one of its connections allows.
NearByConsent ==
  \A k \in Foreign \ heard : near[k] > 0 =>
    \E l \in came[k] \cap RelayMQTT : near[k] <= RelayHops[l] + 1

\* Origins names a connection the packet came from, and a receiver that holds a packet
\* known from brokers only knows that it did.
FromBrokers ==
  /\ \A k \in Foreign : origins[k] # None => origins[k].link \in came[k]
  /\ \A r \in Receivers : job[r] # None /\ job[r].key \in Foreign \ plain => job[r].via

\* What was published lately is still marked, and the mark is no older.
SentIsMarked ==
  \A l \in Conns, k \in Keys : <<l, k>> \in DOMAIN sent =>
    <<Dest[l], k>> \in DOMAIN uplinked /\ uplinked[<<Dest[l], k>>] <= sent[<<l, k>>].age

IInv == /\ TypeOK /\ Unique(hist) /\ AgesAgree /\ Remembered
        /\ NearByConsent /\ AirOnlyByConsent /\ FromBrokers /\ SentIsMarked /\ OncePerBroker

-----------------------------------------------------------------------------
(* Lemmas about the duplicate filter. *)

LEMMA PlaceProps ==
  ASSUME NEW h \in Seq(Entries), NEW k, Knows(h, k)
  PROVE  Place(h, k) \in 1..Len(h) /\ h[Place(h, k)].key = k
<1>1. DOMAIN h = 1..Len(h)
  BY LenProperties
<1> QED
  BY <1>1 DEF Knows, Place

\* Entries behind the removed one move up by one.
LEMMA WithoutProps ==
  ASSUME NEW h, FilterOK(h), NEW k
  PROVE  LET w == Without(h, k)
         IN  /\ FilterOK(w) /\ \A i \in 1..Len(w) : w[i].key # k
             /\ Len(w) = IF Knows(h, k) THEN Len(h) - 1 ELSE Len(h)
             /\ \A i \in 1..Len(w) :
                  w[i] = IF Knows(h, k) /\ i >= Place(h, k) THEN h[i + 1] ELSE h[i]
<1> DEFINE w == Without(h, k)
           p == Place(h, k)
           n == Len(h)
<1>1. h \in Seq(Entries) /\ n \in Nat /\ n <= Cap /\ Cap \in Nat /\ DOMAIN h = 1..n
  BY LenProperties, HistoryAssumption DEF FilterOK
<1>2. CASE ~Knows(h, k)
  BY <1>1, <1>2 DEF FilterOK, Without, Knows
<1>3. CASE Knows(h, k)
  <2> DEFINE s == SubSeq(h, 1, p - 1)
             t == SubSeq(h, p + 1, n)
  <2>1. p \in 1..n /\ h[p].key = k
    BY <1>1, <1>3, PlaceProps
  <2> HIDE DEF p
  <2>2. /\ s \in Seq(Entries) /\ Len(s) = p - 1 /\ \A i \in 1..(p - 1) : s[i] = h[i]
    <3>1. \A i \in 1..(p - 1) : h[i] \in Entries
      BY <1>1, <2>1, ElementOfSeq
    <3>2. /\ SubSeq(h, 1, p - 1) \in Seq(Entries)
          /\ Len(SubSeq(h, 1, p - 1)) = IF 1 <= p - 1 THEN (p - 1) - 1 + 1 ELSE 0
          /\ \A i \in 1..((p - 1) - 1 + 1) : SubSeq(h, 1, p - 1)[i] = h[1 + i - 1]
      BY <1>1, <2>1, <3>1, SubSeqProperties
    <3> QED
      BY <1>1, <2>1, <3>2
  <2>3. /\ t \in Seq(Entries) /\ Len(t) = n - p /\ \A i \in 1..(n - p) : t[i] = h[p + i]
    <3>1. \A i \in (p + 1)..n : h[i] \in Entries
      BY <1>1, <2>1, ElementOfSeq
    <3>2. /\ t \in Seq(Entries)
          /\ Len(t) = IF p + 1 <= n THEN n - (p + 1) + 1 ELSE 0
          /\ \A i \in 1..(n - (p + 1) + 1) : t[i] = h[(p + 1) + i - 1]
      BY <1>1, <2>1, <3>1, SubSeqProperties
    <3> HIDE DEF t
    <3>3. Len(t) = n - p /\ n - (p + 1) + 1 = n - p
      <4>1. n \in Int /\ p \in Int /\ p <= n
        BY <1>1, <2>1
      <4> HIDE DEF n
      <4>2. n - (p + 1) + 1 = n - p /\ (~(p + 1 <= n) => n - p = 0)
        BY <4>1
      <4> QED
        BY <3>2, <4>2
    <3>4. \A i \in 1..(n - p) : (p + 1) + i - 1 = p + i
      BY <1>1, <2>1
    <3> QED
      BY <3>2, <3>3, <3>4
  <2>4. w = s \o t
    BY <1>3 DEF Without, p
  <2> HIDE DEF w, s, t
  <2>4a. /\ s \o t \in Seq(Entries) /\ Len(s \o t) = Len(s) + Len(t)
        /\ \A i \in 1..(Len(s) + Len(t)) : (s \o t)[i] = IF i <= Len(s) THEN s[i] ELSE t[i - Len(s)]
    BY <2>2, <2>3, ConcatProperties
  <2>5. w \in Seq(Entries) /\ Len(w) = n - 1
    BY <1>1, <2>1, <2>2, <2>3, <2>4, <2>4a
  <2>6. \A i \in 1..(n - 1) : w[i] = IF i >= p THEN h[i + 1] ELSE h[i]
    BY <1>1, <2>1, <2>2, <2>3, <2>4, <2>4a
  <2>7. Unique(h)
    BY DEF FilterOK
  <2>8. \A i \in 1..Len(w) : w[i].key # k
    BY <1>1, <2>1, <2>5, <2>6, <2>7 DEF Unique
  <2>9. Unique(w)
    <3> SUFFICES ASSUME NEW i \in 1..(n - 1), NEW j \in 1..(n - 1), w[i].key = w[j].key PROVE i = j
      BY <2>5 DEF Unique
    <3> DEFINE up(m) == IF m >= p THEN m + 1 ELSE m
    <3>1. w[i] = h[up(i)] /\ w[j] = h[up(j)] /\ up(i) \in 1..n /\ up(j) \in 1..n
      BY <1>1, <2>1, <2>6
    <3>2. up(i) = up(j)
      BY <2>7, <3>1 DEF Unique
    <3> QED
      BY <1>1, <2>1, <3>2
  <2>10. FilterOK(w)
    BY <1>1, <2>5, <2>9 DEF FilterOK
  <2> QED
    BY <1>3, <2>5, <2>6, <2>8, <2>10 DEF w, p
<1> QED
  BY <1>2, <1>3

LEMMA PushProps ==
  ASSUME NEW w, w \in Seq(Entries), Unique(w), NEW e \in Entries, \A i \in 1..Len(w) : w[i].key # e.key
  PROVE  LET g == <<e>> \o w
         IN  /\ g \in Seq(Entries) /\ Unique(g) /\ Len(g) = Len(w) + 1
             /\ g[1] = e /\ \A i \in 2..Len(g) : g[i] = w[i - 1]
<1> DEFINE g == <<e>> \o w
<1>1. Len(w) \in Nat /\ <<e>> \in Seq(Entries) /\ Len(<<e>>) = 1 /\ <<e>>[1] = e
  BY LenProperties
<1>2. /\ g \in Seq(Entries) /\ Len(g) = Len(w) + 1
      /\ \A i \in 1..(Len(w) + 1) : g[i] = IF i <= 1 THEN <<e>>[i] ELSE w[i - 1]
  BY <1>1, ConcatProperties
<1> HIDE DEF g
<1>3. g[1] = e /\ \A i \in 2..Len(g) : g[i] = w[i - 1]
  BY <1>1, <1>2
<1>4. Unique(g)
  <2> SUFFICES ASSUME NEW i \in 1..Len(g), NEW j \in 1..Len(g), g[i].key = g[j].key PROVE i = j
    BY DEF Unique
  <2>1. CASE i # 1 /\ j # 1
    <3>1. i - 1 \in 1..Len(w) /\ j - 1 \in 1..Len(w) /\ w[i - 1].key = w[j - 1].key
      BY <1>1, <1>2, <1>3, <2>1
    <3> QED
      BY <1>1, <3>1 DEF Unique
  <2>2. \A m \in 1..Len(g) : m # 1 => g[m].key # g[1].key
    <3> SUFFICES ASSUME NEW m \in 1..Len(g), m # 1 PROVE g[m].key # g[1].key
      OBVIOUS
    <3>1. m - 1 \in 1..Len(w) /\ g[m] = w[m - 1]
      BY <1>1, <1>2, <1>3
    <3> QED
      BY <1>3, <3>1
  <2> QED
    BY <1>1, <1>2, <2>1, <2>2
<1> QED
  BY <1>2, <1>3, <1>4 DEF g

LEMMA AddProps ==
  ASSUME NEW w, FilterOK(w), NEW k \in Keys, \A i \in 1..Len(w) : w[i].key # k
  PROVE  LET a == Add(w, k)
         IN  /\ FilterOK(a) /\ Len(a) = (IF Len(w) < Cap THEN Len(w) + 1 ELSE Cap)
             /\ a[1] = [key |-> k, age |-> 0] /\ \A i \in 2..Len(a) : a[i] = w[i - 1]
<1> DEFINE e == [key |-> k, age |-> 0]
           g == <<e>> \o w
           a == Add(w, k)
<1>1. w \in Seq(Entries) /\ Unique(w) /\ Len(w) <= Cap /\ Len(w) \in Nat /\ Cap \in Nat \ {0}
  BY LenProperties, HistoryAssumption DEF FilterOK
<1>2. e \in Entries /\ e.key = k
  BY HistoryAssumption DEF Entries
<1>3. /\ g \in Seq(Entries) /\ Unique(g) /\ Len(g) = Len(w) + 1
      /\ g[1] = e /\ \A i \in 2..Len(g) : g[i] = w[i - 1]
  <2> HIDE DEF e
  <2> QED
    BY <1>1, <1>2, PushProps
<1>4. a = IF Len(g) > Cap THEN SubSeq(g, 1, Cap) ELSE g
  BY DEF Add
<1> HIDE DEF g, e, a
<1>5. CASE Len(w) < Cap
  BY <1>1, <1>3, <1>4, <1>5 DEF FilterOK, a, e
<1>6. CASE ~(Len(w) < Cap)
  <2>1. \A i \in 1..Cap : g[i] \in Entries
    BY <1>1, <1>3, <1>6, ElementOfSeq
  <2>2. /\ SubSeq(g, 1, Cap) \in Seq(Entries)
        /\ Len(SubSeq(g, 1, Cap)) = IF 1 <= Cap THEN Cap - 1 + 1 ELSE 0
        /\ \A i \in 1..(Cap - 1 + 1) : SubSeq(g, 1, Cap)[i] = g[1 + i - 1]
    BY <1>1, <2>1, SubSeqProperties
  <2>3. a \in Seq(Entries) /\ Len(a) = Cap /\ Cap < Len(g) /\ \A i \in 1..Cap : a[i] = g[i]
    BY <1>1, <1>3, <1>4, <1>6, <2>2
  <2>4. Unique(a)
    BY <1>1, <1>3, <2>3 DEF Unique
  <2> QED
    BY <1>1, <1>3, <1>6, <2>3, <2>4 DEF FilterOK, a, e
<1> QED
  BY <1>5, <1>6

\* The packets in front of a place are as many as the place says, and all of F.
LEMMA InFront ==
  ASSUME NEW h \in Seq(Entries), Unique(h), NEW n \in Nat, n <= Len(h), NEW F, IsFiniteSet(F),
         \A m \in 1..n : h[m].key \in F
  PROVE  n <= Cardinality(F)
<1> DEFINE f == [m \in 1..n |-> h[m].key]
<1>1. Len(h) \in Nat
  BY LenProperties
<1>2. f \in Injection(1..n, F)
  BY <1>1 DEF Injection, IsInjective, Unique
<1>3. Cardinality(1..n) <= Cardinality(F)
  BY <1>2, FS_Injection
<1>4. Cardinality(1..n) = n
  BY FS_Interval
<1> QED
  BY <1>3, <1>4

\* Another packet's new entry pushes out none that has few enough in front.
LEMMA AddKeeps ==
  ASSUME NEW w, FilterOK(w), NEW k \in Keys, \A i \in 1..Len(w) : w[i].key # k,
         NEW j, NEW F, IsFiniteSet(F), Placed(w, j, F), Cardinality(F \cup {k}) < Cap
  PROVE  Placed(Add(w, k), j, F \cup {k})
<1> DEFINE e == [key |-> k, age |-> 0]
           g == <<e>> \o w
           a == Add(w, k)
           F1 == F \cup {k}
<1>1. PICK i \in 1..Len(w) : w[i].key = j /\ \A m \in 1..(i - 1) : w[m].key \in F
  BY DEF Placed
<1>2. w \in Seq(Entries) /\ Unique(w) /\ Len(w) \in Nat /\ Cap \in Nat \ {0}
  BY LenProperties, HistoryAssumption DEF FilterOK
<1>3. e \in Entries /\ e.key = k
  BY HistoryAssumption DEF Entries
<1>4. IsFiniteSet(F1) /\ Cardinality(F1) \in Nat /\ Cardinality(F1) < Cap
  BY FS_AddElement, FS_CardinalityType
<1>5. Len(a) = (IF Len(w) < Cap THEN Len(w) + 1 ELSE Cap) /\ a[1] = e /\ \A m \in 2..Len(a) : a[m] = w[m - 1]
  BY AddProps
<1> HIDE DEF a, e, F1
<1>6. g \in Seq(Entries) /\ Unique(g) /\ Len(g) = Len(w) + 1 /\ g[1] = e /\ \A m \in 2..Len(g) : g[m] = w[m - 1]
  BY <1>2, <1>3, PushProps
<1> HIDE DEF g
<1>7. \A m \in 1..i : g[m].key \in F1
  <2> SUFFICES ASSUME NEW m \in 1..i PROVE g[m].key \in F1
    OBVIOUS
  <2>1. CASE m = 1
    BY <1>3, <1>6, <2>1 DEF F1
  <2>2. CASE m # 1
    <3>1. m \in 2..Len(g) /\ m - 1 \in 1..(i - 1)
      BY <1>2, <1>6, <2>2
    <3> QED
      BY <1>1, <1>6, <3>1 DEF F1
  <2> QED
    BY <2>1, <2>2
<1>8. i <= Cardinality(F1)
  <2>1. i \in Nat /\ i <= Len(g)
    BY <1>2, <1>6
  <2> QED
    BY <1>4, <1>6, <1>7, <2>1, InFront
<1>9. i + 1 \in 2..Len(a)
  BY <1>2, <1>4, <1>5, <1>8
<1>10. a[i + 1].key = j /\ \A m \in 1..i : a[m] = g[m]
  BY <1>1, <1>2, <1>5, <1>6, <1>9
<1>11. \A m \in 1..((i + 1) - 1) : a[m].key \in F1
  BY <1>2, <1>7, <1>10
<1>12. Placed(a, j, F1)
  BY <1>9, <1>10, <1>11 DEF Placed
<1> QED
  BY <1>12 DEF a, F1

LEMMA WithoutKeeps ==
  ASSUME NEW h, FilterOK(h), NEW k, NEW j, j # k, NEW F, Placed(h, j, F)
  PROVE  Placed(Without(h, k), j, F)
<1> DEFINE w == Without(h, k)
           p == Place(h, k)
<1>1. PICK i \in 1..Len(h) : h[i].key = j /\ \A m \in 1..(i - 1) : h[m].key \in F
  BY DEF Placed
<1>2. /\ Len(w) = IF Knows(h, k) THEN Len(h) - 1 ELSE Len(h)
      /\ \A m \in 1..Len(w) : w[m] = IF Knows(h, k) /\ m >= p THEN h[m + 1] ELSE h[m]
  BY WithoutProps
<1>3. Len(h) \in Nat /\ (Knows(h, k) => p \in 1..Len(h) /\ h[p].key = k)
  BY LenProperties, PlaceProps DEF FilterOK
<1> HIDE DEF w, p
<1>4. CASE Knows(h, k) /\ p < i
  <2>1. i - 1 \in 1..Len(w) /\ w[i - 1].key = j
    BY <1>1, <1>2, <1>3, <1>4
  <2>2. \A m \in 1..((i - 1) - 1) : w[m].key \in F
    BY <1>1, <1>2, <1>3, <1>4
  <2> QED
    BY <2>1, <2>2 DEF Placed, w
<1>5. CASE ~Knows(h, k) \/ i < p
  <2>1. i \in 1..Len(w) /\ w[i].key = j
    BY <1>1, <1>2, <1>3, <1>5
  <2>2. \A m \in 1..(i - 1) : w[m].key \in F
    BY <1>1, <1>2, <1>3, <1>5
  <2> QED
    BY <2>1, <2>2 DEF Placed, w
<1> QED
  BY <1>1, <1>3, <1>4, <1>5

LEMMA AddIsNew ==
  ASSUME NEW w, FilterOK(w), NEW k \in Keys, \A i \in 1..Len(w) : w[i].key # k
  PROVE  /\ FilterOK(Add(w, k)) /\ Placed(Add(w, k), k, {})
         /\ \A i \in 1..Len(Add(w, k)) :
              \/ Add(w, k)[i] = [key |-> k, age |-> 0]
              \/ \E m \in 1..Len(w) : Add(w, k)[i] = w[m]
<1> DEFINE a == Add(w, k)
<1>1. /\ FilterOK(a) /\ Len(a) = (IF Len(w) < Cap THEN Len(w) + 1 ELSE Cap)
      /\ a[1] = [key |-> k, age |-> 0] /\ \A i \in 2..Len(a) : a[i] = w[i - 1]
  BY AddProps
<1> HIDE DEF a
<1>2. Len(w) \in Nat /\ Cap \in Nat \ {0} /\ Len(w) <= Cap
  BY LenProperties, HistoryAssumption DEF FilterOK
<1>3. 1 \in 1..Len(a) /\ a[1].key = k
  BY <1>1, <1>2
<1>4. Placed(a, k, {})
  BY <1>3 DEF Placed
<1>5. \A i \in 1..Len(a) : a[i] = [key |-> k, age |-> 0] \/ \E m \in 1..Len(w) : a[i] = w[m]
  <2> SUFFICES ASSUME NEW i \in 1..Len(a), i # 1 PROVE \E m \in 1..Len(w) : a[i] = w[m]
    BY <1>1
  <2>1. i - 1 \in 1..Len(w) /\ a[i] = w[i - 1]
    BY <1>1, <1>2
  <2> QED
    BY <2>1
<1> QED
  BY <1>1, <1>4, <1>5 DEF a

\* A packet heard again comes to the front, and no entry is lost.
LEMMA MovedToFront ==
  ASSUME NEW h, FilterOK(h), NEW k, Knows(h, k)
  PROVE  LET o == <<h[Place(h, k)]>> \o Without(h, k)
         IN  /\ FilterOK(o) /\ Placed(o, k, {})
             /\ \A i \in 1..Len(o) : \E m \in 1..Len(h) : o[i] = h[m]
             /\ \A j, F : j # k /\ Placed(h, j, F) => Placed(o, j, F \cup {k})
<1> DEFINE p == Place(h, k)
           w == Without(h, k)
           e == h[p]
           o == <<e>> \o w
<1>1. h \in Seq(Entries) /\ Len(h) \in Nat /\ Len(h) <= Cap /\ p \in 1..Len(h) /\ e.key = k /\ e \in Entries
  BY LenProperties, PlaceProps, ElementOfSeq DEF FilterOK
<1>2. /\ FilterOK(w) /\ (\A i \in 1..Len(w) : w[i].key # k) /\ Len(w) = Len(h) - 1
      /\ \A i \in 1..Len(w) : w[i] = IF i >= p THEN h[i + 1] ELSE h[i]
  BY WithoutProps
<1>3. \A j, F : j # k /\ Placed(h, j, F) => Placed(w, j, F)
  BY WithoutKeeps
<1> HIDE DEF p, w, e
<1>4. /\ o \in Seq(Entries) /\ Unique(o) /\ Len(o) = Len(w) + 1
      /\ o[1] = e /\ \A i \in 2..Len(o) : o[i] = w[i - 1]
  BY <1>1, <1>2, PushProps DEF FilterOK
<1> HIDE DEF o
<1>5. FilterOK(o) /\ Len(o) = Len(h)
  BY <1>1, <1>2, <1>4 DEF FilterOK
<1>6. Placed(o, k, {})
  <2>1. 1 \in 1..Len(o) /\ o[1].key = k
    BY <1>1, <1>4, <1>5
  <2> QED
    BY <2>1 DEF Placed
<1>7. ASSUME NEW i \in 1..Len(o) PROVE \E m \in 1..Len(h) : o[i] = h[m]
  <2>1. CASE i = 1
    BY <1>1, <1>4, <2>1 DEF e
  <2>2. CASE i # 1
    <3>1. i - 1 \in 1..Len(w) /\ o[i] = w[i - 1] /\ Len(w) = Len(h) - 1
      BY <1>1, <1>2, <1>4, <1>5, <2>2
    <3>2. w[i - 1] = h[i] \/ w[i - 1] = h[i - 1]
      BY <1>1, <1>2, <3>1
    <3> QED
      BY <1>1, <3>1, <3>2
  <2> QED
    BY <2>1, <2>2
<1>8. ASSUME NEW j, NEW F, j # k, Placed(h, j, F) PROVE Placed(o, j, F \cup {k})
  <2>1. PICK i \in 1..Len(w) : w[i].key = j /\ \A m \in 1..(i - 1) : w[m].key \in F
    BY <1>3, <1>8 DEF Placed
  <2>2. i + 1 \in 1..Len(o) /\ o[i + 1].key = j
    BY <1>1, <1>2, <1>4, <2>1
  <2>3. ASSUME NEW m \in 1..((i + 1) - 1) PROVE o[m].key \in F \cup {k}
    <3>1. CASE m = 1
      BY <1>1, <1>4, <3>1
    <3>2. CASE m # 1
      <4>1. m \in 2..Len(o) /\ m - 1 \in 1..(i - 1)
        BY <1>1, <2>1, <2>2, <3>2
      <4> QED
        BY <1>4, <2>1, <4>1
    <3> QED
      BY <3>1, <3>2
  <2> QED
    BY <2>2, <2>3 DEF Placed
<1>9. o = <<h[Place(h, k)]>> \o Without(h, k)
  BY DEF o, e, p, w
<1> QED
  BY <1>5, <1>6, <1>7, <1>8, <1>9

\* Observe and MarkTx alike: what each leaves of the filter.
Told(h, k, o, isNew) ==
  /\ FilterOK(o) /\ Placed(o, k, {})
  /\ \A i \in 1..Len(o) : \/ isNew /\ o[i] = [key |-> k, age |-> 0]
                          \/ (isNew => o[i].key # k) /\ \E m \in 1..Len(h) : o[i] = h[m]
  /\ \A j, F : j # k /\ IsFiniteSet(F) /\ Cardinality(F \cup {k}) < Cap /\ Placed(h, j, F)
       => Placed(o, j, F \cup {k})

LEMMA AddTold ==
  ASSUME NEW h, FilterOK(h), NEW k \in Keys
  PROVE  Told(h, k, Add(Without(h, k), k), TRUE)
<1> DEFINE w == Without(h, k)
           a == Add(w, k)
<1>1. /\ FilterOK(w) /\ (\A i \in 1..Len(w) : w[i].key # k)
      /\ Len(w) = (IF Knows(h, k) THEN Len(h) - 1 ELSE Len(h))
      /\ \A i \in 1..Len(w) : w[i] = IF Knows(h, k) /\ i >= Place(h, k) THEN h[i + 1] ELSE h[i]
  BY WithoutProps
<1>2. \A j, F : j # k /\ Placed(h, j, F) => Placed(w, j, F)
  BY WithoutKeeps
<1> HIDE DEF w
<1>3. /\ FilterOK(a) /\ Placed(a, k, {})
      /\ \A i \in 1..Len(a) : a[i] = [key |-> k, age |-> 0] \/ \E m \in 1..Len(w) : a[i] = w[m]
  BY <1>1, AddIsNew
<1>4. \A j, F : j # k /\ IsFiniteSet(F) /\ Cardinality(F \cup {k}) < Cap /\ Placed(h, j, F)
        => Placed(a, j, F \cup {k})
  BY <1>1, <1>2, AddKeeps
<1> HIDE DEF a
<1>5. Len(h) \in Nat
  BY LenProperties DEF FilterOK
<1>6. \A m \in 1..Len(w) : w[m].key # k /\ \E i \in 1..Len(h) : w[m] = h[i]
  <2> SUFFICES ASSUME NEW m \in 1..Len(w) PROVE \E i \in 1..Len(h) : w[m] = h[i]
    BY <1>1
  <2>1. CASE Knows(h, k)
    <3>1. m \in 1..Len(h) /\ m + 1 \in 1..Len(h) /\ (w[m] = h[m + 1] \/ w[m] = h[m])
      BY <1>1, <1>5, <2>1
    <3> QED
      BY <3>1
  <2>2. CASE ~Knows(h, k)
    BY <1>1, <2>2
  <2> QED
    BY <2>1, <2>2
<1>7. \A i \in 1..Len(a) : \/ a[i] = [key |-> k, age |-> 0]
                           \/ a[i].key # k /\ \E m \in 1..Len(h) : a[i] = h[m]
  BY <1>3, <1>6
<1> QED
  BY <1>3, <1>4, <1>7 DEF Told, w, a

LEMMA ObserveTold ==
  ASSUME NEW h, FilterOK(h), NEW k \in Keys
  PROVE  Told(h, k, Observe(h, k), ~Current(h, k))
<1>1. CASE Current(h, k)
  <2>1. Knows(h, k)
    BY <1>1 DEF Current, Knows
  <2>2. Observe(h, k) = <<h[Place(h, k)]>> \o Without(h, k)
    BY <1>1 DEF Observe
  <2>3. /\ FilterOK(Observe(h, k)) /\ Placed(Observe(h, k), k, {})
        /\ \A i \in 1..Len(Observe(h, k)) : \E m \in 1..Len(h) : Observe(h, k)[i] = h[m]
        /\ \A j, F : j # k /\ Placed(h, j, F) => Placed(Observe(h, k), j, F \cup {k})
    <3> DEFINE o == <<h[Place(h, k)]>> \o Without(h, k)
    <3>1. /\ FilterOK(o) /\ Placed(o, k, {})
          /\ \A i \in 1..Len(o) : \E m \in 1..Len(h) : o[i] = h[m]
          /\ \A j, F : j # k /\ Placed(h, j, F) => Placed(o, j, F \cup {k})
      BY <2>1, MovedToFront
    <3> HIDE DEF o
    <3>2. Observe(h, k) = o
      BY <2>2 DEF o
    <3> QED
      BY <3>1, <3>2
  <2> QED
    BY <1>1, <2>3 DEF Told
<1>2. CASE ~Current(h, k)
  <2>1. Observe(h, k) = Add(Without(h, k), k)
    BY <1>2 DEF Observe
  <2> QED
    BY <1>2, <2>1, AddTold DEF Told
<1> QED
  BY <1>1, <1>2

LEMMA MarkTxTold ==
  ASSUME NEW h, FilterOK(h), NEW k \in Keys, ~Knows(h, k)
  PROVE  Told(h, k, MarkTx(h, k), TRUE)
  BY AddTold DEF MarkTx, Without

LEMMA AgedProps ==
  ASSUME NEW h, FilterOK(h)
  PROVE  /\ FilterOK(Aged(h)) /\ Len(Aged(h)) = Len(h)
         /\ \A i \in 1..Len(h) : /\ Aged(h)[i].key = h[i].key
                                 /\ Aged(h)[i].age = Older(h[i].age, HistTTL)
         /\ \A j, F : Placed(h, j, F) => Placed(Aged(h), j, F)
<1> DEFINE g == Aged(h)
<1>1. h \in Seq(Entries) /\ Len(h) \in Nat /\ DOMAIN h = 1..Len(h) /\ HistTTL \in Nat
  BY LenProperties, HistoryAssumption DEF FilterOK
<1>2. \A i \in 1..Len(h) : h[i] \in Entries
  BY <1>1, ElementOfSeq
<1>3. g = [i \in 1..Len(h) |-> [h[i] EXCEPT !.age = Older(h[i].age, HistTTL)]]
  BY <1>1, <1>2 DEF Aged, Older, Entries
<1>4. \A i \in 1..Len(h) : g[i] \in Entries /\ g[i].key = h[i].key /\ g[i].age = Older(h[i].age, HistTTL)
  BY <1>1, <1>2, <1>3 DEF Entries, Older
<1>5. g \in [1..Len(h) -> Entries]
  BY <1>3, <1>4
<1> HIDE DEF g
<1>6. g \in Seq(Entries) /\ Len(g) = Len(h)
  BY <1>1, <1>5
<1>7. FilterOK(g)
  BY <1>1, <1>4, <1>6 DEF FilterOK, Unique
<1>8. \A j, F : Placed(h, j, F) => Placed(g, j, F)
  BY <1>1, <1>4, <1>6 DEF Placed
<1> QED
  BY <1>4, <1>6, <1>7, <1>8 DEF g

-----------------------------------------------------------------------------
(* Every step. *)

LEMMA Bounds ==
  ASSUME TypeOK
  PROVE  /\ \A l \in Conns, hop \in Hops : TapHops(l, hop) \in 0..MaxHop
         /\ \A l \in Conns, hop \in Hops :
              TapHops(l, hop) > 0 => l \in RelayMQTT /\ TapHops(l, hop) <= RelayHops[l] + 1
         /\ \A i \in 1..Len(hist) : hist[i] \in Entries
<1>1. \A l \in Conns, hop \in Hops : hop \in 0..MaxHop /\ RelayHops[l] \in Nat /\ MaxHop \in Nat
  BY LinksAssumption
<1>2. hist \in Seq(Entries)
  BY DEF TypeOK
<1>3. \A i \in 1..Len(hist) : hist[i] \in Entries
  BY <1>2, ElementOfSeq
<1> QED
  BY <1>1, <1>3 DEF TapHops, LinkHops, IgnoreMQTT

\* What an operation of the filter leaves of it.
LEMMA FilterTold ==
  ASSUME TypeOK, Unique(hist), AgesAgree, Remembered, NEW k \in Keys, NEW isNew \in BOOLEAN,
         Told(hist, k, hist', isNew), Fresher(k, isNew)
  PROVE  FilterOK(hist') /\ AgesAgree' /\ Remembered'
<1>1. FilterOK(hist')
  BY DEF Told
<1>2. news \in [Readable -> 0..(HistTTL + 1)] /\ fresher \in [Readable -> SUBSET Keys]
  BY DEF TypeOK
<1>3. AgesAgree'
  <2> SUFFICES ASSUME NEW i \in 1..Len(hist'), hist'[i].key \in Readable
               PROVE  hist'[i].age = news'[hist'[i].key]
    BY DEF AgesAgree
  <2>1. CASE isNew /\ hist'[i] = [key |-> k, age |-> 0]
    BY <1>2, <2>1 DEF Fresher
  <2>2. CASE (isNew => hist'[i].key # k) /\ \E m \in 1..Len(hist) : hist'[i] = hist[m]
    <3>1. hist'[i].age = news[hist'[i].key]
      BY <2>2 DEF AgesAgree
    <3>2. news'[hist'[i].key] = news[hist'[i].key]
      BY <1>2, <2>2 DEF Fresher
    <3> QED
      BY <3>1, <3>2
  <2> QED
    BY <2>1, <2>2 DEF Told
<1>4. Remembered'
  <2> SUFFICES ASSUME NEW j \in Readable
               PROVE  /\ IsFiniteSet(fresher'[j])
                      /\ news'[j] <= HistTTL /\ Cardinality(fresher'[j]) < Cap
                           => Placed(hist', j, fresher'[j])
    BY DEF Remembered
  <2>1. fresher'[j] = IF j = k THEN {} ELSE fresher[j] \cup {k}
    BY DEF Fresher
  <2>2. CASE j = k
    BY <2>1, <2>2, FS_EmptySet DEF Told
  <2>3. CASE j # k
    <3>1. fresher'[j] = fresher[j] \cup {k} /\ news'[j] = news[j]
      BY <1>2, <2>1, <2>3 DEF Fresher
    <3>2. IsFiniteSet(fresher[j])
      BY DEF Remembered
    <3>3. IsFiniteSet(fresher'[j])
      BY <3>1, <3>2, FS_AddElement
    <3>4. Cardinality(fresher[j]) <= Cardinality(fresher'[j])
      BY <3>1, <3>3, FS_Subset
    <3>5. Cardinality(fresher[j]) \in Nat /\ Cardinality(fresher'[j]) \in Nat /\ Cap \in Nat
      BY <3>2, <3>3, FS_CardinalityType, HistoryAssumption
    <3> SUFFICES ASSUME news'[j] <= HistTTL, Cardinality(fresher'[j]) < Cap
                 PROVE  Placed(hist', j, fresher'[j])
      BY <3>3
    <3>6. Placed(hist, j, fresher[j])
      BY <3>1, <3>4, <3>5 DEF Remembered
    <3> QED
      BY <2>3, <3>1, <3>2, <3>6 DEF Told
  <2> QED
    BY <2>2, <2>3
<1> QED
  BY <1>1, <1>3, <1>4

LEMMA FilterStep ==
  ASSUME TypeOK, Unique(hist), AgesAgree, Remembered, [Next]_vars
  PROVE  FilterOK(hist') /\ AgesAgree' /\ Remembered'
<1>0. FilterOK(hist)
  BY DEF TypeOK, FilterOK
<1> DEFINE Same == UNCHANGED <<hist, news, fresher>>
<1>1. CASE Same
  BY <1>0, <1>1 DEF AgesAgree, Remembered
<1>2. ASSUME NEW r \in Receivers, HandleReceived(r) PROVE FilterOK(hist') /\ AgesAgree' /\ Remembered'
  <2> DEFINE k == job[r].key
             isNew == ~Current(hist, k)
  <2>1. k \in Keys
    BY <1>2 DEF TypeOK, Jobs, HandleReceived
  <2>2. hist' = Observe(hist, k) /\ Fresher(k, isNew)
    BY <1>2 DEF HandleReceived
  <2>3. isNew \in BOOLEAN
    BY DEF Current
  <2> HIDE DEF k
  <2>4. Told(hist, k, hist', isNew)
    BY <1>0, <2>1, <2>2, ObserveTold
  <2> HIDE DEF isNew
  <2> QED
    BY <2>1, <2>2, <2>3, <2>4, FilterTold
<1>3. ASSUME NEW k \in Foreign, Relay(k) PROVE FilterOK(hist') /\ AgesAgree' /\ Remembered'
  <2>1. k \in Keys
    BY DEF Foreign
  <2>2. CASE Knows(hist, k)
    BY <1>1, <1>3, <2>2 DEF Relay, MarkTx
  <2>3. CASE ~Knows(hist, k)
    <3>1. hist' = MarkTx(hist, k) /\ Fresher(k, TRUE)
      BY <1>3, <2>3 DEF Relay
    <3>2. Told(hist, k, hist', TRUE)
      BY <1>0, <2>1, <2>3, <3>1, MarkTxTold
    <3> QED
      BY <2>1, <3>1, <3>2, FilterTold
  <2> QED
    BY <2>2, <2>3
<1>4. ASSUME Tick PROVE FilterOK(hist') /\ AgesAgree' /\ Remembered'
  <2>1. hist' = Aged(hist) /\ UNCHANGED fresher
        /\ news' = [k \in Readable |-> Older(news[k], HistTTL)]
    BY <1>4 DEF Tick
  <2>2. /\ FilterOK(hist') /\ Len(hist') = Len(hist)
        /\ \A i \in 1..Len(hist) : /\ hist'[i].key = hist[i].key
                                   /\ hist'[i].age = Older(hist[i].age, HistTTL)
        /\ \A j, F : Placed(hist, j, F) => Placed(hist', j, F)
    BY <1>0, <2>1, AgedProps
  <2>3. AgesAgree'
    BY <2>1, <2>2 DEF AgesAgree
  <2>4. \A k \in Readable : news[k] \in 0..(HistTTL + 1) /\ (news'[k] <= HistTTL => news[k] <= HistTTL)
    BY <2>1, HistoryAssumption DEF TypeOK, Older
  <2>5. Remembered'
    BY <2>1, <2>2, <2>4 DEF Remembered
  <2> QED
    BY <2>2, <2>3, <2>5
<1>5. CASE UNCHANGED vars
  BY <1>1, <1>5 DEF vars
<1>6. ASSUME NEW k \in Keys, NEW via \in BOOLEAN, RadioHears(k, via) PROVE Same
  BY <1>6 DEF RadioHears
<1>7. ASSUME NEW l \in Conns, NEW k \in Keys, NEW hop \in Hops, OnMessage(l, k, hop) PROVE Same
  BY <1>7 DEF OnMessage
<1>8. ASSUME NEW r \in Receivers, NEW l \in Conns, Offer(r, l) PROVE Same
  BY <1>8 DEF Offer
<1>9. ASSUME NEW l \in Conns, NEW k \in Sending, SendPacket(l, k) PROVE Same
  BY <1>9 DEF SendPacket
<1> QED
  BY <1>1, <1>2, <1>3, <1>4, <1>5, <1>6, <1>7, <1>8, <1>9 DEF Next


-----------------------------------------------------------------------------
(* Publications. *)

\* Whatever publishes is one of the connections that may, and leaves its mark.
LEMMA PublishType ==
  ASSUME TypeOK, NEW l \in Uplinks, NEW k \in Keys, Publish(l, k) \/ UNCHANGED <<uplinked, sent>>
  PROVE  /\ DOMAIN uplinked' \subseteq Dests \X Keys /\ uplinked' \in [DOMAIN uplinked' -> Nat]
         /\ DOMAIN sent' \subseteq Uplinks \X Keys
         /\ sent' \in [DOMAIN sent' -> [age : Nat, again : BOOLEAN]]
<1>1. CASE UNCHANGED <<uplinked, sent>>
  BY <1>1 DEF TypeOK
<1>2. CASE Publish(l, k)
  <2>1. Dest[l] \in Dests
    BY LinksAssumption DEF Dests
  <2>2. uplinked' = [x \in DOMAIN uplinked \cup {<<Dest[l], k>>} |->
                       IF x = <<Dest[l], k>> THEN 0 ELSE uplinked[x]]
    BY <1>2 DEF Publish, MarkUplinked, Marked
  <2>3. DOMAIN uplinked' \subseteq Dests \X Keys /\ uplinked' \in [DOMAIN uplinked' -> Nat]
    BY <2>1, <2>2 DEF TypeOK
  <2>4. CASE sent' = Sent(l, k)
    <3>1. sent' = [x \in DOMAIN sent \cup {<<l, k>>} |->
                     IF x = <<l, k>> THEN [age |-> 0, again |-> x \in DOMAIN sent] ELSE sent[x]]
      BY <2>4 DEF Sent
    <3>2. \A x \in DOMAIN sent' : sent'[x] \in [age : Nat, again : BOOLEAN]
      BY <3>1 DEF TypeOK
    <3> QED
      BY <2>3, <3>1, <3>2 DEF TypeOK
  <2>5. CASE UNCHANGED sent
    BY <2>3, <2>5 DEF TypeOK
  <2> QED
    BY <1>2, <2>4, <2>5 DEF Publish
<1> QED
  BY <1>1, <1>2

\* It publishes what no connection to the broker did lately.
LEMMA PublishOnce ==
  ASSUME TypeOK, SentIsMarked, OncePerBroker,
         NEW l \in Uplinks, NEW k \in Keys, Publish(l, k) \/ UNCHANGED <<uplinked, sent>>
  PROVE  SentIsMarked' /\ OncePerBroker'
<1>1. CASE UNCHANGED <<uplinked, sent>>
  BY <1>1 DEF SentIsMarked, OncePerBroker
<1>2. CASE Publish(l, k)
  <2> DEFINE d == <<Dest[l], k>>
  <2>1. uplinked' = [x \in DOMAIN uplinked \cup {d} |-> IF x = d THEN 0 ELSE uplinked[x]]
        /\ d \notin DOMAIN uplinked
    BY <1>2 DEF Publish, First, MarkUplinked, Marked
  <2>2. \A m \in Conns, j \in Keys : <<m, j>> \in DOMAIN sent => <<Dest[m], j>> # d
    BY <2>1 DEF SentIsMarked
  <2>3. \A m \in Conns, j \in Keys : <<m, j>> \in DOMAIN sent
          => <<Dest[m], j>> \in DOMAIN uplinked' /\ uplinked'[<<Dest[m], j>>] <= sent[<<m, j>>].age
    BY <2>1, <2>2 DEF SentIsMarked
  <2>4. CASE UNCHANGED sent
    BY <2>3, <2>4 DEF SentIsMarked, OncePerBroker
  <2>5. CASE sent' = Sent(l, k)
    <3>1. l \in Conns /\ <<l, k>> \notin DOMAIN sent
      BY <2>2, LinksAssumption
    <3>2. /\ DOMAIN sent' = DOMAIN sent \cup {<<l, k>>}
          /\ sent'[<<l, k>>] = [age |-> 0, again |-> FALSE]
          /\ \A x \in DOMAIN sent : sent'[x] = sent[x]
      <4>1. sent' = [x \in DOMAIN sent \cup {<<l, k>>} |->
                       IF x = <<l, k>> THEN [age |-> 0, again |-> x \in DOMAIN sent] ELSE sent[x]]
        BY <2>5 DEF Sent
      <4>2. DOMAIN sent' = DOMAIN sent \cup {<<l, k>>}
        BY <4>1
      <4>3. sent'[<<l, k>>] = [age |-> 0, again |-> <<l, k>> \in DOMAIN sent]
        BY <4>1
      <4>4. (<<l, k>> \in DOMAIN sent) = FALSE
        BY <3>1
      <4>5. \A x \in DOMAIN sent : sent'[x] = sent[x]
        BY <3>1, <4>1
      <4> QED
        BY <4>2, <4>3, <4>4, <4>5
    <3>3. uplinked'[d] = 0 /\ d \in DOMAIN uplinked'
      BY <2>1
    <3> HIDE DEF d
    <3>4. SentIsMarked'
      <4> SUFFICES ASSUME NEW m \in Conns, NEW j \in Keys, <<m, j>> \in DOMAIN sent'
                   PROVE  /\ <<Dest[m], j>> \in DOMAIN uplinked'
                          /\ uplinked'[<<Dest[m], j>>] <= sent'[<<m, j>>].age
        BY DEF SentIsMarked
      <4>1. CASE <<m, j>> = <<l, k>>
        BY <3>2, <3>3, <4>1 DEF d
      <4>2. CASE <<m, j>> # <<l, k>>
        BY <2>3, <3>2, <4>2
      <4> QED
        BY <4>1, <4>2
    <3>5. \A x \in DOMAIN sent' : ~sent'[x].again
      BY <3>2 DEF OncePerBroker
    <3>6. ASSUME NEW x \in DOMAIN sent PROVE x[2] = k => Dest[x[1]] # Dest[l]
      <4>1. PICK m \in Conns, j \in Keys : x = <<m, j>>
        BY LinksAssumption DEF TypeOK
      <4> QED
        BY <2>2, <4>1 DEF d
    <3>7. \A x, y \in DOMAIN sent' : x # y /\ x[2] = y[2] => Dest[x[1]] # Dest[y[1]]
      BY <3>2, <3>6 DEF OncePerBroker
    <3> QED
      BY <3>4, <3>5, <3>7 DEF OncePerBroker
  <2> QED
    BY <1>2, <2>4, <2>5 DEF Publish
<1> QED
  BY <1>1, <1>2

-----------------------------------------------------------------------------
(* Types. *)

LEMMA LinksInitInv == Init => IInv
<1> SUFFICES ASSUME Init PROVE IInv
  OBVIOUS
<1>1. hist = <<>> /\ hist \in Seq(Entries) /\ Len(hist) = 0
  BY DEF Init
<1>2. TypeOK
  BY <1>1, LinksAssumption, HistoryAssumption DEF Init, TypeOK
<1>3. Unique(hist) /\ AgesAgree
  BY <1>1 DEF Unique, AgesAgree
<1>4. Remembered
  BY FS_EmptySet, HistoryAssumption DEF Init, Remembered
<1>5. NearByConsent /\ AirOnlyByConsent /\ FromBrokers
  BY DEF Init, NearByConsent, AirOnlyByConsent, FromBrokers
<1>6. SentIsMarked /\ OncePerBroker
  BY DEF Init, SentIsMarked, OncePerBroker
<1> QED
  BY <1>2, <1>3, <1>4, <1>5, <1>6 DEF IInv

LEMMA LinksTypeStep == TypeOK /\ Unique(hist) /\ AgesAgree /\ Remembered /\ [Next]_vars => TypeOK'
<1> SUFFICES ASSUME TypeOK, Unique(hist), AgesAgree, Remembered, [Next]_vars PROVE TypeOK'
  OBVIOUS
<1>1. ASSUME NEW k \in Keys, NEW via \in BOOLEAN, RadioHears(k, via) PROVE TypeOK'
  <2>1. near' \in [Foreign -> Nat]
    BY <1>1 DEF RadioHears, Inject, TypeOK
  <2>2. job' \in [Receivers -> Jobs \cup {None}]
    BY <1>1 DEF RadioHears, Handling, TypeOK, Jobs
  <2>3. heard' \subseteq Foreign /\ plain' \subseteq heard'
    BY <1>1 DEF RadioHears, TypeOK
  <2> QED
    BY <1>1, <2>1, <2>2, <2>3 DEF RadioHears, TypeOK
<1>2. ASSUME NEW l \in Conns, NEW k \in Keys, NEW hop \in Hops, OnMessage(l, k, hop) PROVE TypeOK'
  <2>1. near' \in [Foreign -> Nat]
    BY <1>2, Bounds, LinksAssumption DEF OnMessage, Inject, TypeOK
  <2>2. job' \in [Receivers -> Jobs \cup {None}]
    BY <1>2 DEF OnMessage, Handling, TypeOK, Jobs
  <2>3. origins' \in [Foreign -> [link : Conns, age : Nat] \cup {None}] /\ came' \in [Foreign -> SUBSET Conns]
    BY <1>2 DEF OnMessage, TypeOK
  <2> QED
    BY <1>2, <2>1, <2>2, <2>3 DEF OnMessage, TypeOK
<1>3. ASSUME NEW r \in Receivers, HandleReceived(r) PROVE TypeOK'
  <2>1. hist' \in Seq(Entries) /\ Len(hist') <= Cap
    BY FilterStep DEF FilterOK
  <2>2. job[r].key \in Keys /\ job[r] \in Jobs
    BY <1>3 DEF HandleReceived, TypeOK, Jobs
  <2>3. job' \in [Receivers -> Jobs \cup {None}]
    BY <1>3, <2>2 DEF HandleReceived, TypeOK, Jobs
  <2>4. news' \in [Readable -> 0..(HistTTL + 1)] /\ fresher' \in [Readable -> SUBSET Keys]
    <3>1. PICK isNew \in BOOLEAN : Fresher(job[r].key, isNew)
      BY <1>3 DEF HandleReceived, Current
    <3> QED
      BY <2>2, <3>1, HistoryAssumption DEF Fresher, TypeOK
  <2> QED
    BY <1>3, <2>1, <2>3, <2>4 DEF HandleReceived, TypeOK
<1>4. ASSUME NEW r \in Receivers, NEW l \in Conns, Offer(r, l) PROVE TypeOK'
  <2>1. job[r] \in Jobs /\ l \in Uplinks /\ job[r].key \in Keys
    BY <1>4 DEF Offer, TypeOK, Jobs
  <2>2. /\ DOMAIN uplinked' \subseteq Dests \X Keys /\ uplinked' \in [DOMAIN uplinked' -> Nat]
        /\ DOMAIN sent' \subseteq Uplinks \X Keys
        /\ sent' \in [DOMAIN sent' -> [age : Nat, again : BOOLEAN]]
    BY <1>4, <2>1, PublishType DEF Offer
  <2>3. job' \in [Receivers -> Jobs \cup {None}]
    <3>1. [job[r] EXCEPT !.left = job[r].left \ {l}] \in Jobs
      <4>1. job[r].left \ {l} \in SUBSET Uplinks
        BY <2>1 DEF Jobs
      <4> QED
        BY <2>1, <4>1 DEF Jobs
    <3>2. job' = [job EXCEPT ![r] = IF job[r].left \ {l} = {} THEN None
                                  ELSE [job[r] EXCEPT !.left = job[r].left \ {l}]]
      BY <1>4 DEF Offer
    <3> QED
      BY <3>1, <3>2 DEF TypeOK
  <2> QED
    BY <1>4, <2>2, <2>3 DEF Offer, TypeOK
<1>5. ASSUME NEW l \in Conns, NEW k \in Sending, SendPacket(l, k) PROVE TypeOK'
  <2>1. l \in Uplinks /\ k \in Keys /\ Publish(l, k)
    BY <1>5, LinksAssumption DEF SendPacket
  <2>2. /\ DOMAIN uplinked' \subseteq Dests \X Keys /\ uplinked' \in [DOMAIN uplinked' -> Nat]
        /\ DOMAIN sent' \subseteq Uplinks \X Keys
        /\ sent' \in [DOMAIN sent' -> [age : Nat, again : BOOLEAN]]
    BY <2>1, PublishType
  <2> QED
    BY <1>5, <2>2 DEF SendPacket, TypeOK
<1>6. ASSUME NEW k \in Foreign, Relay(k) PROVE TypeOK'
  <2>1. hist' \in Seq(Entries) /\ Len(hist') <= Cap
    BY FilterStep DEF FilterOK
  <2>2. k \in Keys /\ near[k] \in Nat
    BY DEF Foreign, TypeOK
  <2>3. aired' \in [Foreign -> SUBSET Nat]
    <3>1. PICK hop \in 1..near[k] : aired' = [aired EXCEPT ![k] = aired[k] \cup {hop - 1}]
      BY <1>6 DEF Relay
    <3>2. hop - 1 \in Nat
      BY <2>2
    <3> QED
      BY <3>1, <3>2 DEF TypeOK
  <2>4. news' \in [Readable -> 0..(HistTTL + 1)] /\ fresher' \in [Readable -> SUBSET Keys]
    <3>1. CASE Knows(hist, k)
      BY <1>6, <3>1 DEF Relay, TypeOK
    <3>2. CASE ~Knows(hist, k)
      <4>1. Fresher(k, TRUE)
        BY <1>6, <3>2 DEF Relay
      <4> QED
        BY <2>2, <4>1, HistoryAssumption DEF Fresher, TypeOK
    <3> QED
      BY <3>1, <3>2
  <2> QED
    BY <1>6, <2>1, <2>3, <2>4 DEF Relay, TypeOK
<1>7. CASE Tick
  <2>1. hist' \in Seq(Entries) /\ Len(hist') <= Cap
    BY FilterStep DEF FilterOK
  <2>2. origins' \in [Foreign -> [link : Conns, age : Nat] \cup {None}]
    BY <1>7 DEF Tick, TypeOK
  <2>3. DOMAIN uplinked' \subseteq Dests \X Keys /\ uplinked' \in [DOMAIN uplinked' -> Nat]
    BY <1>7 DEF Tick, Kept, TypeOK
  <2>4. DOMAIN sent' \subseteq Uplinks \X Keys /\ sent' \in [DOMAIN sent' -> [age : Nat, again : BOOLEAN]]
    <3> DEFINE S == {y \in DOMAIN sent : sent[y].age + 1 < OriginTTL}
    <3>1. sent' = [x \in S |-> [sent[x] EXCEPT !.age = sent[x].age + 1]]
      BY <1>7 DEF Tick
    <3>2. \A x \in S : [sent[x] EXCEPT !.age = sent[x].age + 1] \in [age : Nat, again : BOOLEAN]
      <4> SUFFICES ASSUME NEW x \in S PROVE [sent[x] EXCEPT !.age = sent[x].age + 1] \in [age : Nat, again : BOOLEAN]
        OBVIOUS
      <4>1. sent[x] \in [age : Nat, again : BOOLEAN]
        BY DEF TypeOK
      <4>2. sent[x].age + 1 \in Nat
        BY <4>1
      <4> QED
        BY <4>1, <4>2
    <3> HIDE DEF S
    <3>3. S \subseteq DOMAIN sent
      BY DEF S
    <3> QED
      BY <3>1, <3>2, <3>3 DEF TypeOK
  <2>5. news' \in [Readable -> 0..(HistTTL + 1)]
    BY <1>7, HistoryAssumption DEF Tick, Older, TypeOK
  <2> QED
    BY <1>7, <2>1, <2>2, <2>3, <2>4, <2>5 DEF Tick, TypeOK
<1>8. CASE UNCHANGED vars
  BY <1>8 DEF vars, TypeOK
<1> QED
  BY <1>1, <1>2, <1>3, <1>4, <1>5, <1>6, <1>7, <1>8
     DEF Next


-----------------------------------------------------------------------------
(* Consent. *)

\* Only a connection with relay_mqtt leaves a packet hops, and no more than its relay_hops allow.
LEMMA NearByConsentStep == TypeOK /\ NearByConsent /\ [Next]_vars => NearByConsent'
<1> SUFFICES ASSUME TypeOK, NearByConsent, [Next]_vars PROVE NearByConsent'
  OBVIOUS
<1>1. ASSUME NEW k \in Keys, NEW via \in BOOLEAN, RadioHears(k, via) PROVE NearByConsent'
  <2>1. \A j \in Foreign \ heard' : near'[j] = near[j] /\ came'[j] = came[j]
    BY <1>1 DEF RadioHears, Inject, TypeOK
  <2> QED
    BY <1>1, <2>1 DEF RadioHears, NearByConsent
<1>2. ASSUME NEW l \in Conns, NEW k \in Keys, NEW hop \in Hops, OnMessage(l, k, hop) PROVE NearByConsent'
  <2>1. /\ k \in Foreign /\ near' = (IF near[k] < TapHops(l, hop) THEN [near EXCEPT ![k] = TapHops(l, hop)] ELSE near)
        /\ came' = [came EXCEPT ![k] = came[k] \cup {l}] /\ heard' = heard
    BY <1>2 DEF OnMessage, Inject
  <2>2. TapHops(l, hop) > 0 => l \in RelayMQTT /\ TapHops(l, hop) <= RelayHops[l] + 1
    BY Bounds
  <2>3. TapHops(l, hop) \in Nat /\ near[k] \in Nat
    BY <2>1, Bounds, LinksAssumption DEF TypeOK
  <2> SUFFICES ASSUME NEW j \in Foreign \ heard', near'[j] > 0
               PROVE  \E m \in came'[j] \cap RelayMQTT : near'[j] <= RelayHops[m] + 1
    BY DEF NearByConsent
  <2>4. CASE near'[j] = near[j]
    <3>1. PICK m \in came[j] \cap RelayMQTT : near[j] <= RelayHops[m] + 1
      BY <2>1, <2>4 DEF NearByConsent
    <3>2. m \in came'[j]
      BY <2>1, <3>1 DEF TypeOK
    <3> QED
      BY <2>4, <3>1, <3>2
  <2>5. CASE near'[j] # near[j]
    <3>1. j = k /\ near'[k] = TapHops(l, hop)
      BY <2>1, <2>5 DEF TypeOK
    <3>2. l \in came'[k]
      BY <2>1 DEF TypeOK
    <3> QED
      BY <2>2, <3>1, <3>2
  <2> QED
    BY <2>4, <2>5
<1>3. ASSUME NEW r \in Receivers, HandleReceived(r) PROVE NearByConsent'
  BY <1>3 DEF HandleReceived, NearByConsent
<1>4. ASSUME NEW r \in Receivers, NEW l \in Conns, Offer(r, l) PROVE NearByConsent'
  BY <1>4 DEF Offer, NearByConsent
<1>5. ASSUME NEW l \in Conns, NEW k \in Sending, SendPacket(l, k) PROVE NearByConsent'
  BY <1>5 DEF SendPacket, NearByConsent
<1>6. ASSUME NEW k \in Foreign, Relay(k) PROVE NearByConsent'
  BY <1>6 DEF Relay, NearByConsent
<1>7. CASE Tick
  BY <1>7 DEF Tick, NearByConsent
<1>8. CASE UNCHANGED vars
  BY <1>8 DEF vars, NearByConsent
<1> QED
  BY <1>1, <1>2, <1>3, <1>4, <1>5, <1>6, <1>7, <1>8
     DEF Next

LEMMA AirOnlyByConsentStep == TypeOK /\ NearByConsent /\ AirOnlyByConsent /\ [Next]_vars => AirOnlyByConsent'
<1> SUFFICES ASSUME TypeOK, NearByConsent, AirOnlyByConsent, [Next]_vars PROVE AirOnlyByConsent'
  OBVIOUS
<1>1. ASSUME NEW k \in Keys, NEW via \in BOOLEAN, RadioHears(k, via) PROVE AirOnlyByConsent'
  BY <1>1 DEF RadioHears, AirOnlyByConsent
<1>2. ASSUME NEW l \in Conns, NEW k \in Keys, NEW hop \in Hops, OnMessage(l, k, hop) PROVE AirOnlyByConsent'
  <2>1. came' = [came EXCEPT ![k] = came[k] \cup {l}] /\ heard' = heard /\ aired' = aired
    BY <1>2 DEF OnMessage
  <2>2. \A j \in Foreign : came[j] \subseteq came'[j]
    BY <2>1 DEF TypeOK
  <2> QED
    BY <2>1, <2>2 DEF AirOnlyByConsent
<1>3. ASSUME NEW r \in Receivers, HandleReceived(r) PROVE AirOnlyByConsent'
  BY <1>3 DEF HandleReceived, AirOnlyByConsent
<1>4. ASSUME NEW r \in Receivers, NEW l \in Conns, Offer(r, l) PROVE AirOnlyByConsent'
  BY <1>4 DEF Offer, AirOnlyByConsent
<1>5. ASSUME NEW l \in Conns, NEW k \in Sending, SendPacket(l, k) PROVE AirOnlyByConsent'
  BY <1>5 DEF SendPacket, AirOnlyByConsent
<1>6. ASSUME NEW k \in Foreign, Relay(k) PROVE AirOnlyByConsent'
  <2>1. PICK hop \in 1..near[k] : aired' = [aired EXCEPT ![k] = aired[k] \cup {hop - 1}]
    BY <1>6 DEF Relay
  <2>2. near[k] \in Nat /\ near[k] > 0 /\ came' = came /\ heard' = heard
    BY <1>6 DEF Relay, TypeOK
  <2> SUFFICES ASSUME NEW j \in Foreign \ heard, NEW m \in aired'[j]
               PROVE  \E l \in came[j] \cap RelayMQTT : m <= RelayHops[l]
    BY <2>2 DEF AirOnlyByConsent
  <2>3. CASE m \in aired[j]
    BY <2>3 DEF AirOnlyByConsent
  <2>4. CASE m \notin aired[j]
    <3>1. j = k /\ m = hop - 1
      BY <2>1, <2>4 DEF TypeOK
    <3>2. PICK l \in came[k] \cap RelayMQTT : near[k] <= RelayHops[l] + 1
      BY <2>2, <3>1 DEF NearByConsent
    <3>3. RelayHops[l] \in Nat
      BY <3>2, LinksAssumption
    <3>4. hop \in Int /\ near[k] \in Int /\ hop <= near[k]
      BY <2>2
    <3>5. hop - 1 <= RelayHops[l]
      BY <3>2, <3>3, <3>4
    <3> QED
      BY <3>1, <3>2, <3>5
  <2> QED
    BY <2>3, <2>4
<1>7. CASE Tick
  BY <1>7 DEF Tick, AirOnlyByConsent
<1>8. CASE UNCHANGED vars
  BY <1>8 DEF vars, AirOnlyByConsent
<1> QED
  BY <1>1, <1>2, <1>3, <1>4, <1>5, <1>6, <1>7, <1>8
     DEF Next

\* A later packet from the same connection only renews what Origins knows.
LEMMA FromBrokersStep == TypeOK /\ FromBrokers /\ [Next]_vars => FromBrokers'
<1> SUFFICES ASSUME TypeOK, FromBrokers, [Next]_vars PROVE FromBrokers'
  OBVIOUS
<1>1. ASSUME NEW k \in Keys, NEW via \in BOOLEAN, RadioHears(k, via) PROVE FromBrokers'
  <2>1. UNCHANGED <<origins, came>> /\ plain \subseteq plain'
    BY <1>1 DEF RadioHears
  <2>2. k \in Foreign \ plain' => via
    BY <1>1 DEF RadioHears
  <2>3. \A q \in Receivers : job'[q] = job[q] \/ job'[q] = Handling(k, via)
    BY <1>1 DEF RadioHears, TypeOK
  <2> QED
    BY <2>1, <2>2, <2>3 DEF FromBrokers, Handling
<1>2. ASSUME NEW l \in Conns, NEW k \in Keys, NEW hop \in Hops, OnMessage(l, k, hop) PROVE FromBrokers'
  <2>1. plain' = plain /\ origins' = [origins EXCEPT ![k] = [link |-> l, age |-> 0]]
        /\ came' = [came EXCEPT ![k] = came[k] \cup {l}]
    BY <1>2 DEF OnMessage
  <2>2. \A q \in Receivers : job'[q] = job[q] \/ job'[q] = Handling(k, TRUE)
    BY <1>2 DEF OnMessage, TypeOK
  <2>3. \A j \in Foreign : origins'[j] # None => origins'[j].link \in came'[j]
    BY <2>1 DEF FromBrokers, TypeOK
  <2> QED
    BY <2>1, <2>2, <2>3 DEF FromBrokers, Handling
<1>3. ASSUME NEW r \in Receivers, HandleReceived(r) PROVE FromBrokers'
  <2>1. UNCHANGED <<origins, came, plain>>
    BY <1>3 DEF HandleReceived
  <2>2. \A q \in Receivers : job'[q] # None
          => job[q] # None /\ job'[q].key = job[q].key /\ job'[q].via = job[q].via
    BY <1>3 DEF HandleReceived, TypeOK, Jobs
  <2> QED
    BY <2>1, <2>2 DEF FromBrokers
<1>4. ASSUME NEW r \in Receivers, NEW l \in Conns, Offer(r, l) PROVE FromBrokers'
  <2>1. UNCHANGED <<origins, came, plain>>
    BY <1>4 DEF Offer
  <2>2. \A q \in Receivers : job'[q] # None
          => job[q] # None /\ job'[q].key = job[q].key /\ job'[q].via = job[q].via
    BY <1>4 DEF Offer, TypeOK, Jobs
  <2> QED
    BY <2>1, <2>2 DEF FromBrokers
<1>5. ASSUME NEW l \in Conns, NEW k \in Sending, SendPacket(l, k) PROVE FromBrokers'
  BY <1>5 DEF SendPacket, FromBrokers
<1>6. ASSUME NEW k \in Foreign, Relay(k) PROVE FromBrokers'
  BY <1>6 DEF Relay, FromBrokers
<1>7. CASE Tick
  <2>1. \A j \in Foreign : origins'[j] # None => origins[j] # None /\ origins'[j].link = origins[j].link
    BY <1>7 DEF Tick, TypeOK
  <2> QED
    BY <1>7, <2>1 DEF Tick, FromBrokers
<1>8. CASE UNCHANGED vars
  BY <1>8 DEF vars, FromBrokers
<1> QED
  BY <1>1, <1>2, <1>3, <1>4, <1>5, <1>6, <1>7, <1>8
     DEF Next

\* The mark of a publication lives as long as it does.
LEMMA OnceStep == TypeOK /\ SentIsMarked /\ OncePerBroker /\ [Next]_vars => SentIsMarked' /\ OncePerBroker'
<1> SUFFICES ASSUME TypeOK, SentIsMarked, OncePerBroker, [Next]_vars PROVE SentIsMarked' /\ OncePerBroker'
  OBVIOUS
<1>1. ASSUME NEW k \in Keys, NEW via \in BOOLEAN, RadioHears(k, via) PROVE SentIsMarked' /\ OncePerBroker'
  BY <1>1 DEF RadioHears, SentIsMarked, OncePerBroker
<1>2. ASSUME NEW l \in Conns, NEW k \in Keys, NEW hop \in Hops, OnMessage(l, k, hop) PROVE SentIsMarked' /\ OncePerBroker'
  BY <1>2 DEF OnMessage, SentIsMarked, OncePerBroker
<1>3. ASSUME NEW r \in Receivers, HandleReceived(r) PROVE SentIsMarked' /\ OncePerBroker'
  BY <1>3 DEF HandleReceived, SentIsMarked, OncePerBroker
<1>4. ASSUME NEW r \in Receivers, NEW l \in Conns, Offer(r, l) PROVE SentIsMarked' /\ OncePerBroker'
  <2>1. job[r].key \in Keys /\ l \in Uplinks
    BY <1>4 DEF Offer, TypeOK, Jobs
  <2> QED
    BY <1>4, <2>1, PublishOnce DEF Offer
<1>5. ASSUME NEW l \in Conns, NEW k \in Sending, SendPacket(l, k) PROVE SentIsMarked' /\ OncePerBroker'
  <2>1. k \in Keys /\ l \in Uplinks
    BY <1>5, LinksAssumption DEF SendPacket
  <2> QED
    BY <1>5, <2>1, PublishOnce DEF SendPacket
<1>6. ASSUME NEW k \in Foreign, Relay(k) PROVE SentIsMarked' /\ OncePerBroker'
  BY <1>6 DEF Relay, SentIsMarked, OncePerBroker
<1>7. CASE Tick
  <2> DEFINE S == {y \in DOMAIN sent : sent[y].age + 1 < OriginTTL}
             U == {y \in DOMAIN uplinked : uplinked[y] + 1 < OriginTTL}
  <2>1. sent' = [x \in S |-> [sent[x] EXCEPT !.age = sent[x].age + 1]]
        /\ uplinked' = [x \in U |-> uplinked[x] + 1]
    BY <1>7 DEF Tick, Kept
  <2>2. DOMAIN sent' = S /\ \A x \in S : sent'[x].age = sent[x].age + 1 /\ sent'[x].again = sent[x].again
    BY <2>1 DEF TypeOK
  <2>3. SentIsMarked'
    <3> SUFFICES ASSUME NEW l \in Conns, NEW k \in Keys, <<l, k>> \in S
                 PROVE  /\ <<Dest[l], k>> \in DOMAIN uplinked'
                        /\ uplinked'[<<Dest[l], k>>] <= sent'[<<l, k>>].age
      BY <2>2 DEF SentIsMarked
    <3>1. /\ <<Dest[l], k>> \in DOMAIN uplinked
          /\ uplinked[<<Dest[l], k>>] <= sent[<<l, k>>].age
      BY DEF SentIsMarked
    <3>2. uplinked[<<Dest[l], k>>] \in Nat /\ sent[<<l, k>>].age \in Nat /\ sent[<<l, k>>].age + 1 < OriginTTL
      BY <3>1 DEF TypeOK
    <3>3. <<Dest[l], k>> \in U
      BY <3>1, <3>2, LinksAssumption
    <3> QED
      BY <2>1, <2>2, <3>1, <3>2, <3>3
  <2>4. OncePerBroker'
    BY <2>2 DEF OncePerBroker
  <2> QED
    BY <2>3, <2>4
<1>8. CASE UNCHANGED vars
  BY <1>8 DEF vars, SentIsMarked, OncePerBroker
<1> QED
  BY <1>1, <1>2, <1>3, <1>4, <1>5, <1>6, <1>7, <1>8
     DEF Next

LEMMA LinksIInvStep == IInv /\ [Next]_vars => IInv'
<1> SUFFICES ASSUME IInv, [Next]_vars PROVE IInv'
  OBVIOUS
<1>1. FilterOK(hist') /\ AgesAgree' /\ Remembered'
  BY FilterStep DEF IInv
<1>2. TypeOK'
  BY LinksTypeStep DEF IInv
<1>3. NearByConsent' /\ AirOnlyByConsent' /\ FromBrokers'
  BY NearByConsentStep, AirOnlyByConsentStep, FromBrokersStep DEF IInv
<1>4. SentIsMarked' /\ OncePerBroker'
  BY OnceStep DEF IInv
<1> QED
  BY <1>1, <1>2, <1>3, <1>4 DEF IInv, FilterOK

-----------------------------------------------------------------------------
(* Theorems. *)

\* What links and filter keep true together.
THEOREM LinksInductive == Spec => []IInv
  BY LinksInitInv, LinksIInvStep, PTL DEF Spec

\* The variables have their types: the filter never holds more than its capacity.
THEOREM LinksTypeCorrect == Spec => []TypeOK
<1>1. IInv => TypeOK
  BY DEF IInv
<1> QED
  BY <1>1, LinksInductive, PTL

\* A packet known from brokers only goes on air only as far as a connection it came from lets
\* it: onMessage cuts its hops before any hosted node can relay it.
THEOREM LinksAirOnlyByConsent == Spec => []AirOnlyByConsent
<1>1. IInv => AirOnlyByConsent
  BY DEF IInv
<1> QED
  BY <1>1, LinksInductive, PTL

\* No broker gets a packet twice within originTTL, however many connections lead to it and
\* whichever receiver offers it: Uplinked.first marks before anything is published.
THEOREM LinksOncePerBroker == Spec => []OncePerBroker
<1>1. IInv => OncePerBroker
  BY DEF IInv
<1> QED
  BY <1>1, LinksInductive, PTL

\* What no one ever sent us in the clear of via_mqtt leaves on a connection only with
\* cross_link, and only if another connection with cross_link brought it.
THEOREM LinksCrossOnlyByConsent == Spec => CrossOnlyByConsent
<1> DEFINE Crosses == \A l \in Conns, k \in Foreign \ plain :
                        <<l, k>> \in DOMAIN sent' \ DOMAIN sent
                          => l \in CrossLink /\ (came[k] \ {l}) \cap CrossLink # {}
<1>1. IInv /\ [Next]_vars => [Crosses]_vars
  <2> SUFFICES ASSUME IInv, [Next]_vars, NEW l \in Conns, NEW k \in Foreign \ plain,
                      <<l, k>> \in DOMAIN sent' \ DOMAIN sent
               PROVE  l \in CrossLink /\ (came[k] \ {l}) \cap CrossLink # {}
    OBVIOUS
  <2>1. CASE DOMAIN sent' \subseteq DOMAIN sent
    BY <2>1
  <2>2. ASSUME NEW r \in Receivers, NEW m \in Conns, Offer(r, m)
        PROVE  l \in CrossLink /\ (came[k] \ {l}) \cap CrossLink # {}
    <3>1. Carries(m, job[r].key, job[r].via) /\ sent' = Sent(m, job[r].key) /\ job[r] # None
      BY <2>1, <2>2 DEF Offer, Publish
    <3>2. m = l /\ job[r].key = k
      BY <3>1 DEF Sent
    <3>3. CrossLinked(k, l)
      BY <3>1, <3>2 DEF Carries, IInv, FromBrokers
    <3> QED
      BY <3>3 DEF CrossLinked, IInv, FromBrokers
  <2>3. ASSUME NEW m \in Conns, NEW j \in Sending, SendPacket(m, j)
        PROVE  l \in CrossLink /\ (came[k] \ {l}) \cap CrossLink # {}
    <3>1. k # j
      BY LinksAssumption DEF Foreign
    <3>2. sent' = Sent(m, j)
      BY <2>1, <2>3 DEF SendPacket, Publish
    <3> QED
      BY <3>1, <3>2 DEF Sent
  <2>4. ASSUME Tick PROVE DOMAIN sent' \subseteq DOMAIN sent
    BY <2>4 DEF Tick
  <2>5. CASE UNCHANGED sent
    BY <2>1, <2>5
  <2> QED
    BY <2>1, <2>2, <2>3, <2>4, <2>5 DEF Next, RadioHears, OnMessage, HandleReceived, Relay, vars
<1> QED
  BY <1>1, LinksInductive, PTL DEF Spec, CrossOnlyByConsent

\* A packet is decoded, sniffed and offered again only when the filter was to forget it: its
\* time is over, or Cap other packets came after it.
THEOREM LinksNewsOnlyWhenForgotten == Spec => NewsOnlyWhenForgotten
<1> DEFINE News == \A r \in Receivers :
                     job[r] # None /\ job'[r] # None /\ job[r].step = "tapped" /\ job'[r].step = "new"
                       => LET k == job[r].key
                          IN  news[k] > HistTTL \/ Cardinality(fresher[k]) >= Cap
<1>1. IInv /\ [Next]_vars => [News]_vars
  <2> SUFFICES ASSUME IInv, [Next]_vars, NEW r \in Receivers, job[r] # None, job'[r] # None,
                      job[r].step = "tapped", job'[r].step = "new"
               PROVE  news[job[r].key] > HistTTL \/ Cardinality(fresher[job[r].key]) >= Cap
    OBVIOUS
  <2> DEFINE k == job[r].key
  <2>0. TypeOK
    BY DEF IInv
  <2>1. CASE job'[r] = job[r]
    BY <2>1
  <2>2. ASSUME NEW q \in Receivers, HandleReceived(q) PROVE (k \in Readable /\ ~Current(hist, k)) \/ job'[r] = job[r]
    BY <2>0, <2>2 DEF HandleReceived, TypeOK
  <2>3. CASE k \in Readable /\ ~Current(hist, k)
    <3> SUFFICES ASSUME news[k] <= HistTTL, Cardinality(fresher[k]) < Cap PROVE FALSE
      <4>1. Cardinality(fresher[k]) \in Nat /\ news[k] \in Nat /\ Cap \in Nat /\ HistTTL \in Nat
        BY <2>3, FS_CardinalityType, HistoryAssumption DEF IInv, Remembered, TypeOK
      <4> QED
        BY <4>1
    <3>1. Placed(hist, k, fresher[k])
      BY <2>3 DEF IInv, Remembered
    <3>2. PICK i \in 1..Len(hist) : hist[i].key = k
      BY <3>1 DEF Placed
    <3>3. hist[i].age = news[k]
      BY <2>3, <3>2 DEF IInv, AgesAgree
    <3>4. i \in DOMAIN hist
      BY <2>0, LenProperties DEF TypeOK
    <3> QED
      BY <2>3, <3>2, <3>3, <3>4 DEF Current
  <2>4. ASSUME NEW q \in Receivers, NEW l \in Conns, Offer(q, l) PROVE job'[r] = job[r] \/ job'[r].step = job[r].step
    BY <2>0, <2>4 DEF Offer, TypeOK, Jobs
  <2>5. ASSUME NEW j \in Keys, NEW via \in BOOLEAN, RadioHears(j, via) PROVE job'[r] = job[r]
    BY <2>0, <2>5 DEF RadioHears, TypeOK
  <2>6. ASSUME NEW l \in Conns, NEW j \in Keys, NEW hop \in Hops, OnMessage(l, j, hop) PROVE job'[r] = job[r]
    BY <2>0, <2>6 DEF OnMessage, TypeOK
  <2>7. CASE UNCHANGED job
    BY <2>1, <2>7
  <2> HIDE DEF k
  <2>8. job[r].step # job'[r].step
    OBVIOUS
  <2>9. k = job[r].key
    BY DEF k
  <2> QED
    BY <2>1, <2>2, <2>3, <2>4, <2>5, <2>6, <2>7, <2>8, <2>9 DEF Next, SendPacket, Relay, Tick, vars
<1> QED
  BY <1>1, LinksInductive, PTL DEF Spec, NewsOnlyWhenForgotten
=============================================================================
