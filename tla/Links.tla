------------------------------- MODULE Links -------------------------------
(***************************************************************************)
(* What one host hears, and where it passes it on: the radio's receive     *)
(* loop (mesh/host.go rxLoop) and every MQTT connection (links/mqtt) hand  *)
(* packets to Host.HandleReceived, which                                   *)
(*   - has given them to the hosted nodes, whose relay may put them on air, *)
(*   - asks the duplicate filter (module History),                         *)
(*   - and offers what is new to every connection, which publishes it to   *)
(*     its broker if its settings allow it.                                *)
(* Each receiver is a goroutine of its own (paho runs a connection's       *)
(* message handlers one after the other); they share the filter, Origins   *)
(* (which connection a broker packet came from) and Uplinked (what was     *)
(* published to a broker), each under a mutex of its own.                  *)
(*                                                                         *)
(* Rate limits, and what a node or a broker does, are nondeterministic.    *)
(* Pruning of Origins and Uplinked removes entries that count as absent.   *)
(***************************************************************************)
EXTENDS History, FiniteSets

CONSTANTS
  Own,           \* packets of identities of this site
  Sending,       \* of these, the ones this radio transmits on a channel
  Readable,      \* others' packets on a channel we hold and carry (decode)
  Consent,       \* packets whose sender set OK_TO_MQTT
  Conns,         \* MQTT connections of the radio
  Dest,          \* Dest[l]: broker and root topic of connection l
  Uplinks,       \* connections that publish (uplinks)
  Downlinks,     \* connections that take packets from their broker
  CrossLink,     \* connections with cross_link
  RelayMQTT,     \* connections with relay_mqtt
  RelayHops,     \* RelayHops[l]: hops on air after the rebroadcast
  IgnoreConsent, \* connections with ignore_consent
  OriginTTL,     \* originTTL (10 minutes)
  MaxHop,        \* largest hop limit
  Hops,          \* hop limits broker packets come with
  Radio,         \* the receiver that is no connection
  None

Receivers == {Radio} \cup Conns
Foreign == Keys \ Own
Dests == {Dest[l] : l \in Conns}

ASSUME LinksAssumption ==
  /\ Sending \subseteq Own /\ Own \subseteq Keys /\ Readable \subseteq Foreign /\ Consent \subseteq Keys
  /\ Uplinks \cup Downlinks \cup CrossLink \cup RelayMQTT \cup IgnoreConsent \subseteq Conns
  /\ RelayHops \in [Conns -> Nat]
  /\ OriginTTL \in Nat \ {0} /\ MaxHop \in Nat /\ Hops \subseteq 0..MaxHop
  /\ Radio \notin Conns /\ None \notin Conns

VARIABLES
  hist,      \* Host.hist, see History
  origins,   \* origins[k]: the connection k came from last, and when (Origins.seen)
  uplinked,  \* <<destination, packet>> -> age, of those younger than OriginTTL (Uplinked.seen)
  job,       \* job[r]: the packet receiver r is handling, and how far it is: given
             \* to the nodes (tapped), or new and still to be offered to left
  near       \* near[k]: largest hop limit k was given to the hosted nodes with

\* History, read by properties only.
VARIABLES
  heard,     \* others' packets the radio has heard
  plain,     \* of these, the ones that did not carry via_mqtt
  came,      \* came[k]: connections k was taken from
  aired,     \* aired[k]: hop limits our relay put k on air with
  sent,      \* <<connection, packet>> -> [age, again], of publications younger than OriginTTL
  news,      \* news[k]: time since k was last put in the filter
  fresher    \* fresher[k]: packets put in the filter, or heard, after k

vars == <<hist, origins, uplinked, job, near,
          heard, plain, came, aired, sent, news, fresher>>

Init ==
  /\ hist = <<>>
  /\ origins = [k \in Foreign |-> None]
  /\ uplinked = [dk \in {} |-> 0]
  /\ job = [r \in Receivers |-> None]
  /\ near = [k \in Foreign |-> 0]
  /\ heard = {} /\ plain = {}
  /\ sent = [dk \in {} |-> 0]
  /\ came = [k \in Foreign |-> {}]
  /\ aired = [k \in Foreign |-> {}]
  /\ news = [k \in Readable |-> HistTTL + 1]
  /\ fresher = [k \in Readable |-> {}]

-----------------------------------------------------------------------------
(* The hosted nodes.                                                       *)

\* inject: every hosted node gets k with this hop limit.
Inject(k, hop) ==
  near' = IF k \in Foreign /\ near[k] < hop THEN [near EXCEPT ![k] = hop] ELSE near

\* Config.IgnoreMQTT: no connection lets broker packets on air.
IgnoreMQTT == RelayMQTT = {}

\* Mutant: only the number of hops is limited.
LinkHopsAlways(l, hop) == IF hop > RelayHops[l] + 1 THEN RelayHops[l] + 1 ELSE hop

\* onMessage: the hop limit a broker packet is left with ...
LinkHops(l, hop) ==
  IF l \notin RelayMQTT THEN 0
  ELSE IF hop > RelayHops[l] + 1 THEN RelayHops[l] + 1 ELSE hop

\* LinkHeard: ... and the one the nodes get.
TapHops(l, hop) == IF IgnoreMQTT THEN 0 ELSE LinkHops(l, hop)

\* History: the filter was told of k; isNew when that made a new entry.
Fresher(k, isNew) ==
  /\ news' = IF isNew /\ k \in Readable THEN [news EXCEPT ![k] = 0] ELSE news
  /\ fresher' = [j \in Readable |-> IF j = k THEN {} ELSE fresher[j] \cup {k}]

\* QueueHosted by a node that relays k: it takes a hop off.  (The queue may
\* refuse the frame; the filter is told before.)
Relay(k) ==
  /\ near[k] > 0
  /\ \E hop \in 1..near[k] :
       aired' = [aired EXCEPT ![k] = @ \cup {hop - 1}]
  /\ hist' = MarkTx(hist, k)
  /\ IF Knows(hist, k) THEN UNCHANGED <<news, fresher>> ELSE Fresher(k, TRUE)
  /\ UNCHANGED <<origins, uplinked, job, near, heard, plain, came, sent>>

-----------------------------------------------------------------------------
(* The receivers.                                                          *)

Handling(k, via) == [key |-> k, via |-> via, step |-> "tapped", left |-> {}]

\* rxLoop: the radio hears k, of whatever origin; the taps have it first.
\* (How many hops it has left matters for broker packets only.)
RadioHears(k, via) ==
  /\ job[Radio] = None
  /\ via => k \in Foreign
  /\ Inject(k, 1)
  /\ job' = [job EXCEPT ![Radio] = Handling(k, via)]
  /\ heard' = heard \cup ({k} \cap Foreign)
  /\ plain' = IF via THEN plain ELSE plain \cup ({k} \cap Foreign)
  /\ UNCHANGED <<hist, origins, uplinked, came, aired, sent, news, fresher>>

\* onMessage: connection l takes k from its broker.  (Packets of the site's
\* own identities, and our own publications, are passed over.)
OnMessage(l, k, hop) ==
  /\ l \in Downlinks /\ job[l] = None
  /\ k \in Foreign
  /\ origins' = [origins EXCEPT ![k] = [link |-> l, age |-> 0]]
  /\ Inject(k, TapHops(l, hop))
  /\ job' = [job EXCEPT ![l] = Handling(k, TRUE)]
  /\ came' = [came EXCEPT ![k] = @ \cup {l}]
  /\ UNCHANGED <<hist, uplinked, heard, plain, aired, sent, news, fresher>>

\* HandleReceived: a duplicate, an echo of our own and a packet we cannot
\* read end here; a new one is to be offered to the connections.
HandleReceived(r) ==
  /\ job[r] # None /\ job[r].step = "tapped"
  /\ LET k == job[r].key
         isNew == ~Current(hist, k)
     IN  /\ hist' = Observe(hist, k)
         /\ Fresher(k, isNew)
         /\ job' = [job EXCEPT ![r] =
              IF isNew /\ k \in Readable
              THEN [@ EXCEPT !.step = "new", !.left = Uplinks] ELSE None]
  /\ UNCHANGED <<origins, uplinked, near, heard, plain, came, aired, sent>>

\* Mutant: the connection the packet came from need not allow it.
CrossLinkedTo(k, l) ==
  /\ origins[k] # None
  /\ origins[k].age <= OriginTTL
  /\ origins[k].link # l
  /\ l \in CrossLink

\* Origins.crossLink, and cross_link of the connection it would leave on.
CrossLinked(k, l) ==
  /\ origins[k] # None
  /\ origins[k].age <= OriginTTL
  /\ origins[k].link \in CrossLink \ {l}
  /\ l \in CrossLink

\* ChannelPacketHeard: what connection l passes on.
Carries(l, k, via) ==
  /\ via => CrossLinked(k, l)
  /\ k \in Consent \/ l \in IgnoreConsent

\* A map of the marks younger than OriginTTL, with one more mark, and later.
Marked(m, dk) == [x \in DOMAIN m \cup {dk} |-> IF x = dk THEN 0 ELSE m[x]]
Kept(m) == [x \in {y \in DOMAIN m : m[y] + 1 < OriginTTL} |-> m[x] + 1]

\* The ghost's account of a publication by l.
Sent(l, k) ==
  [x \in DOMAIN sent \cup {<<l, k>>} |->
     IF x = <<l, k>> THEN [age |-> 0, again |-> x \in DOMAIN sent] ELSE sent[x]]

\* Mutant: told apart by connection rather than by broker.
MarkForConnection(l, k) == uplinked' = Marked(uplinked, <<l, k>>)

\* Uplinked.first: whoever asks first may publish k to l's broker ...
First(l, k) == <<Dest[l], k>> \notin DOMAIN uplinked

\* ... and has it remembered, whether or not it will publish.
MarkUplinked(l, k) == uplinked' = Marked(uplinked, <<Dest[l], k>>)

\* publish, on a connection that is up: the rate limit may still drop it.
Publish(l, k) ==
  /\ First(l, k)
  /\ MarkUplinked(l, k)
  /\ \/ sent' = Sent(l, k)
     \/ UNCHANGED sent

\* handleFirstSighting: the new packet is offered to connection l, which
\* publishes it or, as when it is disconnected, does nothing.
Offer(r, l) ==
  /\ job[r] # None /\ l \in job[r].left
  /\ LET rest == job[r].left \ {l}
     IN  job' = [job EXCEPT ![r] = IF rest = {} THEN None ELSE [@ EXCEPT !.left = rest]]
  /\ \/ Carries(l, job[r].key, job[r].via) /\ Publish(l, job[r].key)
     \/ UNCHANGED <<uplinked, sent>>
  /\ UNCHANGED <<hist, origins, near, heard, plain, came, aired, news, fresher>>

\* sendToLinks, from the transmit loop: k of our own went on air.
SendPacket(l, k) ==
  /\ k \in Sending /\ l \in Uplinks
  /\ Publish(l, k)
  /\ UNCHANGED <<hist, origins, job, near, heard, plain, came, aired, news, fresher>>

-----------------------------------------------------------------------------
Older(age, ttl) == IF age > ttl THEN age ELSE age + 1

\* A unit of time passes.
Tick ==
  /\ hist' = Aged(hist)
  /\ origins' = [k \in Foreign |-> IF origins[k] = None \/ origins[k].age > OriginTTL
                                   THEN None ELSE [origins[k] EXCEPT !.age = @ + 1]]
  /\ uplinked' = Kept(uplinked)
  /\ sent' = [x \in {y \in DOMAIN sent : sent[y].age + 1 < OriginTTL} |->
                [sent[x] EXCEPT !.age = @ + 1]]
  /\ news' = [k \in Readable |-> Older(news[k], HistTTL)]
  /\ UNCHANGED <<job, near, heard, plain, came, aired, fresher>>

Next ==
  \/ \E k \in Keys, via \in BOOLEAN : RadioHears(k, via)
  \/ \E l \in Conns, k \in Keys, hop \in Hops : OnMessage(l, k, hop)
  \/ \E r \in Receivers : HandleReceived(r)
  \/ \E r \in Receivers, l \in Conns : Offer(r, l)
  \/ \E l \in Conns, k \in Sending : SendPacket(l, k)
  \/ \E k \in Foreign : Relay(k)
  \/ Tick

Spec == Init /\ [][Next]_vars
-----------------------------------------------------------------------------
(* Properties.                                                             *)

Entries == [key : Keys, age : 0..(HistTTL + 1)]
Jobs == [key : Keys, via : BOOLEAN, step : {"tapped", "new"}, left : SUBSET Uplinks]

TypeOK ==
  /\ hist \in Seq(Entries) /\ Len(hist) <= Cap
  /\ origins \in [Foreign -> [link : Conns, age : Nat] \cup {None}]
  /\ DOMAIN uplinked \subseteq Dests \X Keys /\ uplinked \in [DOMAIN uplinked -> Nat]
  /\ job \in [Receivers -> Jobs \cup {None}]
  /\ near \in [Foreign -> Nat] /\ aired \in [Foreign -> SUBSET Nat]
  /\ heard \subseteq Foreign /\ plain \subseteq heard /\ came \in [Foreign -> SUBSET Conns]
  /\ DOMAIN sent \subseteq Uplinks \X Keys /\ sent \in [DOMAIN sent -> [age : Nat, again : BOOLEAN]]
  /\ news \in [Readable -> 0..(HistTTL + 1)] /\ fresher \in [Readable -> SUBSET Keys]

\* A packet is news once: the decoding, the sniffing and the offer to the
\* connections happen again only when its time is over or as many other
\* packets as the filter holds were heard or relayed since it last was,
\* whichever receivers bring its copies and however they interleave.
NewsOnlyWhenForgotten ==
  [][\A r \in Receivers :
       job[r] # None /\ job'[r] # None /\ job[r].step = "tapped" /\ job'[r].step = "new"
         => LET k == job[r].key
            IN  news[k] > HistTTL \/ Cardinality(fresher[k]) >= Cap]_vars

\* "Packets from one connection go out on another only when both set
\* cross_link" (docs/mqtt.md), and never only back where they came from,
\* although a second copy may replace what Origins knows of the first while
\* that is being offered, and our own relay may bring it back by radio.
CrossOnlyByConsent ==
  [][\A l \in Conns, k \in Foreign \ plain :
       <<l, k>> \in DOMAIN sent' \ DOMAIN sent
         => l \in CrossLink /\ (came[k] \ {l}) \cap CrossLink # {}]_vars

\* A packet that came from brokers only goes on air only if one of the
\* connections it came from has relay_mqtt, and travels no farther than that
\* connection's relay_hops.
AirOnlyByConsent ==
  \A k \in Foreign \ heard : \A hop \in aired[k] :
    \E l \in came[k] \cap RelayMQTT : hop <= RelayHops[l]

\* A broker is given a packet once within originTTL, by whichever connections
\* of the site lead to it.
OncePerBroker ==
  /\ \A x \in DOMAIN sent : ~sent[x].again
  /\ \A x, y \in DOMAIN sent : x # y /\ x[2] = y[2] => Dest[x[1]] # Dest[y[1]]
=============================================================================
