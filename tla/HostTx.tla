------------------------------- MODULE HostTx -------------------------------
(***************************************************************************)
(* The transmit path of one host (internal/mesh): hosted nodes put frames  *)
(* on the host's queue (QueueHosted), one goroutine takes them off and     *)
(* transmits, drops or defers them (txLoop, transmitNext), while           *)
(*   - the receive loop cancels relays somebody else already did,          *)
(*   - web handlers switch the relay role (SetRelayRole, dropAllOutgoing), *)
(*   - clients send text messages and nodes report what became of them.    *)
(*                                                                         *)
(* The goroutines share the queue (one mutex), the relay role (cfgMu) and  *)
(* the message store (one mutex); each step below is what one of them does *)
(* between two such accesses.  The site's gate (acquireSiteTurn) answers   *)
(* nondeterministically here; module Site models it.                       *)
(***************************************************************************)
EXTENDS TxQueue

CONSTANTS
  Texts,       \* own packets that are text messages: the store tracks these
  Sealed,      \* texts their node encrypts itself (PKI direct): no txItem.plain
  Admins,      \* web requests that may change the relay role, concurrently
  Roles,       \* relay roles in use, see SilentRoles
  Ms,          \* Ms[k]: airtime of packet k
  DutyLimit,   \* this host's hourly airtime budget
  MaxDefers,   \* channel-busy deferrals of one item (12 in deferIfBusy)
  MaxTries,    \* bound: MaxTries[k] transmissions of k asked for by its node
  MaxSwitches, \* bound: relay role changes
  None         \* no item in hand

SilentRoles == {"monitor", "off"}
RouterRoles == {"router", "router_late"}

ASSUME HostAssumption ==
  /\ Texts \subseteq Own /\ Sealed \subseteq Texts
  /\ Ms \in [Packets -> Nat \ {0}]
  /\ DutyLimit \in Nat
  /\ MaxDefers \in Nat
  /\ MaxTries \in [Packets -> Nat]
  /\ MaxSwitches \in Nat
  /\ None \notin Items

VARIABLES
  queue,     \* txq.items
  seq,       \* txq.seq, the number of the last item queued
  role,      \* cfg.RelayRole
  jobs,      \* jobs[a]: what SetRelayRole has left to drop and to fail
  pc,        \* where txLoop is
  item,      \* the packet txLoop has in hand
  ctx,       \* the host's context: "live" or "done"
  air,       \* airtime sent in the last hour (Airtime.HourTotals)
  status,    \* status[p]: what the message store says of text p
  node       \* node[p]: how far the node of p's sender is with it

\* History, read by properties only.
VARIABLES
  tries,     \* tries[k]: calls of QueueHosted for packet k
  accepted,  \* accepted[k]: of these, the ones the queue took
  handed,    \* handed[k]: frames of k handed to the radio
  offTx,     \* frames handed to the radio since it was switched off
  lost,      \* texts a copy of which was dropped and nobody told
  muted,     \* texts a copy of which was dropped off air and nobody told
  switches   \* role changes so far

queueVars == <<queue, seq>>
roleVars == <<role, jobs>>
loopVars == <<pc, item>>
msgVars == <<status, node>>
countVars == <<tries, accepted, handed>>
dropVars == <<lost, muted>>
histVars == <<tries, accepted, handed, offTx, lost, muted, switches>>
vars == <<queue, seq, role, jobs, pc, item, ctx, air, status, node,
          tries, accepted, handed, offTx, lost, muted, switches>>

Statuses == {"none", "queued", "sent", "acked", "failed"}
Stages == {"idle", "admit", "sense", "gate", "recheck", "send", "onair", "ended"}
NoJob == [left |-> {}, fail |-> {}]

\* Mutant: only monitor mode is silent.
TransmitsWhenOff == role # "monitor"

Transmits == role \notin SilentRoles

TypeOK ==
  /\ queue \subseteq Items
  /\ seq \in Nat
  /\ role \in Roles
  /\ jobs \in [Admins -> [left : SUBSET Identities, fail : SUBSET Packets]]
  /\ pc \in Stages
  /\ item \in Items \cup {None}
  /\ ctx \in {"live", "done"}
  /\ air \in Nat
  /\ status \in [Texts -> Statuses]
  /\ node \in [Own -> {"none", "adding", "trying", "done"}]
  /\ tries \in [Packets -> Nat]
  /\ accepted \in [Packets -> Nat]
  /\ handed \in [Packets -> Nat]
  /\ offTx \in Nat
  /\ lost \subseteq Texts
  /\ muted \subseteq Texts
  /\ switches \in Nat

Init ==
  /\ queue = {} /\ seq = 0
  /\ role \in Roles \ SilentRoles
  /\ jobs = [a \in Admins |-> NoJob]
  /\ pc = "idle" /\ item = None /\ ctx = "live"
  /\ air = 0
  /\ status = [p \in Texts |-> "none"]
  /\ node = [p \in Own |-> IF p \in Texts THEN "none" ELSE "trying"]
  /\ tries = [k \in Packets |-> 0]
  /\ accepted = [k \in Packets |-> 0]
  /\ handed = [k \in Packets |-> 0]
  /\ offTx = 0 /\ lost = {} /\ muted = {} /\ switches = 0

-----------------------------------------------------------------------------
(* The message store and the small operations of the transmit path.        *)

\* Mutant: a late result overwrites an acknowledgement.
WithStatusAnyhow(st, p, s) ==
  IF p \in Texts /\ st[p] # "none" THEN [st EXCEPT ![p] = s] ELSE st

\* MessageStore.SetStatus: only a message it holds, and never off "acked".
WithStatus(st, p, s) ==
  IF p \in Texts /\ st[p] # "none" /\ ~(st[p] = "acked" /\ s # "acked")
  THEN [st EXCEPT ![p] = s] ELSE st

SetStatus(p, s) == status' = WithStatus(status, p, s)

\* A copy of k is dropped and its sender's message stays as it is.
Lose(k) == lost' = lost \cup ({k} \cap Texts)

\* Airtime.AddTx: the rolling hour.
AddTx(k) == air' = air + Ms[k]

NewItem(k, hop) ==
  [key |-> k, hop |-> hop, due |-> TRUE, attempts |-> 0, seq |-> seq + 1]

-----------------------------------------------------------------------------
(* Clients and hosted nodes.                                               *)

\* Send, first part: the text is in the store before its node has it.
SendText(p) ==
  /\ node[p] = "none"
  /\ node' = [node EXCEPT ![p] = "adding"]
  /\ status' = [status EXCEPT ![p] = "queued"]
  /\ UNCHANGED <<queueVars, roleVars, loopVars, ctx, air, histVars>>

\* sendRemote: the node took the packet.
HandToNode(p) ==
  /\ node[p] = "adding"
  /\ node' = [node EXCEPT ![p] = "trying"]
  /\ UNCHANGED <<queueVars, roleVars, loopVars, ctx, air, status, histVars>>

\* No node behind the identity, or SendPacket failed: failMessage.
HandOverFails(p) ==
  /\ node[p] = "adding"
  /\ node' = [node EXCEPT ![p] = "done"]
  /\ SetStatus(p, "failed")
  /\ UNCHANGED <<queueVars, roleVars, loopVars, ctx, air, histVars>>

\* A hosted node transmits k, for the first time or again, at hop limit hop.
QueueHosted(k, hop) ==
  /\ k \in Own => node[k] = "trying"
  /\ k \in Own => hop = MaxHop
  /\ tries[k] < MaxTries[k]
  /\ tries' = [tries EXCEPT ![k] = @ + 1]
  /\ \/ /\ Accepts(queue, NewItem(k, hop))
        /\ queue' = Enqueue(queue, NewItem(k, hop)) /\ seq' = seq + 1
        /\ accepted' = [accepted EXCEPT ![k] = @ + 1]
        /\ UNCHANGED lost
     \/ /\ ~Accepts(queue, NewItem(k, hop))   \* ErrQueueFull: only logged
        /\ Lose(k)
        /\ UNCHANGED <<queueVars, accepted>>
  /\ UNCHANGED <<roleVars, loopVars, ctx, air, msgVars, handed, offTx, muted, switches>>

\* routingResult: the node saw p acknowledged (possibly after it gave up) ...
Acked(p) ==
  /\ node[p] \in {"trying", "done"}
  /\ SetStatus(p, "acked")
  /\ node' = [node EXCEPT ![p] = "done"]
  /\ UNCHANGED <<queueVars, roleVars, loopVars, ctx, air, histVars>>

\* ... or it reports an error (no answer, no route) and stops trying.
Nacked(p) ==
  /\ node[p] = "trying"
  /\ node' = [node EXCEPT ![p] = "done"]
  /\ SetStatus(p, "failed")
  /\ UNCHANGED <<queueVars, roleVars, loopVars, ctx, air, histVars>>

\* The packet asked for no acknowledgement: its node sends it and is done.
Unacknowledged(p) ==
  /\ node[p] = "trying" /\ tries[p] > 0
  /\ node' = [node EXCEPT ![p] = "done"]
  /\ UNCHANGED <<queueVars, roleVars, loopVars, ctx, air, status, histVars>>

-----------------------------------------------------------------------------
(* The receive loop.                                                       *)

\* heardAgain: another copy of a relayed packet, relayed first by somebody
\* else.  (The next hop of a packet, and a router, relay it all the same.)
HeardAgain(k) ==
  /\ role \notin RouterRoles
  /\ queue' = CancelRelay(queue, k)
  /\ queue' # queue
  /\ UNCHANGED <<seq, roleVars, loopVars, ctx, air, msgVars, histVars>>

\* heardAgain, Upgraded: a copy with more hops left replaces our relay.
HeardBetter(k, hop) ==
  /\ queue' = RemoveLowerHop(queue, k, hop)
  /\ queue' # queue
  /\ UNCHANGED <<seq, roleVars, loopVars, ctx, air, msgVars, histVars>>

\* sniffRouting: k has been answered, its relay is no longer needed.
Answered(k) ==
  /\ queue' = CancelRelay(queue, k)
  /\ queue' # queue
  /\ UNCHANGED <<seq, roleVars, loopVars, ctx, air, msgVars, histVars>>

-----------------------------------------------------------------------------
(* SetRelayRole and setConfig, called by any web request.                  *)

\* cfg.RelayRole changes.
SwitchTo(r) ==
  /\ switches < MaxSwitches /\ r # role
  /\ switches' = switches + 1
  /\ role' = r
  /\ offTx' = IF r \in SilentRoles /\ role \notin SilentRoles THEN 0 ELSE offTx
  /\ UNCHANGED <<queueVars, loopVars, ctx, air, msgVars, countVars, dropVars>>

\* If the new role is silent everything queued is to go.
SetRelayRole(a, r) ==
  /\ jobs[a] = NoJob
  /\ SwitchTo(r)
  /\ jobs' = IF r \in SilentRoles
             THEN [jobs EXCEPT ![a].left = Identities] ELSE jobs

\* setConfig stores the new role with the other settings: the SetRelayRole it
\* calls next finds nothing changed, and what is queued stays queued.
SetConfig(r) == SwitchTo(r) /\ UNCHANGED jobs

\* DropOutgoing of one identity: DropOrigin empties the queue of it ...
DropOrigin(a, n) ==
  /\ jobs[a].fail = {}
  /\ n \in jobs[a].left
  /\ queue' = queue \ OfOrigin(queue, n)
  /\ jobs' = [jobs EXCEPT ![a] =
       [left |-> @.left \ {n}, fail |-> {x.key : x \in OfOrigin(queue, n)}]]
  /\ UNCHANGED <<seq, role, loopVars, ctx, air, msgVars, histVars>>

\* Mutant: what DropOrigin returned is not used.
ForgetDropped(a, k) ==
  /\ k \in jobs[a].fail
  /\ jobs' = [jobs EXCEPT ![a].fail = @ \ {k}]
  /\ UNCHANGED <<queueVars, role, loopVars, ctx, air, msgVars, histVars>>

\* ... and each packet taken out is then marked failed.
FailDropped(a, k) ==
  /\ k \in jobs[a].fail
  /\ jobs' = [jobs EXCEPT ![a].fail = @ \ {k}]
  /\ SetStatus(k, "failed")
  /\ UNCHANGED <<queueVars, role, loopVars, ctx, air, node, histVars>>

-----------------------------------------------------------------------------
(* txLoop and transmitNext.                                                *)

\* A deferred item's due time comes.
DueComes(x) ==
  /\ x \in queue /\ ~x.due
  /\ queue' = (queue \ {x}) \cup {[x EXCEPT !.due = TRUE]}
  /\ UNCHANGED <<seq, roleVars, loopVars, ctx, air, msgVars, histVars>>

\* Next: take the due item that sends first.
TakeNext ==
  /\ pc = "idle"
  /\ \E x \in Due(queue) :
       /\ \A y \in Due(queue) : ~SendsBefore(y, x)
       /\ item' = x
       /\ queue' = queue \ {x}
  /\ pc' = "admit"
  /\ UNCHANGED <<seq, roleVars, ctx, air, msgVars, histVars>>

\* Next returns ctx's error once nothing is due: txLoop ends.
LoopEnds ==
  /\ pc = "idle" /\ Due(queue) = {} /\ ctx = "done"
  /\ pc' = "ended"
  /\ UNCHANGED <<queueVars, roleVars, item, ctx, air, msgVars, histVars>>

\* The item is done with.
Finish == pc' = "idle" /\ item' = None

\* Mutant: the budget may be used up to and including its last millisecond.
OverDutyOffByOne == air > DutyLimit

OverDuty == air >= DutyLimit

\* dropForDuty: the host's own budget, or the site's, is spent.
DropForDuty ==
  /\ \/ pc = "admit" /\ OverDuty
     \/ pc = "gate"                    \* ErrSiteDutyCycle
  /\ Finish
  /\ IF Relay(item) THEN UNCHANGED status ELSE SetStatus(item.key, "failed")
  /\ UNCHANGED <<queueVars, roleVars, ctx, air, node, histVars>>

\* Mutant: in monitor or off mode the packet is kept for better times.
KeepOffAir ==
  /\ pc = "admit" /\ ~OverDuty /\ ~Transmits
  /\ Finish
  /\ queue' = queue \cup {item}
  /\ UNCHANGED <<seq, roleVars, ctx, air, msgVars, histVars>>

\* refuseOffAir: monitor or off mode.  Whether it is a text is read off
\* it.plain, so a sealed one goes without a word.
RefuseOffAir ==
  /\ pc = "admit" /\ ~OverDuty /\ ~Transmits
  /\ Finish
  /\ IF item.key \in Texts \ Sealed THEN SetStatus(item.key, "failed") ELSE UNCHANGED status
  /\ muted' = muted \cup ({item.key} \cap Sealed)
  /\ UNCHANGED <<queueVars, roleVars, ctx, air, node, countVars, offTx, lost, switches>>

Admit ==
  /\ pc = "admit" /\ ~OverDuty /\ Transmits
  /\ pc' = "sense"
  /\ UNCHANGED <<queueVars, roleVars, item, ctx, air, msgVars, histVars>>

\* The item put off: one more attempt, a later place among its equals.
Deferred(it) ==
  [it EXCEPT !.due = FALSE, !.attempts = it.attempts + 1, !.seq = seq + 1]

\* Mutant: the deferred item is queued again, and sent all the same.
DeferAndSend ==
  /\ pc = "sense" /\ item.attempts < MaxDefers
  /\ Accepts(queue, Deferred(item))
  /\ queue' = Enqueue(queue, Deferred(item)) /\ seq' = seq + 1
  /\ pc' = "gate"
  /\ UNCHANGED <<roleVars, item, ctx, air, msgVars, histVars>>

\* deferIfBusy on a busy channel: back on the queue for later.  Enqueue's
\* result is ignored, so on a full queue the packet is gone.
DeferBusy ==
  /\ pc = "sense" /\ item.attempts < MaxDefers
  /\ Finish
  /\ \/ /\ Accepts(queue, Deferred(item))
        /\ queue' = Enqueue(queue, Deferred(item)) /\ seq' = seq + 1
        /\ UNCHANGED lost
     \/ /\ ~Accepts(queue, Deferred(item))
        /\ Lose(item.key)
        /\ UNCHANGED queueVars
  /\ UNCHANGED <<roleVars, ctx, air, msgVars, countVars, offTx, muted, switches>>

\* The channel is free, or could not be read, or the item waited enough.
ChannelClear ==
  /\ pc = "sense"
  /\ pc' = "gate"
  /\ UNCHANGED <<queueVars, roleVars, item, ctx, air, msgVars, histVars>>

\* acquireSiteTurn: this radio's turn (at once for a lone radio).
TurnGranted ==
  /\ pc = "gate"
  /\ pc' = "recheck"
  /\ UNCHANGED <<queueVars, roleVars, item, ctx, air, msgVars, histVars>>

\* The host stops while the item waits for its turn.
TurnCancelled ==
  /\ pc = "gate" /\ ctx = "done"
  /\ pc' = "ended" /\ item' = None
  /\ Lose(item.key)
  /\ UNCHANGED <<queueVars, roleVars, ctx, air, msgVars, countVars, offTx, muted, switches>>

\* Switched to monitor or off while waiting for the turn: the turn is given
\* back and the packet forgotten.
DropAtRecheck ==
  /\ pc = "recheck" /\ ~Transmits
  /\ Finish
  /\ muted' = muted \cup ({item.key} \cap Texts)
  /\ UNCHANGED <<queueVars, roleVars, ctx, air, msgVars, countVars, offTx, lost, switches>>

Recheck ==
  /\ pc = "recheck" /\ Transmits
  /\ pc' = "send"
  /\ UNCHANGED <<queueVars, roleVars, item, ctx, air, msgVars, histVars>>

\* radio.Send is called; the role may have changed since Recheck.
StartSend ==
  /\ pc = "send"
  /\ pc' = "onair"
  /\ handed' = [handed EXCEPT ![item.key] = @ + 1]
  /\ offTx' = IF role \in SilentRoles THEN offTx + 1 ELSE offTx
  /\ UNCHANGED <<queueVars, roleVars, item, ctx, air, msgVars, tries, accepted, dropVars, switches>>

\* radio.Send failed or timed out: counted and logged.
SendFailed ==
  /\ pc = "onair"
  /\ Finish
  /\ Lose(item.key)
  /\ UNCHANGED <<queueVars, roleVars, ctx, air, msgVars, countVars, offTx, muted, switches>>

\* transmitted: account for the frame and tell its sender.
Transmitted ==
  /\ pc = "onair"
  /\ Finish
  /\ AddTx(item.key)
  /\ SetStatus(item.key, "sent")
  /\ UNCHANGED <<queueVars, roleVars, ctx, node, histVars>>

\* A minute leaves the rolling hour.
HourMoves ==
  /\ air > 0
  /\ air' \in 0..(air - 1)
  /\ UNCHANGED <<queueVars, roleVars, loopVars, ctx, msgVars, histVars>>

Shutdown ==
  /\ ctx = "live"
  /\ ctx' = "done"
  /\ UNCHANGED <<queueVars, roleVars, loopVars, air, msgVars, histVars>>

-----------------------------------------------------------------------------
Client == \E p \in Texts :
  \/ SendText(p) \/ HandToNode(p) \/ HandOverFails(p)
  \/ Acked(p) \/ Nacked(p) \/ Unacknowledged(p)

HostedNode == \E k \in Packets : \E hop \in 0..MaxHop : QueueHosted(k, hop)

Receiver == \E k \in Heard :
  HeardAgain(k) \/ Answered(k) \/ \E hop \in 0..MaxHop : HeardBetter(k, hop)

Job(a) == \/ \E n \in Identities : DropOrigin(a, n)
          \/ \E k \in Packets : FailDropped(a, k)

\* Each stage of transmitNext has an answer, whatever the environment does.
TxStep ==
  \/ TakeNext \/ LoopEnds \/ DropForDuty \/ RefuseOffAir \/ Admit
  \/ DeferBusy \/ ChannelClear \/ TurnGranted \/ TurnCancelled
  \/ DropAtRecheck \/ Recheck \/ StartSend \/ SendFailed \/ Transmitted

Clock == HourMoves \/ \E x \in queue : DueComes(x)

Next ==
  \/ Client
  \/ HostedNode
  \/ Receiver
  \/ \E r \in Roles : SetConfig(r) \/ \E a \in Admins : SetRelayRole(a, r)
  \/ \E a \in Admins : Job(a)
  \/ TxStep
  \/ Clock
  \/ Shutdown

Spec == Init /\ [][Next]_vars

\* txLoop is a goroutine that always has something to do or waits for a
\* timer; ChannelBusy and Send end by their contexts, a turn comes because
\* every other radio gives its own back; a web request runs to its end.
FairSpec ==
  /\ Spec
  /\ WF_vars(TxStep)
  /\ WF_vars(\E x \in queue : DueComes(x))
  /\ \A a \in Admins : WF_vars(Job(a))
-----------------------------------------------------------------------------
(* Properties.                                                             *)

InHand(k) == item # None /\ item.key = k
Queued(k) == \E x \in queue : x.key = k

\* Copies of packet k between Enqueue and the radio: queued, or in hand and
\* not yet handed over.
Copies(k) == {x \in queue : x.key = k}
Pending(k) ==
  Cardinality(Copies(k)) + IF InHand(k) /\ pc # "onair" THEN 1 ELSE 0

\* No copy of a packet is transmitted twice: frames handed to the radio plus
\* copies still to come never exceed what the queue accepted, although
\* deferIfBusy puts an item back that TakeNext took out.
NoSecondTransmission ==
  \A k \in Packets : handed[k] + Pending(k) <= accepted[k]

\* The hourly budget is overrun by less than the one packet that was admitted
\* while there was still something left of it (transmitNext checks before the
\* channel and the site make it wait, and accounts after it was sent).
DutyBounded == air > 0 => \E k \in Packets : air < DutyLimit + Ms[k]

\* Switching to monitor or off silences the radio: at most the one frame
\* that had passed its last look at the role is sent after the switch.
QuietWhenOff == role \in SilentRoles => offTx <= 1

\* The store never forgets a text: one that is still "queued" is on its way
\* (its node or the queue has a copy, or txLoop holds it, or a switch-off is
\* about to fail it), or a copy of it was dropped in one of the six ways that
\* tell nobody: queue full (QueueHosted, DeferBusy), radio error, stopped, and
\* off air (DropAtRecheck, and RefuseOffAir of a sealed text).
QueuedIsAccountedFor ==
  \A p \in Texts : status[p] = "queued" =>
    \/ node[p] = "adding" \/ tries[p] = 0
    \/ Queued(p) \/ InHand(p)
    \/ \E a \in Admins : p \in jobs[a].fail
    \/ p \in lost \cup muted

\* An acknowledged text stays acknowledged, whatever late transmission,
\* switch-off or error report for it comes in afterwards.
AckIsFinal ==
  [][\A p \in Texts : status[p] = "acked" => status'[p] = "acked"]_vars

\* Room is made at the expense of relays only: an identity's own packet leaves
\* the queue because txLoop takes it or because a switch-off drops it, never
\* for a newcomer and never because a neighbour repeated it.
OwnLeavesOnlyForAReason ==
  [][\A x \in queue : ~Relay(x) /\ (\A y \in queue' : y.seq # x.seq) =>
       item' = x \/ \E a \in Admins : x.key \in jobs'[a].fail]_vars

\* A packet the queue accepted is not kept forever: it is sent, dropped or
\* refused, however often the channel is busy (or the host has stopped).
EveryCopyLeaves ==
  \A k \in Packets : (Queued(k) \/ InHand(k)) ~> (~Queued(k) /\ ~InHand(k)) \/ pc = "ended"

\* A text its node has transmitted does not stay "queued": in the end it is
\* sent, acknowledged or failed, unless a copy was dropped in a silent way.
EveryTextResolves ==
  \A p \in Texts :
    (status[p] = "queued" /\ tries[p] > 0)
      ~> (status[p] # "queued" \/ p \in lost \cup muted \/ pc = "ended")
=============================================================================
