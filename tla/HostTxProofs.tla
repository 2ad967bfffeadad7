---------------------------- MODULE HostTxProofs ----------------------------
(***************************************************************************)
(* What module HostTx promises for every set of packets, every queue size, *)
(* every budget and every number of concurrent web requests.               *)
(***************************************************************************)
EXTENDS HostTx, FiniteSetTheorems, TLAPS

\* txLoop has an item in hand in every stage between Next and its return.
HandOK == (item # None) <=> pc \in Stages \ {"idle", "ended"}

-----------------------------------------------------------------------------
(* The queue's operators.                                                  *)

\* Enqueue adds the newcomer and takes out relays only.
LEMMA EnqueueMembers ==
  ASSUME NEW q, NEW it
  PROVE  /\ Enqueue(q, it) \subseteq q \cup {it}
         /\ it \in Enqueue(q, it)
         /\ \A x \in q : ~Relay(x) => x \in Enqueue(q, it)
  BY DEF Enqueue, Worst, Victims, First

\* So does whatever the receive loop takes back.
LEMMA CancelMembers ==
  ASSUME NEW q, NEW k, NEW hop
  PROVE  /\ CancelRelay(q, k) \subseteq q /\ RemoveLowerHop(q, k, hop) \subseteq q
         /\ \A x \in q : ~Relay(x) =>
              x \in CancelRelay(q, k) /\ x \in RemoveLowerHop(q, k, hop)
  BY DEF CancelRelay, RemoveLowerHop, First

LEMMA NewItemType ==
  ASSUME TypeOK, NEW k \in Packets, NEW hop \in 0..MaxHop
  PROVE  /\ NewItem(k, hop) \in Items
         /\ NewItem(k, hop).key = k
  BY QueueAssumption DEF NewItem, Items, TypeOK

LEMMA DeferredType ==
  ASSUME seq \in Nat, NEW it \in Items
  PROVE  /\ Deferred(it) \in Items
         /\ Deferred(it).key = it.key
<1>1. it.attempts + 1 \in Nat /\ seq + 1 \in Nat \ {0}
  BY DEF Items
<1> QED
  BY <1>1 DEF Deferred, Items

-----------------------------------------------------------------------------
(* The message store.                                                      *)

LEMMA WithStatusType ==
  ASSUME NEW st \in [Texts -> Statuses], NEW p, NEW s \in Statuses
  PROVE  WithStatus(st, p, s) \in [Texts -> Statuses]
  BY DEF WithStatus

\* Off "queued", never off "acked", never out of nothing.
LEMMA WithStatusEffect ==
  ASSUME NEW st \in [Texts -> Statuses], NEW p, NEW s \in Statuses \ {"none", "queued"},
         NEW t \in Texts
  PROVE  /\ st[t] = "acked" => WithStatus(st, p, s)[t] = "acked"
         /\ st[t] = "none" => WithStatus(st, p, s)[t] = "none"
         /\ WithStatus(st, p, s)[t] = "queued" => st[t] = "queued" /\ t # p
  BY DEF WithStatus, Statuses

-----------------------------------------------------------------------------
(* Type correctness.                                                       *)

LEMMA InitTypeOK == Init => TypeOK /\ HandOK
<1> SUFFICES ASSUME Init PROVE TypeOK /\ HandOK
  OBVIOUS
<1>1. node \in [Own -> {"none", "adding", "trying", "done"}]
  BY DEF Init
<1>2. jobs \in [Admins -> [left : SUBSET Identities, fail : SUBSET Packets]]
  BY DEF Init, NoJob
<1> QED
  BY <1>1, <1>2 DEF Init, TypeOK, HandOK, Stages, Statuses

LEMMA TypeStep == TypeOK /\ HandOK /\ [Next]_vars => (TypeOK /\ HandOK)'
<1> SUFFICES ASSUME TypeOK, HandOK, [Next]_vars PROVE (TypeOK /\ HandOK)'
  OBVIOUS
<1> USE HostAssumption, QueueAssumption DEF TypeOK, HandOK, Stages, queueVars, roleVars, loopVars, msgVars, countVars, dropVars, histVars, Packets
<1>1. ASSUME NEW p \in Texts, SendText(p) PROVE (TypeOK /\ HandOK)'
  BY <1>1 DEF SendText, Statuses
<1>2. ASSUME NEW p \in Texts, HandToNode(p) PROVE (TypeOK /\ HandOK)'
  BY <1>2 DEF HandToNode
<1>3. ASSUME NEW p \in Texts, HandOverFails(p) PROVE (TypeOK /\ HandOK)'
  BY <1>3, WithStatusType DEF HandOverFails, SetStatus, Statuses
<1>4. ASSUME NEW p \in Texts, Acked(p) PROVE (TypeOK /\ HandOK)'
  BY <1>4, WithStatusType DEF Acked, SetStatus, Statuses
<1>5. ASSUME NEW p \in Texts, Nacked(p) PROVE (TypeOK /\ HandOK)'
  BY <1>5, WithStatusType DEF Nacked, SetStatus, Statuses
<1>6. ASSUME NEW p \in Texts, Unacknowledged(p) PROVE (TypeOK /\ HandOK)'
  BY <1>6 DEF Unacknowledged
<1>7. ASSUME NEW k \in Packets, NEW hop \in 0..MaxHop, QueueHosted(k, hop) PROVE (TypeOK /\ HandOK)'
  BY <1>7, NewItemType, EnqueueMembers DEF QueueHosted, Lose
<1>8. ASSUME NEW k \in Heard, HeardAgain(k) PROVE (TypeOK /\ HandOK)'
  BY <1>8, CancelMembers DEF HeardAgain
<1>9. ASSUME NEW k \in Heard, NEW hop \in 0..MaxHop, HeardBetter(k, hop) PROVE (TypeOK /\ HandOK)'
  BY <1>9, CancelMembers DEF HeardBetter
<1>10. ASSUME NEW k \in Heard, Answered(k) PROVE (TypeOK /\ HandOK)'
  BY <1>10, CancelMembers DEF Answered
<1>11. ASSUME NEW a \in Admins, NEW r \in Roles, SetRelayRole(a, r) PROVE (TypeOK /\ HandOK)'
  BY <1>11 DEF SetRelayRole, SwitchTo, NoJob
<1>12. ASSUME NEW a \in Admins, NEW n \in Identities, DropOrigin(a, n) PROVE (TypeOK /\ HandOK)'
  BY <1>12 DEF DropOrigin, OfOrigin, Items
<1>13. ASSUME NEW a \in Admins, NEW k \in Packets, FailDropped(a, k) PROVE (TypeOK /\ HandOK)'
  <2>1. jobs' \in [Admins -> [left : SUBSET Identities, fail : SUBSET Packets]]
    BY <1>13 DEF FailDropped
  <2>2. status' \in [Texts -> Statuses]
    BY <1>13, WithStatusType DEF FailDropped, SetStatus, Statuses
  <2> QED
    BY <1>13, <2>1, <2>2 DEF FailDropped
<1>14. ASSUME NEW x \in queue, DueComes(x) PROVE (TypeOK /\ HandOK)'
  BY <1>14 DEF DueComes, Items
<1>15. CASE TakeNext
  BY <1>15 DEF TakeNext, Due, Items
<1>16. CASE LoopEnds
  BY <1>16 DEF LoopEnds
<1>17. CASE DropForDuty
  BY <1>17, WithStatusType DEF DropForDuty, Finish, SetStatus, Statuses, Relay
<1>18. CASE RefuseOffAir
  BY <1>18, WithStatusType DEF RefuseOffAir, Finish, SetStatus, Statuses
<1>19. CASE Admit
  BY <1>19 DEF Admit
<1>20. CASE DeferBusy
  <2>1. item \in Items /\ Deferred(item) \in Items
    BY <1>20, DeferredType DEF DeferBusy
  <2> QED
    BY <1>20, <2>1, EnqueueMembers DEF DeferBusy, Finish, Lose
<1>21. CASE ChannelClear
  BY <1>21 DEF ChannelClear
<1>22. CASE TurnGranted
  BY <1>22 DEF TurnGranted
<1>23. CASE TurnCancelled
  BY <1>23 DEF TurnCancelled, Lose
<1>24. CASE DropAtRecheck
  BY <1>24 DEF DropAtRecheck, Finish
<1>25. CASE Recheck
  BY <1>25 DEF Recheck
<1>26. CASE StartSend
  BY <1>26 DEF StartSend, Items
<1>27. CASE SendFailed
  BY <1>27 DEF SendFailed, Finish, Lose
<1>28. CASE Transmitted
  BY <1>28, WithStatusType DEF Transmitted, Finish, SetStatus, Statuses, AddTx, Items
<1>29. CASE HourMoves
  <2>1. air' \in Nat
    BY <1>29 DEF HourMoves
  <2> QED
    BY <1>29, <2>1 DEF HourMoves
<1>30. CASE Shutdown
  BY <1>30 DEF Shutdown
<1>31. ASSUME NEW r \in Roles, SetConfig(r) PROVE (TypeOK /\ HandOK)'
  BY <1>31 DEF SetConfig, SwitchTo
<1>32. CASE UNCHANGED vars
  BY <1>32 DEF vars
<1> QED
  BY <1>1, <1>2, <1>3, <1>4, <1>5, <1>6, <1>7, <1>8, <1>9, <1>10, <1>11, <1>12, <1>13,
     <1>14, <1>15, <1>16, <1>17, <1>18, <1>19, <1>20, <1>21, <1>22, <1>23, <1>24,
     <1>25, <1>26, <1>27, <1>28, <1>29, <1>30, <1>31, <1>32 DEF Next, Client, HostedNode,
     Receiver, Job, TxStep, Clock

\* TypeOK of HostTx: every variable keeps its type, and txLoop never looks
\* into an item it does not hold.
THEOREM HostTypeCorrect == Spec => []TypeOK
<1>1. TypeOK /\ HandOK /\ [Next]_vars => (TypeOK /\ HandOK)'
  BY TypeStep
<1> QED
  BY <1>1, InitTypeOK, PTL DEF Spec

LEMMA Typed == Spec => [](TypeOK /\ HandOK)
  BY TypeStep, InitTypeOK, PTL DEF Spec

-----------------------------------------------------------------------------
(* Who changes what: the steps a property has to look at.                  *)

\* Only txLoop moves its own place and item; airtime also leaves the hour.
LEMMA OnlyTxLoop == [Next]_vars => TxStep \/ HourMoves \/ UNCHANGED <<pc, item, air>>
  BY DEF Next, Client, HostedNode, Receiver, Job, Clock, SendText, HandToNode,
         HandOverFails, Acked, Nacked, Unacknowledged, QueueHosted, HeardAgain,
         HeardBetter, Answered, SetRelayRole, SetConfig, SwitchTo, DropOrigin, FailDropped, DueComes,
         Shutdown, vars, loopVars

\* Only a web request changes the role, only StartSend hands frames over.
LEMMA OnlySwitch ==
  [Next]_vars => \/ StartSend
                 \/ \E r \in Roles : SetConfig(r)
                 \/ \E a \in Admins, r \in Roles : SetRelayRole(a, r)
                 \/ UNCHANGED <<role, offTx>>
  BY DEF Next, Client, HostedNode, Receiver, Job, Clock, TxStep, SendText, HandToNode,
         HandOverFails, Acked, Nacked, Unacknowledged, QueueHosted, HeardAgain,
         HeardBetter, Answered, DropOrigin, FailDropped, DueComes, TakeNext, LoopEnds,
         DropForDuty, RefuseOffAir, Admit, DeferBusy, ChannelClear, TurnGranted,
         TurnCancelled, DropAtRecheck, Recheck, SendFailed, Transmitted, HourMoves,
         Shutdown, vars, roleVars, histVars

-----------------------------------------------------------------------------
(* The hourly budget.                                                      *)

\* What txLoop has admitted was admitted with something of the budget left,
\* and nobody else spends any of it.
DutyOK ==
  /\ pc \in {"sense", "gate", "recheck", "send", "onair"} => air < DutyLimit
  /\ DutyBounded

LEMMA DutyStep == TypeOK /\ HandOK /\ DutyOK /\ [Next]_vars => DutyOK'
<1> SUFFICES ASSUME TypeOK, HandOK, DutyOK, [Next]_vars PROVE DutyOK'
  OBVIOUS
<1> USE HostAssumption
<1>1. air \in Nat /\ DutyLimit \in Nat
  BY DEF TypeOK
<1>2. CASE HourMoves
  <2>1. air' \in Nat /\ air' < air /\ pc' = pc
    BY <1>1, <1>2 DEF HourMoves, loopVars
  <2>2. air > 0
    BY <1>2 DEF HourMoves
  <2>3. PICK k \in Packets : air < DutyLimit + Ms[k]
    BY <2>2 DEF DutyOK, DutyBounded
  <2>4. Ms[k] \in Nat
    OBVIOUS
  <2> QED
    BY <1>1, <2>1, <2>3, <2>4 DEF DutyOK, DutyBounded
<1>3. CASE Transmitted
  <2>1. item.key \in Packets
    BY <1>3 DEF Transmitted, TypeOK, HandOK, Stages, Items
  <2>2. Ms[item.key] \in Nat
    BY <2>1
  <2>3. air < DutyLimit /\ air' = air + Ms[item.key] /\ pc' = "idle"
    BY <1>3 DEF Transmitted, AddTx, Finish, DutyOK
  <2> QED
    BY <1>1, <2>1, <2>2, <2>3 DEF DutyOK, DutyBounded
<1>4. CASE Admit
  BY <1>1, <1>4 DEF Admit, OverDuty, DutyOK, DutyBounded
<1>5. CASE TxStep /\ ~Transmitted /\ ~Admit
  <2>1. /\ air' = air
        /\ pc' \in {"idle", "admit", "ended"} \/ pc \in {"sense", "gate", "recheck", "send"}
    BY <1>5 DEF TxStep, TakeNext, LoopEnds, DropForDuty, RefuseOffAir, DeferBusy,
       ChannelClear, TurnGranted, TurnCancelled, DropAtRecheck, Recheck, StartSend,
       SendFailed, Finish
  <2> QED
    BY <2>1 DEF DutyOK, DutyBounded
<1>6. CASE UNCHANGED <<pc, item, air>>
  BY <1>6 DEF DutyOK, DutyBounded
<1> QED
  BY <1>2, <1>3, <1>4, <1>5, <1>6, OnlyTxLoop

\* DutyBounded of HostTx: the host's hourly airtime goes over its limit by
\* less than one packet, although the check and the accounting are far apart.
THEOREM DutyIsBounded == Spec => []DutyBounded
<1>1. Init => DutyOK
  BY DEF Init, DutyOK, DutyBounded
<1>2. DutyOK => DutyBounded
  BY DEF DutyOK
<1> QED
  BY <1>1, <1>2, DutyStep, Typed, PTL DEF Spec

-----------------------------------------------------------------------------
(* Switching the radio off.                                                *)

\* A frame that passed Recheck counts as one that is still to come.
OffOK == role \in SilentRoles => offTx = 0 \/ (offTx = 1 /\ pc # "send")

LEMMA OffStep == TypeOK /\ OffOK /\ [Next]_vars => OffOK'
<1> SUFFICES ASSUME TypeOK, OffOK, [Next]_vars PROVE OffOK'
  OBVIOUS
<1>1. CASE StartSend
  BY <1>1 DEF StartSend, OffOK, TypeOK, roleVars
<1>2. ASSUME NEW r \in Roles, SwitchTo(r) PROVE OffOK'
  BY <1>2 DEF SwitchTo, OffOK, loopVars
<1>3. CASE Recheck
  BY <1>3 DEF Recheck, Transmits, OffOK, roleVars
<1>4. CASE UNCHANGED <<role, offTx>> /\ (pc' # "send" \/ pc' = pc)
  BY <1>4 DEF OffOK
<1>5. Recheck \/ pc' # "send" \/ pc' = pc
  BY OnlyTxLoop
     DEF TxStep, TakeNext, LoopEnds, DropForDuty, RefuseOffAir, Admit, DeferBusy,
         ChannelClear, TurnGranted, TurnCancelled, DropAtRecheck, StartSend, SendFailed,
         Transmitted, Finish, HourMoves, loopVars
<1> QED
  BY <1>1, <1>2, <1>3, <1>4, <1>5, OnlySwitch DEF SetRelayRole, SetConfig

\* QuietWhenOff of HostTx: after a switch to monitor or off, at most the one
\* frame that had passed transmitNext's second look at the role goes out.
THEOREM OffIsQuiet == Spec => []QuietWhenOff
<1>1. Init => OffOK
  BY DEF Init, OffOK
<1>2. OffOK => QuietWhenOff
  BY DEF OffOK, QuietWhenOff
<1> QED
  BY <1>1, <1>2, OffStep, Typed, PTL DEF Spec

-----------------------------------------------------------------------------
(* What the message store knows.                                           *)

\* A text is in the store before its node has it, and nobody transmits it
\* before that.
StoreOK ==
  \A p \in Texts :
    /\ node[p] = "none" => status[p] = "none"
    /\ node[p] \in {"none", "adding"} => tries[p] = 0

\* The steps that touch the store, the nodes or their tries.
LEMMA OnlyStore ==
  [Next]_vars =>
    \/ Client
    \/ HostedNode
    \/ \E a \in Admins, k \in Packets : FailDropped(a, k)
    \/ DropForDuty \/ RefuseOffAir \/ Transmitted
    \/ UNCHANGED <<status, node, tries>>
  BY DEF Next, Receiver, Job, Clock, TxStep, HeardAgain, HeardBetter, Answered,
         SetRelayRole, SetConfig, SwitchTo, DropOrigin, DueComes, TakeNext, LoopEnds, Admit, DeferBusy,
         ChannelClear, TurnGranted, TurnCancelled, DropAtRecheck, Recheck, StartSend,
         SendFailed, HourMoves, Shutdown, vars, msgVars, countVars, histVars

\* A step reports on one text, or enters one, or leaves the store alone.
LEMMA StatusSteps ==
  ASSUME [Next]_vars
  PROVE  \/ \E p \in Texts : SendText(p)
         \/ \E k : \E s \in {"sent", "acked", "failed"} : SetStatus(k, s)
         \/ UNCHANGED status
<1>1. CASE Client
  BY <1>1 DEF Client, HandToNode, HandOverFails, Acked, Nacked, Unacknowledged
<1>2. CASE HostedNode
  BY <1>2 DEF HostedNode, QueueHosted, msgVars
<1>3. ASSUME NEW a \in Admins, NEW k \in Packets, FailDropped(a, k)
      PROVE  SetStatus(k, "failed")
  BY <1>3 DEF FailDropped
<1>4. CASE DropForDuty
  BY <1>4 DEF DropForDuty
<1>5. CASE RefuseOffAir
  BY <1>5 DEF RefuseOffAir
<1>6. CASE Transmitted
  BY <1>6 DEF Transmitted
<1>7. CASE UNCHANGED <<status, node, tries>>
  BY <1>7
<1> QED
  BY <1>1, <1>2, <1>3, <1>4, <1>5, <1>6, <1>7, OnlyStore

LEMMA StoreStep == TypeOK /\ StoreOK /\ [Next]_vars => StoreOK'
<1> SUFFICES ASSUME TypeOK, StoreOK, [Next]_vars, NEW p \in Texts
             PROVE  /\ node'[p] = "none" => status'[p] = "none"
                    /\ node'[p] \in {"none", "adding"} => tries'[p] = 0
  BY DEF StoreOK
<1>1. p \in Own /\ p \in Packets
  BY HostAssumption DEF Packets
<1>2. node'[p] = "none" => node[p] = "none"
  BY <1>1, OnlyStore
     DEF Client, HostedNode, SendText, HandToNode, HandOverFails, Acked, Nacked,
         Unacknowledged, QueueHosted, FailDropped, DropForDuty, RefuseOffAir,
         Transmitted, TypeOK, msgVars
<1>3. node'[p] = "none" => status'[p] = "none"
  <2>1. SUFFICES ASSUME node'[p] = "none" PROVE status'[p] = "none"
    OBVIOUS
  <2>2. status[p] = "none"
    BY <1>2, <2>1 DEF StoreOK
  <2>3. ASSUME NEW q \in Texts, SendText(q) PROVE status'[p] = status[p]
    <3>1. q # p
      BY <1>1, <2>1, <2>3, HostAssumption DEF SendText, TypeOK
    <3> QED
      BY <2>3, <3>1 DEF SendText, TypeOK
  <2> QED
    BY <2>2, <2>3, StatusSteps, WithStatusEffect DEF SetStatus, TypeOK, Statuses
<1>4. node'[p] \in {"none", "adding"} => node[p] \in {"none", "adding"}
  BY <1>1, OnlyStore
     DEF Client, HostedNode, SendText, HandToNode, HandOverFails, Acked, Nacked,
         Unacknowledged, QueueHosted, FailDropped, DropForDuty, RefuseOffAir,
         Transmitted, TypeOK, msgVars
<1>5. tries'[p] # tries[p] => node'[p] = "trying"
  BY <1>1, OnlyStore
     DEF Client, HostedNode, SendText, HandToNode, HandOverFails, Acked, Nacked,
         Unacknowledged, QueueHosted, FailDropped, DropForDuty, RefuseOffAir,
         Transmitted, TypeOK, msgVars, histVars, countVars
<1> QED
  BY <1>3, <1>4, <1>5 DEF StoreOK

LEMMA StoreHolds == Spec => [](TypeOK /\ HandOK /\ StoreOK)
<1>1. Init => StoreOK
  BY HostAssumption DEF Init, StoreOK, Packets
<1> QED
  BY <1>1, StoreStep, Typed, PTL DEF Spec

\* AckIsFinal of HostTx: no late transmission, switch-off, error report or
\* second sending takes an acknowledgement back (SetStatus's early return).
THEOREM AcknowledgementStays == Spec => AckIsFinal
<1>1. TypeOK /\ StoreOK /\ [Next]_vars =>
        [\A p \in Texts : status[p] = "acked" => status'[p] = "acked"]_vars
  <2> SUFFICES ASSUME TypeOK, StoreOK, [Next]_vars,
                      NEW p \in Texts, status[p] = "acked"
               PROVE  status'[p] = "acked"
    OBVIOUS
  <2>1. ASSUME NEW q \in Texts, SendText(q) PROVE status'[p] = "acked"
    <3>1. q # p
      BY <2>1 DEF SendText, StoreOK
    <3> QED
      BY <2>1, <3>1 DEF SendText, TypeOK
  <2> QED
    BY <2>1, StatusSteps, WithStatusEffect DEF SetStatus, TypeOK, Statuses
<1> QED
  BY <1>1, StoreHolds, PTL DEF Spec, AckIsFinal

-----------------------------------------------------------------------------
(* Nothing of an identity's own is forgotten.                              *)

\* The steps that touch the queue.
LEMMA OnlyQueue ==
  [Next]_vars =>
    \/ HostedNode \/ Receiver \/ TakeNext \/ DeferBusy
    \/ \E a \in Admins, n \in Identities : DropOrigin(a, n)
    \/ \E x \in queue : DueComes(x)
    \/ UNCHANGED queue
  BY DEF Next, Client, Job, Clock, TxStep, SendText, HandToNode, HandOverFails, Acked,
         Nacked, Unacknowledged, SetRelayRole, SetConfig, SwitchTo, FailDropped, LoopEnds, DropForDuty,
         RefuseOffAir, Admit, ChannelClear, TurnGranted, TurnCancelled, DropAtRecheck,
         Recheck, StartSend, SendFailed, Transmitted, HourMoves, Shutdown, vars,
         queueVars

\* An own packet stays in the queue, is taken by txLoop, or is dropped and
\* about to be failed.
LEMMA OwnStep ==
  ASSUME TypeOK, [Next]_vars, NEW x \in queue, ~Relay(x)
  PROVE  \/ \E y \in queue' : y.seq = x.seq /\ y.key = x.key
         \/ item' = x /\ pc' = "admit"
         \/ \E a \in Admins : x.key \in jobs'[a].fail
<1> DEFINE Kept == \E y \in queue' : y.seq = x.seq /\ y.key = x.key
<1>1. CASE HostedNode
  <2>1. PICK k \in Packets, hop \in 0..MaxHop : QueueHosted(k, hop)
    BY <1>1 DEF HostedNode
  <2>2. x \in queue'
    BY <2>1, EnqueueMembers DEF QueueHosted, queueVars
  <2> QED
    BY <2>2
<1>2. CASE Receiver
  <2>1. x \in queue'
    BY <1>2, CancelMembers DEF Receiver, HeardAgain, HeardBetter, Answered
  <2> QED
    BY <2>1
<1>3. CASE TakeNext
  BY <1>3 DEF TakeNext
<1>4. CASE DeferBusy
  <2>1. x \in queue'
    BY <1>4, EnqueueMembers DEF DeferBusy, queueVars
  <2> QED
    BY <2>1
<1>5. ASSUME NEW a \in Admins, NEW n \in Identities, DropOrigin(a, n)
      PROVE  Kept \/ x.key \in jobs'[a].fail
  <2>1. CASE x \in OfOrigin(queue, n)
    BY <1>5, <2>1 DEF DropOrigin, TypeOK
  <2>2. CASE x \notin OfOrigin(queue, n)
    BY <1>5, <2>2 DEF DropOrigin
  <2> QED
    BY <2>1, <2>2
<1>6. ASSUME NEW y \in queue, DueComes(y) PROVE Kept
  <2>1. CASE x = y
    <3>1. [x EXCEPT !.due = TRUE] \in queue'
      BY <1>6, <2>1 DEF DueComes
    <3>2. /\ [x EXCEPT !.due = TRUE].seq = x.seq
          /\ [x EXCEPT !.due = TRUE].key = x.key
      BY DEF TypeOK, Items
    <3> QED
      BY <3>1, <3>2
  <2>2. CASE x # y
    BY <1>6, <2>2 DEF DueComes
  <2> QED
    BY <2>1, <2>2
<1>7. CASE UNCHANGED queue
  BY <1>7
<1> QED
  BY <1>1, <1>2, <1>3, <1>4, <1>5, <1>6, <1>7, OnlyQueue

\* OwnLeavesOnlyForAReason of HostTx: Enqueue and the receive loop make room
\* at the expense of relays only, whatever the priorities.
THEOREM OwnIsNeverEvicted == Spec => OwnLeavesOnlyForAReason
<1>1. TypeOK /\ [Next]_vars =>
        [\A x \in queue : ~Relay(x) /\ (\A y \in queue' : y.seq # x.seq) =>
           item' = x \/ \E a \in Admins : x.key \in jobs'[a].fail]_vars
  BY OwnStep
<1> QED
  BY <1>1, Typed, PTL DEF Spec, OwnLeavesOnlyForAReason

\* What txLoop lets go of without queueing it again is reported, or noted
\* as lost or muted.
LEMMA InHandStep ==
  ASSUME TypeOK, HandOK, [Next]_vars, NEW p \in Texts, InHand(p), status'[p] = "queued"
  PROVE  \/ InHand(p)' \/ Queued(p)' \/ p \in lost' \cup muted'
<1>1. p = item.key /\ item \in Items /\ ~Relay(item) /\ item # None
  BY HostAssumption, QueueAssumption DEF InHand, Relay, TypeOK
<1>2. ASSUME NEW s \in {"sent", "failed"} PROVE ~SetStatus(item.key, s)
  BY <1>1, <1>2, WithStatusEffect DEF SetStatus, TypeOK, Statuses
<1>3. CASE DropForDuty \/ RefuseOffAir \/ Transmitted
  BY <1>1, <1>2, <1>3 DEF DropForDuty, RefuseOffAir, Transmitted
<1>4. CASE DropAtRecheck \/ TurnCancelled \/ SendFailed
  BY <1>1, <1>4 DEF DropAtRecheck, TurnCancelled, SendFailed, Lose
<1>5. CASE DeferBusy
  <2>1. CASE Accepts(queue, Deferred(item))
    <3>1. Deferred(item) \in queue' /\ Deferred(item).key = p
      BY <1>1, <1>5, <2>1, EnqueueMembers, DeferredType DEF DeferBusy, TypeOK
    <3> QED
      BY <3>1 DEF Queued
  <2>2. CASE ~Accepts(queue, Deferred(item))
    BY <1>1, <1>5, <2>2 DEF DeferBusy, Lose
  <2> QED
    BY <2>1, <2>2
<1>6. ~TakeNext /\ ~LoopEnds
  BY <1>1 DEF TakeNext, LoopEnds, HandOK, Stages
<1>7. CASE item' = item
  BY <1>1, <1>7 DEF InHand
<1> QED
  BY <1>3, <1>4, <1>5, <1>6, <1>7, OnlyTxLoop
     DEF TxStep, Admit, ChannelClear, TurnGranted, Recheck, StartSend, HourMoves, loopVars

LEMMA AccountedStep ==
  TypeOK /\ HandOK /\ StoreOK /\ QueuedIsAccountedFor /\ [Next]_vars
    => QueuedIsAccountedFor'
<1> SUFFICES ASSUME TypeOK, HandOK, StoreOK, QueuedIsAccountedFor, [Next]_vars,
                    NEW p \in Texts, status'[p] = "queued"
             PROVE  \/ node'[p] = "adding" \/ tries'[p] = 0
                    \/ Queued(p)' \/ InHand(p)'
                    \/ \E a \in Admins : p \in jobs'[a].fail
                    \/ p \in lost' \cup muted'
  BY DEF QueuedIsAccountedFor
<1>1. p \in Own /\ p \in Packets /\ p \notin Heard
  BY HostAssumption, QueueAssumption DEF Packets
<1>2. lost \subseteq lost' /\ muted \subseteq muted'
  BY DEF Next, Client, HostedNode, Receiver, Job, Clock, TxStep, SendText, HandToNode,
         HandOverFails, Acked, Nacked, Unacknowledged, QueueHosted, HeardAgain,
         HeardBetter, Answered, SetRelayRole, SetConfig, SwitchTo, DropOrigin, FailDropped, DueComes,
         TakeNext, LoopEnds, DropForDuty, RefuseOffAir, Admit, DeferBusy, ChannelClear,
         TurnGranted, TurnCancelled, DropAtRecheck, Recheck, StartSend, SendFailed,
         Transmitted, HourMoves, Shutdown, Lose, vars, histVars, dropVars
<1>3. ASSUME NEW q \in Texts, SendText(q), q = p PROVE node'[p] = "adding"
  BY <1>1, <1>3 DEF SendText, TypeOK
<1>4. ASSUME ~\E q \in Texts : SendText(q) /\ q = p PROVE status[p] = "queued"
  <2>1. ASSUME NEW q \in Texts, SendText(q) PROVE status[p] = "queued"
    BY <1>4, <2>1 DEF SendText, TypeOK
  <2>2. ASSUME NEW k, NEW s \in {"sent", "acked", "failed"}, SetStatus(k, s)
        PROVE  status[p] = "queued"
    BY <2>2, WithStatusEffect DEF SetStatus, TypeOK, Statuses
  <2> QED
    BY <2>1, <2>2, StatusSteps
<1>5. ASSUME tries[p] = 0, tries'[p] # 0
      PROVE  Queued(p)' \/ p \in lost'
  <2>1. PICK hop \in 0..MaxHop : QueueHosted(p, hop)
    BY <1>1, <1>5, OnlyStore
       DEF Client, HostedNode, SendText, HandToNode, HandOverFails, Acked, Nacked,
           Unacknowledged, QueueHosted, FailDropped, DropForDuty, RefuseOffAir,
           Transmitted, TypeOK, histVars, countVars
  <2>2. NewItem(p, hop).key = p
    BY <1>1, NewItemType
  <2> QED
    BY <2>1, <2>2, EnqueueMembers DEF QueueHosted, Queued, Lose
<1>6. ASSUME status[p] = "queued", node[p] = "adding", node'[p] # "adding"
      PROVE  tries'[p] = 0
  <2>1. tries[p] = 0
    BY <1>6 DEF StoreOK
  <2>2. tries'[p] = tries[p]
    BY <1>1, <1>6, OnlyStore
       DEF Client, HostedNode, SendText, HandToNode, HandOverFails, Acked, Nacked,
           Unacknowledged, QueueHosted, FailDropped, DropForDuty, RefuseOffAir,
           Transmitted, TypeOK, msgVars, histVars, countVars
  <2> QED
    BY <2>1, <2>2
<1>7. ASSUME Queued(p)
      PROVE  Queued(p)' \/ InHand(p)' \/ \E a \in Admins : p \in jobs'[a].fail
  <2>1. PICK x \in queue : x.key = p
    BY <1>7 DEF Queued
  <2>2. ~Relay(x)
    BY <1>1, <2>1 DEF Relay
  <2>3. x # None
    BY HostAssumption DEF TypeOK
  <2> QED
    BY <2>1, <2>2, <2>3, OwnStep DEF Queued, InHand
<1>8. ASSUME NEW a \in Admins, p \in jobs[a].fail
      PROVE  p \in jobs'[a].fail \/ tries'[p] = 0
  <2>1. ~FailDropped(a, p)
    BY <1>1, WithStatusEffect DEF FailDropped, SetStatus, TypeOK, Statuses
  <2> QED
    BY <1>8, <2>1
       DEF Next, Client, HostedNode, Receiver, Job, Clock, TxStep, SendText, HandToNode,
         HandOverFails, Acked, Nacked, Unacknowledged, QueueHosted, HeardAgain,
         HeardBetter, Answered, SetRelayRole, SetConfig, SwitchTo, DropOrigin, FailDropped, DueComes,
         TakeNext, LoopEnds, DropForDuty, RefuseOffAir, Admit, DeferBusy, ChannelClear,
         TurnGranted, TurnCancelled, DropAtRecheck, Recheck, StartSend, SendFailed,
         Transmitted, HourMoves, Shutdown, vars, roleVars, NoJob, TypeOK
<1>9. CASE \E q \in Texts : SendText(q) /\ q = p
  BY <1>3, <1>9
<1>10. CASE ~\E q \in Texts : SendText(q) /\ q = p
  <2>1. status[p] = "queued"
    BY <1>4, <1>10
  <2>2. CASE node[p] = "adding"
    BY <1>6, <2>1, <2>2
  <2>3. CASE tries[p] = 0
    BY <1>5, <2>3
  <2>4. CASE Queued(p)
    BY <1>7, <2>4
  <2>5. CASE InHand(p)
    BY <2>5, InHandStep
  <2>6. CASE \E a \in Admins : p \in jobs[a].fail
    BY <1>8, <2>6
  <2>7. CASE p \in lost \cup muted
    BY <1>2, <2>7
  <2> QED
    BY <2>1, <2>2, <2>3, <2>4, <2>5, <2>6, <2>7 DEF QueuedIsAccountedFor
<1> QED
  BY <1>9, <1>10

\* QueuedIsAccountedFor of HostTx: however senders, txLoop and switch-offs
\* interleave, a "queued" text still has somebody to resolve it, or lost a
\* copy in one of the ways that tell nobody.
THEOREM NoTextForgotten == Spec => []QueuedIsAccountedFor
<1>1. Init => QueuedIsAccountedFor
  BY DEF Init, QueuedIsAccountedFor
<1> QED
  BY <1>1, AccountedStep, StoreHolds, PTL DEF Spec

-----------------------------------------------------------------------------
(* No packet goes on air more often than its node asked for.               *)

\* Whether txLoop holds a copy of k that was not handed to the radio yet.
Hand(k) == IF InHand(k) /\ pc # "onair" THEN 1 ELSE 0

CountOK == IsFiniteSet(queue) /\ NoSecondTransmission

LEMMA AtMostOneMore ==
  ASSUME NEW S, IsFiniteSet(S), NEW y, NEW T, T \subseteq S \cup {y}
  PROVE  /\ IsFiniteSet(T) /\ Cardinality(T) \in Nat /\ Cardinality(S) \in Nat
         /\ Cardinality(T) <= Cardinality(S) + 1
         /\ T \subseteq S => Cardinality(T) <= Cardinality(S)
<1>1. /\ IsFiniteSet(S \cup {y})
      /\ Cardinality(S) \in Nat /\ Cardinality(S \cup {y}) \in Nat
      /\ Cardinality(S \cup {y}) <= Cardinality(S) + 1
  <2>1. Cardinality(S) \in Nat
    BY FS_CardinalityType
  <2>2. /\ IsFiniteSet(S \cup {y})
        /\ Cardinality(S \cup {y}) = IF y \in S THEN Cardinality(S) ELSE Cardinality(S) + 1
    BY FS_AddElement
  <2> QED
    BY <2>1, <2>2
<1>2. /\ IsFiniteSet(T) /\ Cardinality(T) \in Nat
      /\ Cardinality(T) <= Cardinality(S \cup {y})
  BY <1>1, FS_Subset, FS_CardinalityType
<1>3. T \subseteq S => Cardinality(T) <= Cardinality(S)
  BY FS_Subset
<1> QED
  BY <1>1, <1>2, <1>3

LEMMA CopiesFinite ==
  ASSUME IsFiniteSet(queue), NEW k
  PROVE  IsFiniteSet(Copies(k)) /\ Cardinality(Copies(k)) \in Nat
<1>1. Copies(k) \in SUBSET queue
  BY DEF Copies
<1> QED
  BY <1>1, FS_Subset, FS_CardinalityType

LEMMA FiniteStep == IsFiniteSet(queue) /\ [Next]_vars => IsFiniteSet(queue)'
<1> SUFFICES ASSUME IsFiniteSet(queue), [Next]_vars PROVE IsFiniteSet(queue')
  OBVIOUS
<1>1. \E y : queue' \subseteq queue \cup {y}
  <2>1. CASE HostedNode
    <3>1. PICK k \in Packets, hop \in 0..MaxHop : QueueHosted(k, hop)
      BY <2>1 DEF HostedNode
    <3>2. queue' \subseteq queue \cup {NewItem(k, hop)}
      BY <3>1, EnqueueMembers DEF QueueHosted, queueVars
    <3> QED
      BY <3>2
  <2>2. CASE Receiver
    <3>1. PICK k \in Heard :
            \/ queue' = CancelRelay(queue, k)
            \/ \E hop \in 0..MaxHop : queue' = RemoveLowerHop(queue, k, hop)
      BY <2>2 DEF Receiver, HeardAgain, HeardBetter, Answered
    <3>2. CancelRelay(queue, k) \subseteq queue
      BY CancelMembers
    <3>3. \A hop \in 0..MaxHop : RemoveLowerHop(queue, k, hop) \subseteq queue
      BY CancelMembers
    <3>4. queue' \subseteq queue
      BY <3>1, <3>2, <3>3
    <3> QED
      BY <3>4
  <2>3. CASE TakeNext
    BY <2>3 DEF TakeNext
  <2>4. CASE DeferBusy
    <3>1. queue' \subseteq queue \cup {Deferred(item)}
      BY <2>4, EnqueueMembers DEF DeferBusy, queueVars
    <3> QED
      BY <3>1
  <2>5. ASSUME NEW a \in Admins, NEW n \in Identities, DropOrigin(a, n)
        PROVE  \E y : queue' \subseteq queue \cup {y}
    BY <2>5 DEF DropOrigin
  <2>6. ASSUME NEW x \in queue, DueComes(x)
        PROVE  \E y : queue' \subseteq queue \cup {y}
    <3>1. queue' \subseteq queue \cup {[x EXCEPT !.due = TRUE]}
      BY <2>6 DEF DueComes
    <3> QED
      BY <3>1
  <2> QED
    BY <2>1, <2>2, <2>3, <2>4, <2>5, <2>6, OnlyQueue
<1> QED
  BY <1>1, AtMostOneMore

LEMMA CountStep == TypeOK /\ HandOK /\ CountOK /\ [Next]_vars => CountOK'
<1> SUFFICES ASSUME TypeOK, HandOK, CountOK, [Next]_vars, NEW k \in Packets
             PROVE  handed'[k] + (Cardinality(Copies(k)') + Hand(k)') <= accepted'[k]
  BY FiniteStep, CopiesFinite DEF CountOK, NoSecondTransmission, Pending, Hand, TypeOK
<1> DEFINE C == Cardinality(Copies(k))
           D == Cardinality(Copies(k)')
<1>1. /\ handed[k] \in Nat /\ accepted[k] \in Nat /\ C \in Nat
      /\ Hand(k) \in {0, 1} /\ Hand(k)' \in {0, 1}
      /\ handed[k] + (C + Hand(k)) <= accepted[k]
      /\ IsFiniteSet(Copies(k))
  BY CopiesFinite DEF CountOK, NoSecondTransmission, Pending, Hand, TypeOK
<1>2. ASSUME Copies(k)' \subseteq Copies(k) PROVE D \in Nat /\ D <= C
  BY <1>1, <1>2, AtMostOneMore
<1>3. ASSUME NEW y, Copies(k)' \subseteq Copies(k) \cup {y} PROVE D \in Nat /\ D <= C + 1
  BY <1>1, <1>3, AtMostOneMore
<1>4. ASSUME NEW j \in Packets, NEW hop \in 0..MaxHop, QueueHosted(j, hop)
      PROVE  handed'[k] + (D + Hand(k)') <= accepted'[k]
  <2>1. handed'[k] = handed[k] /\ Hand(k)' = Hand(k)
    BY <1>4 DEF QueueHosted, Hand, InHand, loopVars
  <2>2. CASE Accepts(queue, NewItem(j, hop)) /\ j = k
    <3>1. Copies(k)' \subseteq Copies(k) \cup {NewItem(j, hop)}
      BY <1>4, <2>2, EnqueueMembers DEF QueueHosted, Copies
    <3>2. accepted'[k] = accepted[k] + 1
      BY <1>4, <2>2 DEF QueueHosted, TypeOK
    <3>3. D \in Nat /\ D <= C + 1
      BY <1>3, <3>1
    <3> QED
      BY <1>1, <2>1, <3>2, <3>3
  <2>3. CASE Accepts(queue, NewItem(j, hop)) /\ j # k
    <3>1. Copies(k)' \subseteq Copies(k)
      BY <1>4, <2>3, EnqueueMembers, NewItemType DEF QueueHosted, Copies
    <3>2. accepted'[k] = accepted[k]
      BY <1>4, <2>3 DEF QueueHosted, TypeOK
    <3> QED
      BY <1>1, <1>2, <2>1, <3>1, <3>2
  <2>4. CASE ~Accepts(queue, NewItem(j, hop))
    <3>1. Copies(k)' = Copies(k) /\ accepted' = accepted
      BY <1>4, <2>4 DEF QueueHosted, Copies, queueVars
    <3> QED
      BY <1>1, <2>1, <3>1
  <2> QED
    BY <2>2, <2>3, <2>4
<1>5. CASE Receiver \/ \E a \in Admins, n \in Identities : DropOrigin(a, n)
  <2>1. /\ handed' = handed /\ accepted' = accepted /\ Hand(k)' = Hand(k)
        /\ Copies(k)' \subseteq Copies(k)
    BY <1>5, CancelMembers
       DEF Receiver, HeardAgain, HeardBetter, Answered, DropOrigin, Copies, Hand, InHand,
           loopVars, histVars
  <2> QED
    BY <1>1, <1>2, <2>1
<1>6. ASSUME NEW x \in queue, DueComes(x)
      PROVE  handed'[k] + (D + Hand(k)') <= accepted'[k]
  <2>1. handed' = handed /\ accepted' = accepted /\ Hand(k)' = Hand(k)
    BY <1>6 DEF DueComes, Hand, InHand, loopVars, histVars
  <2>2. D \in Nat /\ D <= C
    <3>1. [x EXCEPT !.due = TRUE].key = x.key
      BY DEF TypeOK, Items
    <3>2. CASE x.key = k
      <4>1. x \in Copies(k)
        BY <3>2 DEF Copies
      <4>2. IsFiniteSet(Copies(k) \ {x}) /\ Cardinality(Copies(k) \ {x}) = C - 1
        BY <1>1, <4>1, FS_RemoveElement
      <4>3. Copies(k)' \subseteq (Copies(k) \ {x}) \cup {[x EXCEPT !.due = TRUE]}
        BY <1>6 DEF DueComes, Copies
      <4>4. D \in Nat /\ D <= Cardinality(Copies(k) \ {x}) + 1
        BY <4>2, <4>3, AtMostOneMore
      <4> QED
        BY <1>1, <4>2, <4>4
    <3>3. CASE x.key # k
      <4>1. Copies(k)' \subseteq Copies(k)
        BY <1>6, <3>1, <3>3 DEF DueComes, Copies
      <4> QED
        BY <1>2, <4>1
    <3> QED
      BY <3>2, <3>3
  <2> QED
    BY <1>1, <2>1, <2>2
<1>7. CASE TakeNext
  <2>1. PICK x \in queue : item' = x /\ queue' = queue \ {x}
    BY <1>7 DEF TakeNext, Due
  <2>2. /\ handed' = handed /\ accepted' = accepted /\ Hand(k) = 0
        /\ Copies(k)' = Copies(k) \ {x}
    BY <1>7, <2>1 DEF TakeNext, Hand, InHand, HandOK, Copies, histVars
  <2>3. CASE x.key = k
    <3>1. D = C - 1
      BY <1>1, <2>1, <2>2, <2>3, FS_RemoveElement DEF Copies
    <3> QED
      BY <1>1, <2>2, <3>1
  <2>4. CASE x.key # k
    <3>1. Hand(k)' = 0
      BY <2>1, <2>4 DEF Hand, InHand
    <3> QED
      BY <1>1, <1>2, <2>2, <3>1
  <2> QED
    BY <2>3, <2>4
<1>8. CASE DeferBusy
  <2>1. /\ handed' = handed /\ accepted' = accepted /\ Hand(k)' = 0
        /\ item \in Items /\ (item.key = k => Hand(k) = 1)
    BY <1>8, HostAssumption
       DEF DeferBusy, Finish, Hand, InHand, HandOK, Stages, TypeOK, countVars
  <2>2. queue' = queue \/ queue' = Enqueue(queue, Deferred(item))
    BY <1>8 DEF DeferBusy, queueVars
  <2>3. Deferred(item).key = item.key
    BY <2>1, DeferredType DEF TypeOK
  <2>4. CASE item.key = k
    <3>1. Copies(k)' \subseteq Copies(k) \cup {Deferred(item)}
      BY <2>2, EnqueueMembers DEF Copies
    <3> QED
      BY <1>1, <1>3, <2>1, <2>4, <3>1
  <2>5. CASE item.key # k
    <3>1. Copies(k)' \subseteq Copies(k)
      BY <2>2, <2>3, <2>5, EnqueueMembers DEF Copies
    <3> QED
      BY <1>1, <1>2, <2>1, <3>1
  <2> QED
    BY <2>4, <2>5
<1>9. CASE StartSend
  <2>1. /\ Copies(k)' = Copies(k) /\ accepted' = accepted /\ Hand(k)' = 0
        /\ item \in Items /\ (item.key = k => Hand(k) = 1)
        /\ handed'[k] = IF item.key = k THEN handed[k] + 1 ELSE handed[k]
    BY <1>9, HostAssumption
       DEF StartSend, Copies, Hand, InHand, HandOK, Stages, TypeOK, Items, queueVars
  <2> QED
    BY <1>1, <2>1
<1>10. CASE UNCHANGED <<queue, handed, accepted>> /\ Hand(k)' <= Hand(k)
  <2>1. Copies(k)' = Copies(k)
    BY <1>10 DEF Copies
  <2> QED
    BY <1>1, <1>10, <2>1
<1>11. CASE TxStep /\ ~TakeNext /\ ~DeferBusy /\ ~StartSend
  <2>1. UNCHANGED <<queue, handed, accepted>>
    BY <1>11 DEF TxStep, LoopEnds, DropForDuty, RefuseOffAir, Admit, ChannelClear,
       TurnGranted, TurnCancelled, DropAtRecheck, Recheck, SendFailed, Transmitted,
       queueVars, countVars, histVars
  <2>2. InHand(k)' => InHand(k) /\ pc # "onair"
    BY <1>11 DEF TxStep, LoopEnds, DropForDuty, RefuseOffAir, Admit, ChannelClear,
       TurnGranted, TurnCancelled, DropAtRecheck, Recheck, SendFailed, Transmitted,
       Finish, InHand
  <2> QED
    BY <1>1, <1>10, <2>1, <2>2 DEF Hand
<1>12. CASE \/ Client \/ Shutdown \/ HourMoves \/ UNCHANGED vars
            \/ \E r \in Roles : SetConfig(r)
            \/ \E a \in Admins : \/ \E r \in Roles : SetRelayRole(a, r)
                                 \/ \E j \in Packets : FailDropped(a, j)
  <2>1. UNCHANGED <<queue, handed, accepted, pc, item>>
    BY <1>12 DEF Client, SendText, HandToNode, HandOverFails, Acked, Nacked,
       Unacknowledged, SetRelayRole, SetConfig, SwitchTo, FailDropped, HourMoves, Shutdown, vars, queueVars,
       loopVars, countVars, histVars
  <2>2. Hand(k)' = Hand(k)
    BY <2>1 DEF Hand, InHand
  <2> QED
    BY <1>1, <1>10, <2>1, <2>2
<1> QED
  BY <1>4, <1>5, <1>6, <1>7, <1>8, <1>9, <1>11, <1>12
     DEF Next, HostedNode, Job, Clock

\* NoSecondTransmission of HostTx: requeueing on a busy channel never makes
\* two frames out of one packet, whatever is evicted, dropped or cancelled.
THEOREM NothingSentTwice == Spec => []NoSecondTransmission
<1>1. Init => CountOK
  <2> SUFFICES ASSUME Init, NEW k \in Packets
               PROVE  IsFiniteSet(queue) /\ handed[k] + Pending(k) <= accepted[k]
    BY FS_EmptySet DEF Init, CountOK, NoSecondTransmission
  <2>1. queue = {} /\ Copies(k) = {} /\ ~InHand(k)
    BY DEF Init, Copies, InHand
  <2> QED
    BY <2>1, FS_EmptySet DEF Init, Pending
<1>2. CountOK => NoSecondTransmission
  BY DEF CountOK
<1> QED
  BY <1>1, <1>2, CountStep, Typed, PTL DEF Spec
=============================================================================
