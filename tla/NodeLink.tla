------------------------------ MODULE NodeLink ------------------------------
(***************************************************************************)
(* How a hosted node gets its key and the host's settings: the client that *)
(* reconnects and reads the node (internal/mtclient), Node.Run and the     *)
(* goroutines it starts for every reading, the edits that push settings    *)
(* one at a time (internal/nodes, node.go and settings.go), and the check  *)
(* that keeps the node off the air until it has its key (air.go).          *)
(*                                                                         *)
(* The node is external: what it answers, keeps and reboots for is its     *)
(* affair.  Its settings are one value; an edit sets it and, on a node     *)
(* with another key, the key after it, and then commits.                   *)
(***************************************************************************)
EXTENDS Integers, Sequences, FiniteSetsExt

CONSTANTS
  Settings,     \* what the host can want
  First,        \* what it wants at the start
  SeedKey, OtherKey,  \* the saved key, any other one
  Unset,
  MaxTries,     \* maxSeedTries and maxSamePushes, both 3 in the code
  QueueLen,     \* bound: events a subscriber holds (512 for Node.Run, 16 for an edit)
  MaxWaiting,   \* bound: goroutines between reading the host's settings and editMu
  MaxUpdates,   \* bound: changes of the host's settings
  MaxLinkFaults \* bound: lost links, lost answers, crashes of the node

ASSUME LinkAssumption ==
  /\ SeedKey # OtherKey /\ First \in Settings /\ Unset \notin Settings \cup {SeedKey, OtherKey}
  /\ MaxTries \in Nat /\ QueueLen \in Nat \ {0}
  /\ MaxWaiting \in Nat /\ MaxUpdates \in Nat /\ MaxLinkFaults \in Nat

Kinds == {"seed", "push", "web"}  \* applySeed, pushSettings, a request's UpdateConfig

VARIABLES
  node, saved,  \* external: the node's key and settings, in memory and saved
  link,         \* the client's connection: "down", "hello" (handshake), "ready"
  mirror,       \* Client.Snapshot: the node's key and settings, as last read
  read,         \* Configured events Node.Run has not handled
  frame,        \* in the air's queue, a frame sent under another key: "none", "new", or "stale"
                \* once the client has read the node again
  wanted,       \* the host's settings
  waiting,      \* waiting[k][c]: goroutines that wait for editMu to push c
  asleep,       \* asleep[k]: goroutines that wait to reconnect after a failure
  edit,         \* [at, kind, cfg, fresh, lost, events]: the holder of editMu; lost: the answer it
                \* waits for will not come
  seedTries, pushTries,
  last,         \* [cfg, same, stuck]: n.lastPush, n.samePushes, n.stuck # ""
  lapsed,       \* since the last reading: an edit took an earlier one for the one after its commit, or
                \* broke off at a message that may have taken effect; or settings were held back
  updates, linkFaults

nodeVars == <<node, saved>>
clientVars == <<link, mirror, read, frame>>
goVars == <<waiting, asleep>>
triesVars == <<seedTries, pushTries, last>>
linkVars == <<node, saved, link, mirror, read, frame, wanted, waiting, asleep, edit, seedTries, pushTries,
          last, lapsed, updates, linkFaults>>

NoEdit == [at |-> "none", kind |-> "web", cfg |-> Unset, fresh |-> FALSE, lost |-> FALSE, events |-> << >>]

LinkInit ==
  /\ saved \in [key : {SeedKey, OtherKey}, cfg : Settings] /\ node = saved
  /\ link = "down" /\ mirror = [key |-> Unset, cfg |-> Unset] /\ read = 0 /\ frame = "none"
  /\ wanted = First /\ waiting = [k \in Kinds |-> [c \in Settings |-> 0]]
  /\ asleep = [k \in Kinds |-> 0] /\ edit = NoEdit
  /\ seedTries = 0 /\ pushTries = 0 /\ last = [cfg |-> Unset, same |-> 0, stuck |-> FALSE]
  /\ lapsed = FALSE /\ updates = 0 /\ linkFaults = 0

Fault == linkFaults < MaxLinkFaults /\ linkFaults' = linkFaults + 1
AtMost(n, max) == IF n < max THEN n ELSE max
WaitingNow == FoldSet(LAMBDA k, n : FoldSet(LAMBDA c, m : waiting[k][c] + m, n, Settings), 0, Kinds)

-----------------------------------------------------------------------------
(* The client *)

\* publishLocked: a subscriber that is full misses the event.
Told(e) == IF edit.at \in {"set", "key", "commit", "restart", "configured"} /\ Len(edit.events) < QueueLen
             THEN [edit EXCEPT !.events = Append(@, e)] ELSE edit

\* detach: the mirror stays, only its Connected goes.
Drops == link # "down" /\ link' = "down" /\ UNCHANGED <<mirror, read, frame>>
Detached == IF link = "ready" THEN Told("Disconnected") ELSE edit

Dial ==
  /\ link = "down" /\ link' = "hello"
  /\ UNCHANGED <<nodeVars, mirror, read, frame, wanted, goVars, edit, triesVars, lapsed, updates, linkFaults>>

\* The handshake's answers replace the mirror, and subscribers are told.  What already waits in
\* the air's queue stays there.
BecomeReady ==
  /\ link = "hello" /\ link' = "ready" /\ mirror' = node
  /\ read' = AtMost(read + 1, QueueLen) /\ edit' = Told("Configured")
  /\ frame' = IF frame = "none" THEN "none" ELSE "stale"
  /\ lapsed' = FALSE
  /\ UNCHANGED <<nodeVars, wanted, goVars, triesVars, updates, linkFaults>>

LinkLost ==
  /\ Fault /\ Drops /\ edit' = Detached
  /\ UNCHANGED <<nodeVars, wanted, goVars, triesVars, lapsed, updates>>

\* Reconnect closes whatever connection there is; a dial under way is not one yet.
Reconnected == IF link = "down" THEN UNCHANGED clientVars ELSE Drops

-----------------------------------------------------------------------------
(* The node *)

\* It restarts by itself, perhaps without its key.
Crash ==
  /\ Fault /\ saved' \in {saved, [saved EXCEPT !.key = OtherKey]} /\ node' = saved'
  /\ (link = "down" /\ UNCHANGED <<clientVars, edit>>) \/ (Drops /\ edit' = Detached)
  /\ UNCHANGED <<wanted, goVars, triesVars, lapsed, updates>>

\* It transmits: the client hands the frame to the air's queue.  Only frames sent under
\* another key are followed, one at a time.
Transmit ==
  /\ link = "ready" /\ node.key # SeedKey /\ frame = "none" /\ frame' = "new"
  /\ UNCHANGED <<nodeVars, link, mirror, read, wanted, goVars, edit, triesVars, lapsed, updates, linkFaults>>

\* Mutant: a node that answers may transmit.
OnceRead == mirror.key # Unset
OnAir == mirror.key = SeedKey

\* LoRaAir.handleEvent: it goes to the transmit queue if the node is OnAir now.
HandleFrame ==
  /\ frame # "none" /\ frame' = "none"
  /\ UNCHANGED <<nodeVars, link, mirror, read, wanted, goVars, edit, triesVars, lapsed, updates, linkFaults>>

-----------------------------------------------------------------------------
(* Node.Run and the goroutines that ask for an edit *)

Ask(k, c) == waiting' = [waiting EXCEPT ![k][c] = @ + 1]

\* configured acts on the mirror as it is now, not as it was when the event was published.
Configured ==
  /\ read > 0 /\ read' = read - 1 /\ WaitingNow < MaxWaiting
  /\ IF OnAir THEN seedTries' = 0 /\ Ask("push", wanted)
     ELSE /\ seedTries' = AtMost(seedTries + 1, MaxTries + 1)
          /\ IF seedTries' > MaxTries THEN UNCHANGED waiting ELSE Ask("seed", wanted)
  /\ UNCHANGED <<nodeVars, link, mirror, frame, wanted, asleep, edit, pushTries, last, lapsed, updates, linkFaults>>

\* Host.UpdateConfig: a request changes the settings and pushes what it then reads.
UpdateConfig(c) ==
  /\ c # wanted /\ updates < MaxUpdates /\ WaitingNow < MaxWaiting
  /\ wanted' = c /\ updates' = updates + 1 /\ Ask("web", c)
  /\ UNCHANGED <<nodeVars, clientVars, asleep, edit, triesVars, lapsed, linkFaults>>

\* What a goroutine does when its edit is over.
Succeed == pushTries' = IF edit.kind = "push" THEN 0 ELSE pushTries

\* Mutant: a key the node did not take is left until the node reconnects by itself.
SeedGivesUp == UNCHANGED asleep
SeedFails == asleep' = [asleep EXCEPT !["seed"] = @ + 1]
PushFails ==
  /\ pushTries' = AtMost(pushTries + 1, MaxTries + 1)
  /\ asleep' = IF pushTries' > MaxTries THEN asleep ELSE [asleep EXCEPT !["push"] = @ + 1]
Fail ==
  /\ \/ edit.kind = "seed" /\ SeedFails /\ UNCHANGED pushTries
     \/ edit.kind = "push" /\ PushFails
     \/ edit.kind = "web" /\ UNCHANGED <<asleep, pushTries>>
  /\ edit' = NoEdit

\* After rebootWait: on a fresh connection.
Wake(k) ==
  /\ asleep[k] > 0 /\ asleep' = [asleep EXCEPT ![k] = @ - 1]
  /\ IF k = "seed" /\ OnAir THEN UNCHANGED <<clientVars, edit>>
     ELSE Reconnected /\ edit' = Detached
  /\ UNCHANGED <<nodeVars, wanted, waiting, triesVars, lapsed, updates, linkFaults>>

-----------------------------------------------------------------------------
(* ApplyConfig, one at a time under editMu *)

Lock(k, c) ==
  /\ edit.at = "none" /\ waiting[k][c] > 0
  /\ waiting' = [waiting EXCEPT ![k][c] = @ - 1]
  /\ edit' = [NoEdit EXCEPT !.at = "wait", !.kind = k, !.cfg = c]
  /\ UNCHANGED <<nodeVars, clientVars, wanted, asleep, triesVars, lapsed, updates, linkFaults>>

\* WaitReady gives up after rebootWait: ErrNotReady.
NotReady ==
  /\ edit.at = "wait" /\ link # "ready" /\ Fail
  /\ UNCHANGED <<nodeVars, clientVars, wanted, waiting, seedTries, last, lapsed, updates, linkFaults>>

\* repeating: settings the node came back without are given to it so often and then held back.
\* Mutant: they are pushed for as long as the node drops them.
NeverHeldBack(l) == FALSE
HeldBack(l) == l.same > MaxTries
Pushed(c) == IF last.cfg # c THEN [cfg |-> c, same |-> 1, stuck |-> FALSE]
             ELSE LET l == [last EXCEPT !.same = AtMost(@ + 1, MaxTries + 1)]
                  IN [l EXCEPT !.stuck = HeldBack(l)]
NoPush == [cfg |-> Unset, same |-> 0, stuck |-> FALSE]

Done == edit' = NoEdit /\ Succeed
Begin(fresh) ==
  /\ edit' = [edit EXCEPT !.at = IF edit.cfg # mirror.cfg \/ fresh THEN "set" ELSE "key", !.fresh = fresh]
  /\ UNCHANGED pushTries

Look ==
  /\ edit.at = "wait" /\ link = "ready"
  /\ \/ ~OnAir /\ Begin(TRUE) /\ UNCHANGED <<last, lapsed>>
     \/ OnAir /\ edit.cfg = mirror.cfg /\ Done /\ last' = NoPush /\ UNCHANGED lapsed
     \/ /\ OnAir /\ edit.cfg # mirror.cfg /\ last' = Pushed(edit.cfg)
        /\ lapsed' = (lapsed \/ last'.stuck)
        /\ IF last'.stuck THEN Done ELSE Begin(FALSE)
  /\ UNCHANGED <<nodeVars, clientVars, wanted, waiting, asleep, seedTries, updates, linkFaults>>

\* A message the node takes.  Each answers the request before it is sent the next.
NextAt == [set |-> IF edit.fresh THEN "key" ELSE "commit", key |-> "commit"]
Taken == IF edit.at = "set" THEN [node EXCEPT !.cfg = edit.cfg] ELSE [node EXCEPT !.key = SeedKey]

Sent ==
  /\ edit.at \in {"set", "key"} /\ ~edit.lost /\ link = "ready"
  /\ node' = Taken /\ edit' = [edit EXCEPT !.at = NextAt[edit.at]]
  /\ UNCHANGED <<saved, clientVars, wanted, goVars, triesVars, lapsed, updates, linkFaults>>

\* The message or its answer is lost, perhaps with the connection, or it is refused.
Unheard ==
  /\ Fault /\ ~edit.lost /\ link = "ready" /\ lapsed' = TRUE
  /\ \/ edit' = [edit EXCEPT !.lost = TRUE] /\ UNCHANGED clientVars
     \/ edit' = [Detached EXCEPT !.lost = TRUE] /\ Drops
  /\ UNCHANGED <<wanted, goVars, triesVars, updates>>
SentUnheard == edit.at \in {"set", "key"} /\ Unheard /\ node' \in {node, Taken} /\ UNCHANGED saved

\* A request waits for its answer whatever becomes of the connection; without one to send it
\* on it fails at once.
NoAnswer == edit.lost \/ link # "ready"
NotSent ==
  /\ edit.at \in {"set", "key"} /\ NoAnswer /\ Fail
  /\ UNCHANGED <<nodeVars, clientVars, wanted, waiting, seedTries, last, lapsed, updates, linkFaults>>

\* The node keeps what it was given, or all but the settings; it may reboot for it.
Commits == saved' \in {node, [node EXCEPT !.cfg = saved.cfg]} /\ node' = saved'

\* The answer is lost to the reboot, or to the number that goes with a new key.
Commit ==
  /\ edit.at = "commit" /\ ~edit.lost /\ link = "ready" /\ Commits
  /\ lapsed' = (lapsed \/ edit.events # << >>)
  /\ \/ edit' = [edit EXCEPT !.at = "restart"] /\ UNCHANGED clientVars
     \/ edit' = [Detached EXCEPT !.at = "restart"] /\ Drops
     \/ edit' = [Detached EXCEPT !.lost = TRUE] /\ Drops
     \/ edit.fresh /\ edit' = [edit EXCEPT !.lost = TRUE] /\ UNCHANGED clientVars
  /\ UNCHANGED <<wanted, goVars, triesVars, updates, linkFaults>>
CommitUnheard == edit.at = "commit" /\ Unheard /\ (Commits \/ UNCHANGED nodeVars)

\* That is no failure on a node with a new key, or if the node is away.
CommitUnanswered ==
  /\ edit.at = "commit" /\ NoAnswer
  /\ IF edit.fresh \/ link # "ready"
       THEN edit' = [edit EXCEPT !.at = "restart", !.lost = FALSE] /\ UNCHANGED <<asleep, pushTries>>
       ELSE Fail
  /\ UNCHANGED <<nodeVars, clientVars, wanted, waiting, seedTries, last, lapsed, updates, linkFaults>>

\* awaitRestart and awaitConfigured take events off the edit's own subscription.
Has(e) == \E i \in DOMAIN edit.events : edit.events[i] = e
Firsts(e) == {i \in DOMAIN edit.events : edit.events[i] = e /\ \A j \in 1..(i - 1) : edit.events[j] # e}

SeesRestart ==
  /\ edit.at = "restart"
  /\ \E i \in Firsts("Disconnected") :
       edit' = [edit EXCEPT !.at = "configured", !.events = SubSeq(@, i + 1, Len(@))]
  /\ UNCHANGED <<nodeVars, clientVars, wanted, goVars, triesVars, lapsed, updates, linkFaults>>

\* Mutant: the client's mirror is taken to be fresh.
NothingToRead == UNCHANGED clientVars /\ edit' = [edit EXCEPT !.at = "configured"]
ReadAnew ==
  /\ Reconnected
  /\ edit' = [edit EXCEPT !.at = "configured",
              !.events = IF link = "ready" THEN <<"Disconnected">> ELSE << >>]

RestartTimer ==
  /\ edit.at = "restart" /\ ~Has("Disconnected") /\ ReadAnew
  /\ UNCHANGED <<nodeVars, wanted, goVars, triesVars, lapsed, updates, linkFaults>>

\* Or it takes longer than 30 seconds.
SeesConfigured ==
  /\ edit.at = "configured" /\ Done
  /\ UNCHANGED <<nodeVars, clientVars, wanted, goVars, seedTries, last, lapsed, updates, linkFaults>>

-----------------------------------------------------------------------------
Edit == NotReady \/ Look \/ Sent \/ NotSent \/ Commit \/ CommitUnanswered
        \/ SeesRestart \/ RestartTimer \/ SeesConfigured
LinkNext ==
  \/ Dial \/ BecomeReady \/ LinkLost \/ Crash \/ Transmit \/ HandleFrame
  \/ Configured \/ Edit \/ SentUnheard \/ CommitUnheard
  \/ \E c \in Settings : UpdateConfig(c)
  \/ \E k \in Kinds : Wake(k) \/ \E c \in Settings : Lock(k, c)

\* The client dials again, goroutines run, timers fire, a free mutex is given to some waiter.
\* Nobody has to change settings or transmit; the node answers but for MaxLinkFaults.
LinkFairness ==
  /\ WF_linkVars(Dial) /\ WF_linkVars(BecomeReady) /\ WF_linkVars(Configured) /\ WF_linkVars(Edit)
  /\ WF_linkVars(\E k \in Kinds : Wake(k))
  /\ WF_linkVars(\E k \in Kinds, c \in Settings : Lock(k, c))
LinkSpec == LinkInit /\ [][LinkNext]_linkVars
LinkFairSpec == LinkSpec /\ LinkFairness

-----------------------------------------------------------------------------
(* Properties *)

Ats == {"none", "wait", "set", "key", "commit", "restart", "configured"}
Events == {"Disconnected", "Configured"}
EditOK(e) ==
  /\ e \in [at : Ats, kind : Kinds, cfg : Settings \cup {Unset}, fresh : BOOLEAN, lost : BOOLEAN,
           events : Seq(Events)]
  /\ Len(e.events) <= QueueLen /\ (e.at # "none" => e.cfg \in Settings)
NodeOK ==
  /\ node \in [key : {SeedKey, OtherKey}, cfg : Settings]
  /\ saved \in [key : {SeedKey, OtherKey}, cfg : Settings]
ClientOK ==
  /\ link \in {"down", "hello", "ready"} /\ read \in 0..QueueLen /\ frame \in {"none", "new", "stale"}
  /\ mirror \in [key : {SeedKey, OtherKey, Unset}, cfg : Settings \cup {Unset}]
GoOK ==
  /\ wanted \in Settings /\ lapsed \in BOOLEAN
  /\ waiting \in [Kinds -> [Settings -> Nat]] /\ asleep \in [Kinds -> Nat]
  /\ seedTries \in 0..(MaxTries + 1) /\ pushTries \in 0..(MaxTries + 1)
  /\ last \in [cfg : Settings \cup {Unset}, same : 0..(MaxTries + 1), stuck : BOOLEAN]
  /\ updates \in 0..MaxUpdates /\ linkFaults \in 0..MaxLinkFaults
LinkTypeOK == NodeOK /\ ClientOK /\ GoOK /\ EditOK(edit)

\* What a node sends while it holds another key than its identity's goes to the transmit queue
\* only if it waited in the air's until the node had been read again, with its own key: however
\* crashes, edits and lost links take the key and give it back, no such frame passes on a reading
\* older than itself.
ForeignNeedsAReading == frame # "none" /\ OnAir => frame = "stale"

\* Nobody is left to do anything about the node: it is read, and no reading, edit or goroutine
\* that asks for one is under way.
Quiet == /\ link = "ready" /\ read = 0 /\ edit = NoEdit
         /\ \A k \in Kinds : asleep[k] = 0 /\ \A c \in Settings : waiting[k][c] = 0

\* No reading is lost and no push forgotten: whatever overlapped, failed, was overtaken or was
\* given up after pushSettings' tries, once nobody is left to act the node has its key and the
\* host's settings, unless giveKey gave it up or its settings lapsed as said above.
QuietIsSettled ==
  Quiet => \/ seedTries > MaxTries
           \/ node.key = SeedKey /\ (node.cfg = wanted \/ lapsed)

\* A node without its key gets it, or has had its tries.
KeyArrives == <>[](node.key = SeedKey \/ seedTries > MaxTries)

\* Whatever pushes overlap, fail or are overtaken, the node has the host's settings in the end,
\* unless it was given up (giveKey), or its settings lapsed as said above.
SettingsArrive ==
  <>[](node.cfg = wanted \/ seedTries > MaxTries \/ lapsed)

\* Every push may reboot the node, and every reboot starts a push: it ends, even for a node that
\* never keeps the settings.
PushingEnds == <>[](edit = NoEdit /\ WaitingNow = 0 /\ \A k \in Kinds : asleep[k] = 0)
=============================================================================
