# Verification of RepeaterTastic

TLA+ models of the parts of RepeaterTastic where concurrency, failure and order decide whether it
is right, the TLC runs that check them on small instances, and TLAPS proofs of the most important
results for every size. `PROJECT.json` maps each definition to the lines it models and lists runs,
mutants, hazards, findings and theorems.

## The system

RepeaterTastic is a Meshtastic *host*. It owns one or more LoRa radios; the nodes (a relay persona
per radio and any number of identities) are `meshtasticd` processes it starts and bridges to the
air.

| Component | Source | State | Operations | What is hard |
|---|---|---|---|---|
| Transmit queue | `mesh/txqueue.go` | items, sequence number, wake-up | Enqueue, Cancel, RemoveLowerHop, DropOrigin, Next | eviction when full, shared by four goroutines |
| Host transmit path | `mesh/host.go`, `send.go`, `remote.go`, `airtap.go`, `receive.go` | the item in hand, relay role, chat statuses | txLoop, QueueHosted, Send, SetRelayRole, routing results | an item in hand is invisible to the handlers; many silent exits |
| Airtime | `mesh/airtime.go` | minute, ten-minute and rolling rings | AddTx, AddRx, totals, snapshot | check before, account after |
| Site gate | `site/site.go` | turns by radio, a channel closed at each release, cap | Acquire, release, SetDutyCyclePct | hand-made condition variable, retuning |
| Chat store | `mesh/events.go` | messages by identity, dirty flag, file | Add, SetStatus, Save, Load, Take, Put | saves that race changes, crashes |
| Identities and nodes | `web/identities.go`, `mesh/hoster.go`, `nodes/hosting.go` | identity tables, kept records, files, slots, nodes, directories | create, delete, move, HostIdentity, Unhost, SaveIdentities | no lock spans a request; a node takes seconds to start |
| Hosted node supervisor | `nodes/hosted.go` | run, backoff, bounce flag, sensors | supervise, Bounce, SetSensors, Stop | callbacks into a process that is restarting |
| Node client, settings | `nodes/node.go`, `settings.go` | seed, tries, current identity | configured, giveKey, follow, pushSettings | reboots in the middle of an exchange |
| Air bridge | `nodes/air.go` | joined nodes, ciphertext cache | Heard, transmit, Join, Leave | late results of nodes that left |
| Receive and history | `mesh/receive.go`, `history.go`, `records.go` | LRU of seen packets with expiry | HandleReceived, Observe, MarkTx | duplicates after eviction, next-hop learning |
| Node DB, event bus | `mesh/nodedb.go`, `events.go` | nodes; subscribers | Update, Save, Load; Publish | the chat store's save again; slow readers lose events |
| Client API | `phoneapi/` | sessions, per-session queues | handshake, packets, admin | sessions of a node that goes |
| Client API client | `mtclient/` | connection, snapshot, pending requests | connect, handshake, request | reconnects, answers to earlier requests |
| MQTT, UDP links | `links/` | connections, filters | uplink, downlink | loops between links |
| Radios | `radio/kiss`, `lazy`, `spi`, `sim`, `null` | waiting command, pending transmission | Send, Configure, reopen | late replies, ambiguous errors |
| Plugins | `plugins/` | bundles, processes, budgets, state | install, start, stop, RPC | supervision, upgrades |
| Sensors | `sensors/` | sources, samples, values files | sample, attach, sync | reseeding running nodes |
| Web API, configuration | `web/`, `config/` | settings files | handlers | several handlers at once |

A frame travels: `meshtasticd` → client event → `LoRaAir.transmit` → `Host.QueueHosted` → queue →
`txLoop` → site gate → radio; and back: radio → `rxLoop` → `LoRaAir.Heard` (to the nodes) and
`HandleReceived` (log, node DB, links), which cancels relays somebody else already did. A text
enters at `Host.Send` (a client, the web or a plugin), goes to the sender's node and its status in
the chat store follows from what the host's queue and the node report. Web handlers call the same
host from goroutines of their own. A daemon with several radios runs one host per radio, tied
together by the site gate only; the web server sees them all.

What makes each part correct, beyond what is checked so far: a client's request is answered by its own
reply; a plugin spends no more than its budget; a text handed over between two identities of one site
arrives once; chats, read markers and unsent packets move with their identity.

## Modules

| Module | Models | Composition |
|---|---|---|
| `TxQueue` | the queue as operators on a set of items with sequence numbers (slice order) | used by `HostTx` |
| `HostTx` | one host's transmit path: nodes, clients, receive loop, role changes, `txLoop`, radio, clock | extends `TxQueue` |
| `Site` | the gate with its wait channels, budget, retuning and the part of `transmitNext` that holds a turn | implements `AirSpace` |
| `AirSpace` | what the gate promises: turns on overlapping channels exclude each other | abstract |
| `ChatStore` | `MessageStore` with its file, save steps, crash, stop and restart | implements `SavedChats` |
| `SavedChats` | what a store with a file promises: saves are snapshots, the disk has one of them whole, a start brings it back | abstract |
| `Hosting` | identities of a site: web requests, host tables, files, slots, nodes, directories, crash and restart | |
| `KissModem` | the KISS driver and the modem at the other end of the line | |
| `LazyRadio` | the radio opened in the background, with the host's `configureLoop` and `setConfig` | above any driver |
| `HostedNode` | one supervised `meshtasticd`: `supervise`, `Bounce`, sensors planned and attached, the air quality check | below `Hosting` |
| `NodeLink` | a node's client, `Node.Run`, the key and settings pushed in edits, the check before the air | below `Hosting`, beside `HostedNode` |
| `History` | the duplicate filter as operators on its list | used by `Links` |
| `Links` | radio and MQTT connections handling packets at the same time, on one host | extends `History` |
| `HostTxProofs`, `SiteProofs`, `ChatStoreProofs`, `HostingProofs`, `KissModemProofs`, `LazyRadioProofs`, `HostedNodeProofs`, `LinksProofs` | the theorems | each extends its module; `HostedNodeProofs` extends `HostedNode` and `NodeLink`, which share no name |
| `MC*` | the instances TLC checks | extend the modules |

**TxQueue.** An item is a record of packet, hop limit, origin, due flag, attempts and sequence
number; `Enqueue` returns the set after eviction. Priority is a number per packet. Due times become
a flag (`DueComes`): the only effects of time are which items may be picked and in which order.

**HostTx.** `pc` is where `txLoop` is between two accesses to shared state, `item` what it has in
hand. `transmitNext` is cut where another goroutine can get in: after the duty check, the role
check, `ChannelBusy`, the gate, the second role check, and around `radio.Send`. The gate and the
radio answer nondeterministically (granted, over the site's cap, cancelled; sent, failed).
`SetRelayRole` is one step for the role and one per identity and failed message after it (`jobs`);
`SetConfig` changes the role with the other settings, after which nothing is failed. `Sealed` are the
texts a node encrypts itself (PKI direct messages): the host gets no plain data with them, and
`refuseOffAir` does not see that they are texts.
Sending a text is `SendText` (the store) and `HandToNode` or `HandOverFails`. A node retries
(`MaxTries`) and finally reports an acknowledgement or an error, at any moment. Airtime is a sum
with frames leaving the hour at any time. `tries`, `accepted`, `handed`, `offTx`, `lost`, `muted`
are history that only properties read. Left out: packet log, an `EncodeFrame` error (frames come
from code that only builds encodable ones), `SwapRemote`; links are in `Links`.

**Site.** `onAir` is the gate's table, `chan[h]` whether the channel waiter `h` sleeps on is still
open, `mine` the span `Acquire` read at its start, `span`/`tuned`/`freq` the configured channel,
the radio's channel and what it transmits on. Channels are intervals, `Overlap` is the code's.
`radio.Send` ends in one of two ways: with the radio done (`Sent`), or, for the radios in `Keepers`, with
the frame still in it (`Leave`): a KISS modem whose caller's context ended, whose report did not come or
whose session was lost, and a board, which is only handed the frame. The turn is given back all the
same; `kept` are the radios still sending, until `KeptOut`. A frame counts in the budget if its
`Send` succeeded; the hour loses whole frames.

**ChatStore.** `BeginSave` copies under the lock and clears the flag, `Written`/`WriteFails` follow,
other changes in between. Node numbers have `NodeBits` bits and Go's `int` `IntBits`; `Text` and
`Parsed` are what `itoa(int(id))` and `strconv.ParseUint` do to a key, so that 32- and 64-bit
builds differ exactly as in Go. The refinement to `SavedChats` shows chats as a restart would show them
(`FailUnacked`), what is being written and what is on disk as what `Load` would make of it.

**Hosting.** A request is a record with its next step (`do`); each step is what it does under one
lock: reserve a slot, start the node, add the identity, register the node; remove the identity,
unhost, stop, delete the directory; save radio after radio. A failed move puts the identity back as
the code does. `Start` restores all radios' records at once (the web server starts afterwards),
keeping what fails. An identity is the node it stands for (an `Instance` with its number of birth),
so that an old and a new node of the same key can be told apart. The relay persona and its slot 0,
app ports, sensors, changes of settings, and the chats and unsent packets that go with a move
(`Messages.Take`, `Put`, `DropOutgoing`) are left out.

**KissModem.** `link` is the session: being tuned (`connect`, not yet `m.sess`), published, or failed.
`apply` is the command exchange under way (`command`: write, wait, retry, three times at most), two
commands standing for all of `apply`. Bytes are two FIFO lines, so replies and `TxDone`, which carry
no request number, arrive late and are taken for another's exactly as in `deliver` and
`handleHardware`. `tx` is `txSem`: a `Send` that is cancelled leaves a goroutine that frees it. The
modem's firmware is external: it may be slow, refuse, lose replies when its queue is full, forget
everything with the line. `late`, `gaveUp`, `aired` are history.

**LazyRadio.** `loop` is where the goroutine is (start, open, apply, publish, forward, pause, retry),
`inner` which opening `r.inner` is, `call` the `Configure` calls between getting hold of a radio and
remembering its settings. Devices come and go; `configureLoop` is a caller of its own which reads
settings outside `cfgMu`. `refused` and `crossed` note the two cases in which nothing better can be
expected: the caller was told, or two `Configure` calls overlapped.

**HostedNode.** `proc` is the supervisor's place, `taken` what `startRun` returned, `bouncing` a `Bounce`
between its flag and `endRun`. A `SyncSensors` lists the nodes, plans, seeds, writes the file and
compares, each a step of its own; a write may fail. The air quality part follows the setting over
the node, the client's mirror, `bootRead`/`airAtBoot`/`airArmed`. History: `missed` (the change failed
and was logged, or found no registered node), `misread`, `spent`.

**NodeLink.** The client's connection, its mirror (`mirror`) and the events it publishes to bounded
subscriptions; `Node.configured`, which asks for a key (`giveKey`) or a push; `ApplyConfig` under
`editMu` in its steps: `WaitReady`, a look at the mirror, `repeating`, the messages one by one, commit,
`awaitRestart`, `awaitConfigured`. `waiting` counts the goroutines that have read the host's settings
and wait for the mutex, in whatever order it is given. A request fails at once without a connection
and otherwise waits for its answer even past a reconnect (`edit.lost`). The node is external: it
takes messages, keeps all or all but the settings at a commit, reboots for it or not, crashes,
comes back with another key. Its settings are one value. `frame` is a frame of a node under a foreign key
that waits in the air's subscription, which outlives connections: `"new"`, or `"stale"` once the node was
read anew. `lapsed` is history: since the last reading
an edit took an earlier flap for its restart, broke off at a message that may have taken effect, or
was held back. Names that `HostedNode` also has begin with `Link` here, so
that one module can prove about both. Left out: following a new node number (`follow`, `SwapRemote`), a board's first region.

**History.** The list of `history.go`, most recent first, as operators: `Observe`, `MarkTx`, `Aged`.

**Links.** Each receiver (the radio's loop, each MQTT connection) is a goroutine that handles one packet
in steps: given to the nodes (`tapped`), looked up in the filter, offered to the connections. The nodes'
relay may put on the air what it was given with hops left. `origins` and `uplinked` are `Origins` and
`Uplinked`. Rate limits and broken connections may drop anything at any time. `heard`, `plain`, `came`,
`aired`, `sent`, `news`, `fresher` are history.

## Runs

All runs but `links` take `CHECK_DEADLOCK FALSE`: hosts end, nodes are stopped, and the bounds on
counters stop the rest. `links` runs for ever and is checked for deadlock.

| Run | Instance | States | Shows |
|---|---|---|---|
| `host_tx` | 2 identities; a sealed text, a beacon, a relay; queue of 2; limit 2; 1 deferral; 2 switches | 3.1 M | nothing is sent twice although a busy channel puts items back; the duty limit is passed by less than a frame; off means quiet but for the frame in flight; a text still "queued" is somewhere or was lost in a named way; an acknowledgement stays; own packets never make room |
| `host_tx_live` | a plain text tried twice, queue of 1, 1 switch to monitor mode, fairness | 0.24 M | everything queued leaves; every text gets a final status unless lost in a named way or the host stopped |
| `site` | 3 radios on LongFast, MediumFast and a channel apart; one keeps frames; caps 1, 2; 4 frames; 1 retune; fairness | 0.2 M | turns exclude each other (refinement of `AirSpace`), none leaks, no wake-up is lost, waiters are served, the cap's overshoot; frames inside their `Send` keep apart until a retune |
| `chat_store` | 2 identities, one number in the upper half; 2 messages; 3 starts, 1 failed write | 0.14 M | a clean flag means the file is current; a clean restart keeps every chat; saves are whole (refinement of `SavedChats`); nothing waits for an answer that cannot come |
| `hosting` | 2 radios of 2 ports, 2 keys, 2 requests, 2 starts of the program, 3 of nodes, 1 failing | 2.9 M | processes share a port only while one is stopped, directories stay under running nodes, every identity has a node, files agree with tables when requests are done |
| `kiss_modem` | 3 settings, one refused, one unsupported; 2 frames, 2 sessions, 2 `Configure`, 2 attempts; host queue of 1; fairness | 1.1 M | the modem ends up with the last settings through reconnects and late replies; a `Send` that succeeds sent its own frame; the transmitter is always freed |
| `lazy_radio` | 2 settings, 2 devices, a request and the boot; 2 losses, 2 changes; fairness | 0.34 M | an open radio has the host's settings; it is open again when its device stays |
| `hosted_node` | one plan with air quality; 2 changes, 1 failing write; fairness | 0.35 M | the process carries what is attached; an asked-for restart is no failure; it comes back; an air quality sensor is found in the end |
| `node_link` | 2 settings, 2 keys; 1 retry; 2 waiting goroutines; 1 change, 1 fault; fairness | 1.1 M | a frame under a foreign key stays off the air unless the node was read anew while it waited; the node gets its key and the settings, or is given up; when nobody is left to act on it, it has them; pushing ends |
| `links` | 3 connections to one broker, 3 packets, filter of 2, lifetimes of 1 | 2.9 M | broker traffic goes on air or across only where allowed; a broker gets a packet once; a packet is news again only when it may have been forgotten |

Why these bounds are enough to mean something: the hazards are between two or three actors and one
contended resource, and each instance has one more contender than places (three packets for a queue
or a filter of two, three radios of which two overlap, two requests on two keys and two radios, three
goroutines for one `editMu`). Retries are cut from 3 to 1 or 2: what matters is one that is allowed and
one that is not. With one waiting goroutine, `node_link` was also checked for two faults and for
two changes of the settings. Every mutant listed in `PROJECT.json` - one for each property,
each a bug one could have written - is found within these bounds. Each module's `TypeOK` holds in
its run as well; to check it, add it to the `INVARIANTS` of the configuration.

Runs that must fail, one for each finding:

| Run | Property | What the code does |
|---|---|---|
| `hosting_orphan` | `NoOrphanNode` | a delete before registration leaves the node running |
| `lazy_close` | `CloseReturns` | `Close` misses a radio that is opened but not published, and waits for ever |

### Known disagreements

Found while modelling, and left out of the runs because what they say fits in a line:

- A text in `txLoop`'s hand at the second role check (`mesh/host.go:745`) is dropped without failing its
  message; `host_tx` names it as one of the ways a text is lost (`muted`).
- Relayed frames are accounted to the relay's node number (`mesh/airtap.go:56`), never to "origin 0".
- "Local senders of text hear why" (`mesh/host.go:774-775`) when the host is in monitor or off mode. A text
  its node encrypted itself comes without plain data (`nodes/air.go:269-273`), so the portnum tested in
  `mesh/host.go:780` is not a text's: it goes without a word and its message stays "queued" (`muted`).
- `dropAllOutgoing` "fails every identity's queued and retrying packets when the radio stops
  transmitting" (`mesh/host.go:1009-1010`). `setConfig` stores the new role before it calls `SetRelayRole`
  (`mesh/host.go:977-980`), which then finds no change and calls nothing (`SetConfig`).
- Radios on overlapping channels "must never transmit at the same time" (`site/site.go`, package comment).
  A retune takes no turn, and a waiter's span may be out of date (`site/site.go:90`). And a
  turn ends with `radio.Send`, not with the frame: a KISS modem whose `Send` was cancelled or gave up waiting
  (`radio/kiss/kiss.go:747-777`) has it still, a board sends it in its own time (`nodes/board.go:193`, and
  its own traffic asks for no turn). A frame that goes out after a failed `Send` is in no budget either.
  `DisjointInSend` is what remains.
- "Nothing it sends goes on air meanwhile" (`nodes/node.go:274-275`; likewise
  `docs/meshtasticd-nodes.md:53-54`) of a node that has not got its key yet. Its frames wait in a
  subscription of 1024 (`nodes/air.go:125`) and are judged when taken off it (`nodes/air.go:176`), by
  the node's last reading: one still waiting when the node was read with the right key is sent under the
  foreign number. In `NodeLink` a `"stale"` frame; `ForeignNeedsAReading` is what remains.
- Two requests, or a request and a kept record, can put one key on two radios
  (`web/identities.go:215`): the check looks at running identities and holds no lock.
- On 32-bit builds the chat store writes the key of a node number above 2^31 as a negative number
  (`mesh/events.go:391`), which `Load` skips: the chats are gone after a clean restart. Set `IntBits` to
  `NodeBits` in `ChatStore.cfg` to see it.
- `awaitConfigured` promises that "the next change reads fresh settings" (`nodes/settings.go:488`). An edit
  whose connection flapped before its commit takes that flap for the restart, so the next one reads
  an old mirror (`lapsed` in `NodeLink`).
- A key that was waiting behind another edit is pushed with old settings, and if that edit fails after
  they took effect nothing reads the node again, as it has its key (`nodes/node.go:302`); a push that
  waited and finds the node on its own older settings clears what was noted as stuck.

### Fairness

`HostTx!FairSpec`: weak fairness of `txLoop` as a whole (a goroutine that always has something to
do or waits for a timer or a kick; `ChannelBusy` and `Send` end by their contexts; the gate's part
is justified by `WaiterIsServed`), of a due time coming (a timer), and of each role change (an HTTP
handler runs to its end). Nodes, clients and the receive loop owe nothing.

`Site!FairSpec`: weak fairness of each radio's loop. A waiter could be overtaken for ever by radios
that are quicker to the lock, the code has no queue of waiters; `WaiterIsServed` therefore holds for
radios with finitely many frames to send (`MaxFrames`), that is, whenever the others pause.

`KissModem!FairSpec`: the driver's timers fire and its goroutines run; the modem, the line and the
callers owe nothing. `LazyRadio!FairSpec`: the loop, calls under way, `configureLoop` and `Close` go
on; devices owe nothing, the property asks for one that stays.

`HostedNode!FairSpec`: weak fairness of the goroutines; strong fairness of a process booting, being
read by the client and taking a setting: it is not ended every single time just before. Nobody has to
attach anything, stop the node or end a process.

`NodeLink!LinkFairSpec`: the client dials and the node completes a handshake, `Node.Run`, edits, sleeping
goroutines and the mutex go on; only `MaxLinkFaults` of the node's answers are lost. Nobody has to change
settings or transmit.

## Proofs

`tlapm` checks these for all values of the constants that satisfy the assumption of the module
(types of the parameters; `None` is no instance, no file and no chat; `IdsFit` where it is named). Each
proof module begins with the inductive invariant, `IInv`, as a conjunction of named parts; TLC was
given `IInv` as an invariant of the component's run before it was proved. What follows says
why the properties are not inductive by themselves and what carries them. Every module has its `TypeOK`
(`LinkTypeOK`) proved too; it bounds something in each: a chat's length, the filter, a command's
attempts, a node's tries and events, one entry for a key in a radio's table.

*Site* (`SiteProofs`). The inductive invariant of `TurnsDisjoint`, `TurnIsHeld` and `NoLostWakeup` is their
conjunction with `TypeOK`, `TurnIsMine` (a turn in the table is for the span `Acquire` read) and
`Tuned` (without a retune the configured channel, the radio's and the one transmitted on agree, but for
kept frames). `DisjointInSend` follows, as a frame inside its `Send` is inside its turn; `BudgetBounded` is inductive with `TypeOK`, by counting the radios past
the check. `SiteImplementsAirSpace` maps `onAir` to the abstract turn: taking and giving back a turn are
the abstract steps, all others stutter.

*HostTx* (`HostTxProofs`). `HandOK` (there is an item exactly between `TakeNext` and the end of the
round) is needed everywhere. On it rest `DutyBounded` (`DutyOK`: past the check the total is below
the limit), `QuietWhenOff` (`OffOK`: the one frame allowed has been sent or the loop is about to
send it), `AckIsFinal` (`StoreOK`: a text the store does not hold was not tried),
`OwnLeavesOnlyForAReason` (a lemma for each operator of the queue), `QueuedIsAccountedFor` and
`NoSecondTransmission` (`CountOK`: finite queue; the cardinality of a packet's copies changes by at
most one per step).

*ChatStore* (`ChatStoreProofs`). `PendingIsFresh` needs that a file's lists are short enough to survive
`Load` untrimmed (`FilesAreShort`) and that nothing is shown before it (`Saving`). `CleanMeansSaved` and
`CleanRestartKeepsChats` are proved under `IdsFit` (a node number is a positive Go `int`: true for all
with 64 bits, and needed: see *Known disagreements*). They follow the bytes: what is being written
brings the chats back unless they have changed since (`WritingIsCurrent`), then the file does, then what
a clean stop left is in it (`KeptIsInFile`). The lemmas say that `Load` undoes `Save` but for messages that
become failed, and that failing them twice changes nothing. `ChatImplementsSavedChats` rests on these: taking,
writing, failing to write and reading back are the abstract steps, `Stop` and a last save with
nothing to save stutter. It needs one thing more, `FilesHaveChats`: no list in a file is empty, or a start would
take away what was added before it.

*Hosting* (`HostingProofs`). `RequestOK` is what a request may rely on at each of its steps, `DownIsIdle` that
nothing survives the process. An instance's number of birth is never used twice (`BornBefore`), so a
node belongs to the one request that starts it (`StartIsOwned`) and is stopped only once its identity
and its entry are gone (`StopIsLast`): hence `IdentityHasItsNode`. `PortsHeld` (a running node's port
is held by its entry or by the request that starts or stops it) gives
`PortsClashOnlyWhileStopping`, `DirsShared` (who shares a directory) gives `NodeHasItsDir`.
`FilesAreCurrent` speaks of moments without a request; what is true at all others is `FilesFollow`: where
table and file disagree, a request is still going to save that radio (`WillSave`).

*KissModem* (`KissModemProofs`). `Settles(p, c)` says what the modem will be tuned to once it has worked
through its input: the last command about part `p` decides, or what it has. Every reply that is not
mistaken means that the command it answers was accepted, so that the settings a session believes
in are those the modem settles on (`WillBeTuned`); `Current` compares generations, so that they are the
last ones asked for. `SentMeansTransmitted` rests on `OneInFlight`: while nobody has given up, a frame is
in one place at most - on the line, in the modem, reported, or in `txDone` - and its `Send` still holds
the transmitter.

*LazyRadio* (`LazyRadioProofs`). `KeptIsHosts` follows the host's settings from the call that brings
them (`CallsFollowHost`) to `r.cfg` and from there into each radio opened later; it needs that `r.inner` is
the radio the loop serves (`InnerIsServed`) and that a call holds no radio that is not published yet
(`CallsHoldPublished`).

*HostedNode* (`HostedNodeProofs`). `CarriesWhatIsAttached` speaks of a synchronisation that is over. In
between, `SyncIsOne` and `Settled` say how far it is, and that a run with old sensors is one `Bounce` is
about to end. `AskedIsNotAFailure` follows the flag from `Bounce` over the run's end to its verdict
(`AskedIsKnown`).

*NodeLink* (`HostedNodeProofs`, second half; `LinkIInv`). `ForeignNeedsAReading` needs that a node under
another key is one whose reading showed that key (`ForeignIsRead`). `QuietIsSettled` speaks of a node that
nobody is going to touch; before that somebody owes it something, and the invariant says who. `KeyIsOwed`: a
sleeper, a waiting goroutine or an edit will give it its key. `SettingsAreOwed`: some goroutine waits with
the settings wanted now, an edit sets them, or an edit has begun and will not end without another
reading (`Rereads`). A push that finds nothing to do may only end if the mirror is right, which is
`MirrorIsCurrent`: the client's mirror has the node's settings unless an edit still rereads them or they
`lapsed`. Who sleeps after a failed push is not needed: the failure itself lost the connection, so
that the next reading asks again, or left a message unheard, which is `lapsed`.

*Links* (`LinksProofs`). `AirOnlyByConsent` needs that the nodes were given a broker's packet with few
enough hops (`NearByConsent`) and that `Origins` and the receivers know where it came from
(`FromBrokers`); `CrossOnlyByConsent` follows. `OncePerBroker` needs that what was sent lately is marked
(`SentIsMarked`). `NewsOnlyWhenForgotten` is about the list: `Remembered` says that an entry not yet
forgotten has only packets that came later in front of it, and lemmas about `Observe` and `MarkTx`,
for lists of any length, say what each does to the order.

Only model-checked: liveness (`EveryCopyLeaves`, `EveryTextResolves`, `WaiterIsServed`,
`TransmitterComesBack`, `OpensAgain`, `ComesBack`, `AirSensorIsFound`, `KeyArrives`, `SettingsArrive`,
`PushingEnds`; the prover has no fairness); every safety property of the runs is a theorem. What functions
over data compute for every input (induction) is out of reach too: that no more than `MaxWaiting` goroutines
wait in `NodeLink` is a fold over two sets, and a bound of the model only. No module here declares a
RECURSIVE operator.

## Not modelled

Bytes on the wire, cryptography and PHY tables (pure functions, covered by test vectors), drivers
of radio chips and the C shim (hardware), generated code, the user interface, wording and logging.
The components marked `not_modelled` in `PROJECT.json` that have behaviour of their own are the
plan below. Hazards without a property, and those whose own case a history flag takes out of one (`late`, `gaveUp`,
`crossed`, `missed`, `misread`, `reused`), say so in their note there. `Restart` (`nodes/hosting.go:247-270`), a
third caller of `Bounce`, the wake channel of `TxQueue` and a subscription so full of received packets
that a `Configured` event is dropped are left out of `HostedNode`, `HostTx` and `NodeLink`.

## Plan

1. Done: `TxQueue`, `HostTx`, `Site` and `AirSpace`, `ChatStore`, `Hosting`, `KissModem`, `LazyRadio`,
   `HostedNode`, `NodeLink`, `History` and `Links`.
2. Done: for any constants, every safety property the runs check. The gate and the chat store
   implement abstract specifications. Next: the duplicate filter against one that forgets at will.
3. Left to model: `PhoneApi` (sessions of a node that goes), `PluginSupervisor` with budgets, read markers
   and `Take`/`Put` composed with moves in `Hosting`, app ports and the persona's slot there, following a
   new node number in `NodeLink`, `HostTx` over `Site` for two hosts.

## Running

In this directory: `tlc -workers 2 -config HostTx.cfg MCHostTx` and likewise for the other
configurations; `tlapm SiteProofs.tla` and likewise for the other proof modules.
