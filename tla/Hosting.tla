------------------------------ MODULE Hosting ------------------------------
(***************************************************************************)
(* The life of identities on a site of several radios: web requests that   *)
(* create, delete and move them (internal/web/identities.go), the host's   *)
(* table of identities and its file (AddIdentity, RemoveIdentity,          *)
(* SaveIdentities in internal/mesh), and the meshtasticd each one runs on  *)
(* (HostIdentity, Unhost in internal/nodes/hosting.go).                    *)
(*                                                                         *)
(* Requests run concurrently; no lock is held across one.  h.mu guards the *)
(* table, x.mu the hosting's entries and slots, saveMu the writing of one  *)
(* radio's file: each step below is what a request does under one of them. *)
(***************************************************************************)
EXTENDS Integers, FiniteSets

CONSTANTS
  NRadios,   \* number of radios, in the order of s.radios
  Keys,      \* identities, by key (their last bytes differ)
  NSlots,    \* client API ports of a radio for identities (99)
  Requests,  \* web requests that can be under way at once
  MaxBirths, \* bound: starts of a hosted node
  MaxFails,  \* bound: starts that fail (StartHosted)
  MaxStarts, \* bound: starts of the process
  None       \* no instance

Radios == 1..NRadios
Slots == 1..NSlots

\* One start of a hosted node: whose, on which radio and port.
Instances == [key : Keys, radio : Radios, slot : Slots, born : 1..MaxBirths]

ASSUME HostingAssumption ==
  /\ NRadios \in Nat \ {0} /\ NSlots \in Nat \ {0}
  /\ IsFiniteSet(Keys) /\ None \notin Keys \cup Instances
  /\ MaxBirths \in Nat /\ MaxFails \in Nat /\ MaxStarts \in Nat

VARIABLES
  up,       \* whether the process runs
  ids,      \* Host.ids of all radios, by the node behind each identity
  kept,     \* kept[r]: saved identities that could not be started
  file,     \* file[r]: identities in radio r's identities.json
  nodes,    \* Hosting.nodes of all radios
  starting, \* starting[r]: slots held by starts in progress
  procs,    \* instances whose meshtasticd runs (and is restarted if it ends)
  dirs,     \* state directories of instances: pairs of radio and key
  req       \* req[a]: what request a is doing

\* History and bounds.
VARIABLES
  births, fails, starts,
  reused,   \* directories a node was started in that were in use, see InUse
  putBack   \* keys a failed move left without a save, or lost

hostingVars == <<nodes, starting, procs, dirs>>
boundVars == <<births, fails, starts>>
vars == <<up, ids, kept, file, nodes, starting, procs, dirs, req, births, fails,
          starts, reused, putBack>>

Idle == [op |-> "none", key |-> None, from |-> 0, at |-> 0, do |-> "idle",
         inst |-> None, next |-> 0]

KeysOf(S) == {i.key : i \in S}
On(S, r) == {i \in S : i.radio = r}
Dir(i) == <<i.radio, i.key>>

Progress == [op : {"none", "create", "delete", "move"}, key : Keys \cup {None},
             from : 0..NRadios, at : 0..NRadios,
             do : {"idle", "slot", "start", "add", "register", "remove", "unhost", "stop",
                   "wipe", "save"},
             inst : Instances \cup {None}, next : 0..NRadios]

TypeOK ==
  /\ up \in BOOLEAN
  /\ ids \subseteq Instances /\ nodes \subseteq Instances /\ procs \subseteq Instances
  /\ \A i, j \in ids : i.radio = j.radio /\ i.key = j.key => i = j
  /\ kept \in [Radios -> SUBSET Keys] /\ file \in [Radios -> SUBSET Keys]
  /\ starting \in [Radios -> SUBSET Slots]
  /\ dirs \subseteq Radios \X Keys /\ reused \subseteq Radios \X Keys /\ putBack \subseteq Keys
  /\ req \in [Requests -> Progress]
  /\ births \in 0..MaxBirths /\ fails \in 0..MaxFails /\ starts \in 0..MaxStarts

\* Every identity was saved on one radio when the site last stopped.
Init ==
  /\ up = FALSE
  /\ ids = {} /\ nodes = {} /\ procs = {} /\ dirs = {}
  /\ kept = [r \in Radios |-> {}]
  /\ file \in {f \in [Radios -> SUBSET Keys] :
                 \A r, q \in Radios : r # q => f[r] \cap f[q] = {}}
  /\ starting = [r \in Radios |-> {}]
  /\ req = [a \in Requests |-> Idle]
  /\ births = 0 /\ fails = 0 /\ starts = 0 /\ reused = {} /\ putBack = {}

Goto(a, do) == req' = [req EXCEPT ![a].do = do]

-----------------------------------------------------------------------------
(* Web requests begin.                                                     *)

Begin(a, op, k, r, q, do, i) ==
  /\ up /\ req[a] = Idle
  /\ req' = [req EXCEPT ![a] = [op |-> op, key |-> k, from |-> r, at |-> q,
                                do |-> do, inst |-> i, next |-> 1]]
  /\ UNCHANGED <<up, ids, kept, file, hostingVars, boundVars, reused, putBack>>

\* createIdentity: "one key, one radio", as far as the tables show it now.
CreateIdentity(a, k, r) ==
  /\ k \notin KeysOf(ids)
  /\ Begin(a, "create", k, r, r, "slot", None)

\* deleteIdentity, and DropIdentity's first look.
DeleteIdentity(a, i) == i \in ids /\ Begin(a, "delete", i.key, i.radio, i.radio, "remove", i)

\* moveIdentity: not onto a radio that has an identity like it.
MoveIdentity(a, i, q) ==
  /\ i \in ids /\ q # i.radio
  /\ i.key \notin KeysOf(On(ids, q))
  /\ Begin(a, "move", i.key, i.radio, q, "remove", i)

-----------------------------------------------------------------------------
(* AddRecord: HostIdentity.                                                *)

\* Mutant: a start in progress does not hold its port.
FreeSlotsRegistered(r) == Slots \ {i.slot : i \in On(nodes, r)}

\* freeSlot: not of a registered node, not of a start in progress.
FreeSlots(r) == Slots \ ({i.slot : i \in On(nodes, r)} \cup starting[r])

\* AddRecord failed.  A create ends; a move puts the identity back where it
\* was, and if that fails too it ends as well, without a save either way.
AddFailed(a) ==
  IF req[a].op = "move" /\ req[a].at # req[a].from
  THEN /\ req' = [req EXCEPT ![a].at = req[a].from, ![a].do = "slot", ![a].inst = None]
       /\ putBack' = putBack \cup {req[a].key}
  ELSE /\ req' = [req EXCEPT ![a] = Idle]
       /\ UNCHANGED putBack

\* The lowest free port is taken, or there is none.
ReserveSlot(a) ==
  /\ req[a].do = "slot"
  /\ LET r == req[a].at
     IN \/ \E s \in FreeSlots(r) :
             /\ \A t \in FreeSlots(r) : s <= t
             /\ births < MaxBirths
             /\ births' = births + 1
             /\ starting' = [starting EXCEPT ![r] = @ \cup {s}]
             /\ req' = [req EXCEPT ![a].do = "start", ![a].inst =
                  [key |-> req[a].key, radio |-> r, slot |-> s, born |-> births + 1]]
             /\ UNCHANGED putBack
        \/ FreeSlots(r) = {} /\ AddFailed(a) /\ UNCHANGED <<births, starting>>
  /\ UNCHANGED <<up, ids, kept, file, nodes, procs, dirs, fails, starts, reused>>

\* Another node runs in the directory, or a request is about to remove it.
InUse(d) ==
  \/ \E i \in procs : Dir(i) = d
  \/ \E a \in Requests : req[a].do \in {"unhost", "stop", "wipe"} /\ Dir(req[a].inst) = d

\* The slot is only held while HostIdentity runs.
LetGo(a) == starting' = [starting EXCEPT ![req[a].inst.radio] = @ \ {req[a].inst.slot}]

\* StartHosted: the directory is made and meshtasticd runs in it ...
StartHosted(a) ==
  /\ req[a].do = "start"
  /\ dirs' = dirs \cup {Dir(req[a].inst)}
  /\ procs' = procs \cup {req[a].inst}
  /\ reused' = IF InUse(Dir(req[a].inst)) THEN reused \cup {Dir(req[a].inst)} ELSE reused
  /\ Goto(a, "add")
  /\ UNCHANGED <<up, ids, kept, file, nodes, starting, boundVars, putBack>>

\* ... or it cannot be prepared.
StartFails(a) ==
  /\ req[a].do = "start" /\ fails < MaxFails
  /\ fails' = fails + 1
  /\ LetGo(a) /\ AddFailed(a)
  /\ UNCHANGED <<up, ids, kept, file, nodes, procs, dirs, births, starts, reused>>

\* AddIdentity, under h.mu; if the table has the identity already, the node
\* just started is stopped again.
AddIdentity(a) ==
  /\ req[a].do = "add"
  /\ IF req[a].key \in KeysOf(On(ids, req[a].at))
     THEN /\ procs' = procs \ {req[a].inst}
          /\ LetGo(a) /\ AddFailed(a)
          /\ UNCHANGED ids
     ELSE /\ ids' = ids \cup {req[a].inst}
          /\ Goto(a, "register")
          /\ UNCHANGED <<procs, starting, putBack>>
  /\ UNCHANGED <<up, kept, file, nodes, dirs, boundVars, reused>>

\* The node joins the air and is registered.  A move that had to put the
\* identity back ends here, without a save.
Register(a) ==
  /\ req[a].do = "register"
  /\ nodes' = nodes \cup {req[a].inst}
  /\ LetGo(a)
  /\ IF req[a].op = "move" /\ req[a].at = req[a].from
     THEN req' = [req EXCEPT ![a] = Idle] ELSE Goto(a, "save")
  /\ UNCHANGED <<up, ids, kept, file, procs, dirs, boundVars, reused, putBack>>

-----------------------------------------------------------------------------
(* DropIdentity: RemoveIdentity, then Unhost.                              *)

\* Mutant: the node is stopped and its identity stays in the table.
RemoveNothing(a) ==
  /\ req[a].do = "remove"
  /\ Goto(a, "unhost")
  /\ UNCHANGED <<up, ids, kept, file, hostingVars, boundVars, reused, putBack>>

\* RemoveIdentity, by node number: whatever identity has it now.
RemoveIdentity(a) ==
  /\ req[a].do = "remove"
  /\ LET gone == {i \in ids : i.key = req[a].key /\ i.radio = req[a].from}
     IN /\ ids' = ids \ gone
        /\ IF gone = {} THEN req' = [req EXCEPT ![a] = Idle] ELSE Goto(a, "unhost")
  /\ UNCHANGED <<up, kept, file, hostingVars, boundVars, reused, putBack>>

AfterDrop(a) == IF req[a].op = "move" THEN "slot" ELSE "save"

\* Unhost of the node DropIdentity saw first: its entry, if it has one, goes
\* (and with it its port), then the node is stopped.
Unhost(a) ==
  /\ req[a].do = "unhost"
  /\ nodes' = nodes \ {req[a].inst}
  /\ Goto(a, IF req[a].inst \in nodes THEN "stop" ELSE AfterDrop(a))
  /\ UNCHANGED <<up, ids, kept, file, starting, procs, dirs, boundVars, reused, putBack>>

\* Mutant: the directory goes before the node has stopped.
WipeFirst(a) ==
  /\ req[a].do = "stop"
  /\ dirs' = dirs \ {Dir(req[a].inst)}
  /\ Goto(a, "wipe")
  /\ UNCHANGED <<up, ids, kept, file, nodes, starting, procs, boundVars, reused, putBack>>

StopNode(a) ==
  /\ req[a].do = "stop"
  /\ procs' = procs \ {req[a].inst}
  /\ Goto(a, "wipe")
  /\ UNCHANGED <<up, ids, kept, file, nodes, starting, dirs, boundVars, reused, putBack>>

\* Unhost deletes the state of the node.
Wipe(a) ==
  /\ req[a].do = "wipe"
  /\ dirs' = dirs \ {Dir(req[a].inst)}
  /\ Goto(a, AfterDrop(a))
  /\ UNCHANGED <<up, ids, kept, file, nodes, starting, procs, boundVars, reused, putBack>>

-----------------------------------------------------------------------------
(* SaveIdentities.                                                         *)

Records(r) == KeysOf(On(ids, r)) \cup kept[r]

\* Mutant: only the radio the identity is on now is saved.
SaveNewRadio(a) ==
  /\ req[a].do = "save"
  /\ file' = [file EXCEPT ![req[a].at] = Records(req[a].at)]
  /\ req' = [req EXCEPT ![a] = Idle]
  /\ UNCHANGED <<up, ids, kept, hostingVars, boundVars, reused, putBack>>

\* saveIdentities: one radio after the other, in their order.
Save(a) ==
  /\ req[a].do = "save"
  /\ LET r == req[a].next
     IN /\ file' = [file EXCEPT ![r] = Records(r)]
        /\ req' = IF r = NRadios THEN [req EXCEPT ![a] = Idle]
                                 ELSE [req EXCEPT ![a].next = r + 1]
  /\ UNCHANGED <<up, ids, kept, hostingVars, boundVars, reused, putBack>>

\* Node.configured: a node has connected, its radio's file is written.  (Its
\* event loop starts once its identity is in the table.)
NodeConfigured(i) ==
  /\ i \in procs
  /\ \A a \in Requests : req[a].inst = i => req[a].do # "add"
  /\ file' = [file EXCEPT ![i.radio] = Records(i.radio)]
  /\ UNCHANGED <<up, ids, kept, hostingVars, boundVars, req, reused, putBack>>

-----------------------------------------------------------------------------
(* The process starts and ends.                                            *)

\* Nothing is left of what was in memory.
Down ==
  /\ up' = FALSE
  /\ ids' = {} /\ nodes' = {} /\ procs' = {}
  /\ kept' = [r \in Radios |-> {}]
  /\ starting' = [r \in Radios |-> {}]
  /\ req' = [a \in Requests |-> Idle]

Crash ==
  /\ up
  /\ Down
  /\ UNCHANGED <<file, dirs, boundVars, reused, putBack>>

\* runRadios: every radio's identities are saved, whatever requests are at.
Exit ==
  /\ up
  /\ Down
  /\ file' = [r \in Radios |-> Records(r)]
  /\ UNCHANGED <<dirs, boundVars, reused, putBack>>

\* The keys of radio r started with the lowest ports, in some order.
Restored(r, S, from) ==
  {f \in [S -> Instances] :
     /\ \A k \in S : f[k].key = k /\ f[k].radio = r /\ f[k].slot <= Cardinality(S)
                     /\ f[k].born = from + f[k].slot
     /\ \A k, m \in S : k # m => f[k].slot # f[m].slot}

\* loadIdentities, radio by radio: what cannot be started is kept for the
\* next start.  (Requests are served once every radio is restored.)
Start(bad) ==
  /\ ~up /\ starts < MaxStarts
  /\ starts' = starts + 1 /\ up' = TRUE
  /\ LET good(r) == file[r] \ bad
         base(r) == births + Cardinality(UNION {{<<q, k>> : k \in good(q)} : q \in 1..(r - 1)})
     IN /\ births' = base(NRadios + 1)
        /\ births' <= MaxBirths
        /\ \A r \in Radios : Cardinality(good(r)) <= NSlots
        /\ \E f \in [Radios -> UNION {Restored(r, good(r), base(r)) : r \in Radios}] :
             /\ \A r \in Radios : f[r] \in Restored(r, good(r), base(r))
             /\ ids' = UNION {{f[r][k] : k \in good(r)} : r \in Radios}
  /\ fails' = fails + Cardinality(bad)
  /\ fails' <= MaxFails
  /\ nodes' = ids' /\ procs' = ids'
  /\ dirs' = dirs \cup {Dir(i) : i \in ids'}
  /\ kept' = [r \in Radios |-> file[r] \cap bad]
  /\ reused' = {} /\ putBack' = {}
  /\ UNCHANGED <<file, starting, req>>

Request(a) ==
  \/ \E k \in Keys, r \in Radios : CreateIdentity(a, k, r)
  \/ \E i \in ids : DeleteIdentity(a, i) \/ \E q \in Radios : MoveIdentity(a, i, q)

Handler(a) ==
  \/ ReserveSlot(a) \/ StartHosted(a) \/ StartFails(a) \/ AddIdentity(a) \/ Register(a)
  \/ RemoveIdentity(a) \/ Unhost(a) \/ StopNode(a) \/ Wipe(a) \/ Save(a)

Next ==
  \/ \E a \in Requests : Request(a) \/ Handler(a)
  \/ \E i \in procs : NodeConfigured(i)
  \/ Crash \/ Exit
  \/ \E bad \in SUBSET UNION {file[r] : r \in Radios} : Start(bad)

Spec == Init /\ [][Next]_vars

-----------------------------------------------------------------------------
(* Properties.                                                             *)

\* Two meshtasticd share a port only while one of them is being stopped by
\* Unhost, which frees the port before the node has ended.
PortsClashOnlyWhileStopping ==
  \A i, j \in procs : i # j /\ i.radio = j.radio /\ i.slot = j.slot =>
    \E a \in Requests : req[a].do = "stop" /\ req[a].inst \in {i, j}

\* A running node has its directory, unless a second node for the same key
\* was started on the radio before the first one and its directory were gone.
NodeHasItsDir == \A i \in procs : Dir(i) \in dirs \/ Dir(i) \in reused

\* The host never shows an identity nothing stands for.
IdentityHasItsNode == \A i \in ids : i \in procs

\* Once every request has ended the files say what runs: a running identity
\* will be back after a crash, and one that is not running will stay away
\* (unless it was kept, or a failed move left it behind).
FilesAreCurrent ==
  up /\ (\A a \in Requests : req[a] = Idle) =>
    \A r \in Radios : \A k \in Keys \ putBack : k \in file[r] <=> k \in Records(r)

\* "Unhost stops the node an identity stands for": once every request has
\* ended, each meshtasticd that runs stands for an identity.
NoOrphanNode ==
  (\A a \in Requests : req[a] = Idle) => \A i \in procs : i \in ids
=============================================================================
