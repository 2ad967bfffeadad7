----------------------------- MODULE ChatStore -----------------------------
(***************************************************************************)
(* The chats of one host and their file (MessageStore in                   *)
(* internal/mesh/events.go; Run, timerLoop and saveState in host.go):      *)
(* messages are kept in memory, written to messages.json once a minute     *)
(* when something changed and once more when the host stops, and read back *)
(* at start.  The process may die at any moment; writing a file may fail.  *)
(*                                                                         *)
(* The file names an identity by the decimal text of its node number,      *)
(* itoa(int(id)), and reads it back with ParseUint: the width of Go's int  *)
(* matters (32 bits on the armv6 and armv7 builds, 64 on the others).      *)
(***************************************************************************)
EXTENDS Integers, Sequences, FiniteSets

CONSTANTS
  Ids,        \* node numbers of the host's identities
  NodeBits,   \* width of a node number (uint32)
  IntBits,    \* width of Go's int
  MsgIds,     \* packet ids of messages
  MaxKept,    \* messages kept per identity (1000 in NewHost)
  MaxAdds,    \* bound: messages added
  MaxStarts,  \* bound: starts of the process
  MaxFails,   \* bound: failed writes
  None        \* no file, no snapshot

VARIABLES
  up,       \* stage of the process, see Stages
  per,      \* per[id]: the identity's messages, oldest first
  dirty,    \* MessageStore.dirty
  writing,  \* what a Save is about to write, or None
  file      \* messages.json: a function from the texts of ids, or None

\* History, read by properties and bounds.
VARIABLES
  fresh,    \* messages sent since the process started
  stale,    \* whether a write failed since the file was last written
  kept,     \* what a clean stop left to be restored, None otherwise
  adds, starts, fails

vars == <<up, per, dirty, writing, file, fresh, stale, kept, adds, starts, fails>>
histVars == <<fresh, stale, kept, adds, starts, fails>>

Stages == {"down", "starting", "up", "stopping", "saved"}
Statuses == {"queued", "sent", "acked", "failed", "received"}
Messages == [id : MsgIds, dir : {"in", "out"}, status : Statuses]
Chats == [Ids -> Seq(Messages)]

NoChats == [n \in Ids |-> <<>>]

-----------------------------------------------------------------------------
(* The file format.                                                        *)

\* Go's int(id): the low IntBits of the node number as a signed number.
GoInt(n) == IF n < 2^(IntBits - 1) THEN n ELSE n - 2^IntBits

\* itoa: texts stand for the numbers they spell.  (For the smallest number it
\* spells only "-", which is no node number either.)
Text(n) == GoInt(n)

\* What can be in messages.json: lists of messages under such texts.
IsFile(f) == \E texts \in SUBSET {Text(n) : n \in Ids} : f \in [texts -> Seq(Messages)]

ASSUME ChatAssumption ==
  /\ NodeBits \in Nat \ {0} /\ IntBits \in Nat /\ IntBits >= NodeBits
  /\ Ids \subseteq 0..(2^NodeBits - 1)
  /\ MaxKept \in Nat \ {0}
  /\ ~IsFile(None) /\ None \notin Chats

\* Mutant: a text is only read back if it fits a signed number.
ParsedSigned(t) == {n \in 0..(2^(NodeBits - 1) - 1) : t = n}

\* ParseUint(text, 10, 32): the node numbers a text can be read back as.
Parsed(t) == {n \in 0..(2^NodeBits - 1) : t = n}

\* Save's file: only identities that have messages are in the map.
Saved(p) ==
  LET ids == {n \in Ids : p[n] # <<>>}
  IN [t \in {Text(n) : n \in ids} |-> p[CHOOSE n \in ids : Text(n) = t]]

\* Mutant: messages only waiting for an acknowledgement are left alone.
FailQueued(l) ==
  [i \in 1..Len(l) |->
     IF l[i].dir = "out" /\ l[i].status = "queued"
     THEN [l[i] EXCEPT !.status = "failed"] ELSE l[i]]

\* failUnacked: a restart lost the retries of what was on its way.
FailUnacked(l) ==
  [i \in 1..Len(l) |->
     IF l[i].dir = "out" /\ l[i].status \in {"queued", "sent"}
     THEN [l[i] EXCEPT !.status = "failed"] ELSE l[i]]

\* The ids a file has chats of; texts that do not parse are skipped.
Readable(f) ==
  IF f = None THEN {} ELSE {n \in Ids : \E t \in DOMAIN f : n \in Parsed(t)}

\* Mutant: what the file holds replaces all that is there.
LoadedOnly(p, f) ==
  [n \in Ids |->
     IF n \in Readable(f)
     THEN FailUnacked(f[CHOOSE t \in DOMAIN f : n \in Parsed(t)]) ELSE <<>>]

\* Load: the identities of the file get the chats of the file, whatever was
\* added before; the others keep what they have.
Loaded(p, f) ==
  [n \in Ids |->
     IF n \in Readable(f)
     THEN FailUnacked(f[CHOOSE t \in DOMAIN f : n \in Parsed(t)]) ELSE p[n]]

-----------------------------------------------------------------------------
FlagsOK == dirty \in BOOLEAN /\ stale \in BOOLEAN
TypeOK ==
  /\ up \in Stages
  /\ per \in Chats
  /\ \A n \in Ids : Len(per[n]) <= MaxKept
  /\ FlagsOK
  /\ fresh \subseteq MsgIds
  /\ kept \in Chats \cup {None}
  /\ file = None \/ IsFile(file)
  /\ writing = None \/ IsFile(writing)
  /\ up = "down" => per = NoChats /\ writing = None

Init ==
  /\ up = "down" /\ per = NoChats /\ dirty = FALSE
  /\ writing = None /\ file = None
  /\ fresh = {} /\ stale = FALSE /\ kept = None
  /\ adds = 0 /\ starts = 0 /\ fails = 0

\* The process starts; the web server and the client API are up first ...
Start ==
  /\ up = "down" /\ starts < MaxStarts
  /\ up' = "starting"
  /\ fresh' = {}
  /\ starts' = starts + 1
  /\ UNCHANGED <<per, dirty, writing, file, stale, kept, adds, fails>>

\* ... then Run loads the file and starts the loops.
Load ==
  /\ up = "starting"
  /\ up' = "up"
  /\ per' = Loaded(per, file)
  /\ kept' = None
  /\ UNCHANGED <<dirty, writing, file, fresh, stale, adds, starts, fails>>

\* Mutant: a full chat keeps its oldest messages and one more.
AddedUntrimmed(l, m) == IF Len(l) > MaxKept THEN l ELSE Append(l, m)

\* Add: the newest MaxKept messages of an identity are kept.
Added(l, m) ==
  LET all == Append(l, m)
  IN IF Len(all) > MaxKept
     THEN SubSeq(all, Len(all) - MaxKept + 1, Len(all)) ELSE all

\* A text is sent (Send) or comes in (storeIncomingText).
Add(n, m) ==
  /\ up # "down" /\ adds < MaxAdds
  /\ adds' = adds + 1
  /\ per' = [per EXCEPT ![n] = Added(@, m)]
  /\ dirty' = TRUE
  /\ fresh' = IF m.dir = "out" THEN fresh \cup {m.id} ELSE fresh
  /\ UNCHANGED <<up, writing, file, stale, kept, starts, fails>>

\* Mutant: a status change does not mark the store for saving.
SetStatusUnmarked(n, id, s) ==
  /\ up # "down" /\ (s = "sent" => id \in fresh)
  /\ \E i \in 1..Len(per[n]) :
       /\ per[n][i].id = id /\ per[n][i].dir = "out" /\ per[n][i].status # "acked"
       /\ per' = [per EXCEPT ![n][i].status = s]
  /\ UNCHANGED <<up, dirty, writing, file, histVars>>

\* SetStatus: the last outgoing message with that id; never off "acked".
\* (Only what this process put on air is reported sent.)
SetStatus(n, id, s) ==
  /\ up # "down" /\ (s = "sent" => id \in fresh)
  /\ \E i \in 1..Len(per[n]) :
       /\ per[n][i].id = id /\ per[n][i].dir = "out"
       /\ \A j \in (i + 1)..Len(per[n]) : ~(per[n][j].id = id /\ per[n][j].dir = "out")
       /\ per[n][i].status = "acked" => s = "acked"
       /\ per' = [per EXCEPT ![n][i].status = s]
  /\ dirty' = TRUE
  /\ UNCHANGED <<up, writing, file, histVars>>

\* Save, under s.mu: what to write is copied and the store counts as clean.
BeginSave ==
  /\ up = "up" /\ writing = None /\ dirty
  /\ writing' = Saved(per)
  /\ dirty' = FALSE
  /\ UNCHANGED <<up, per, file, histVars>>

\* writeJSONAtomic renames a complete temporary file over the old one ...
Written ==
  /\ writing # None
  /\ file' = writing /\ writing' = None
  /\ stale' = FALSE
  /\ UNCHANGED <<up, per, dirty, fresh, kept, adds, starts, fails>>

\* ... or fails and leaves the old one.
WriteFails ==
  /\ writing # None /\ fails < MaxFails
  /\ writing' = None
  /\ stale' = TRUE
  /\ fails' = fails + 1
  /\ UNCHANGED <<up, per, dirty, file, fresh, kept, adds, starts>>

\* The context ends: the loops return once a save in progress is done.
Stop ==
  /\ up = "up" /\ writing = None
  /\ up' = "stopping"
  /\ UNCHANGED <<per, dirty, writing, file, histVars>>

\* Run's last save, skipped when the store is clean.
LastSave(ok) ==
  /\ up = "stopping"
  /\ up' = "saved"
  /\ ok \/ (dirty /\ fails < MaxFails)
  /\ file' = IF dirty /\ ok THEN Saved(per) ELSE file
  /\ stale' = IF dirty THEN ~ok ELSE stale
  /\ fails' = IF ok THEN fails ELSE fails + 1
  /\ dirty' = FALSE
  /\ UNCHANGED <<per, writing, fresh, kept, adds, starts>>

\* The process exits: a clean stop if every change has been written.
Exit ==
  /\ up = "saved"
  /\ up' = "down" /\ per' = NoChats /\ dirty' = FALSE
  /\ kept' = IF stale \/ dirty THEN None ELSE [n \in Ids |-> FailUnacked(per[n])]
  /\ UNCHANGED <<writing, file, fresh, stale, adds, starts, fails>>

\* The process dies.
Crash ==
  /\ up # "down"
  /\ up' = "down" /\ per' = NoChats /\ dirty' = FALSE /\ writing' = None
  /\ kept' = None
  /\ UNCHANGED <<file, fresh, stale, adds, starts, fails>>

NewMessages ==
  {m \in Messages : m.id \notin fresh /\
     m.status = IF m.dir = "out" THEN "queued" ELSE "received"}

Next ==
  \/ Start \/ Load
  \/ \E n \in Ids : \E m \in NewMessages : Add(n, m)
  \/ \E n \in Ids, id \in MsgIds, s \in {"sent", "acked", "failed"} : SetStatus(n, id, s)
  \/ BeginSave \/ Written \/ WriteFails
  \/ Stop \/ (\E ok \in BOOLEAN : LastSave(ok)) \/ Exit \/ Crash

Spec == Init /\ [][Next]_vars

-----------------------------------------------------------------------------
(* Properties.                                                             *)

\* Nothing waits for an answer that cannot come: an outgoing message that is
\* "queued" or "sent" was sent by this process, not by one before it.
PendingIsFresh ==
  up # "down" => \A n \in Ids : \A i \in 1..Len(per[n]) :
    per[n][i].dir = "out" /\ per[n][i].status \in {"queued", "sent"}
      => per[n][i].id \in fresh

\* A clean store has been saved: unless a write failed, a store that counts
\* as clean and has no save under way would come back from its file as it is.
CleanMeansSaved ==
  up \in {"up", "stopping", "saved"} /\ ~dirty /\ writing = None /\ ~stale =>
    \A n \in Ids : Loaded(NoChats, file)[n] = FailUnacked(per[n])

\* "Load restores messages saved by Save": after a clean stop every identity
\* that had chats has them again, with what was on its way marked failed.
CleanRestartKeepsChats ==
  [][up = "starting" /\ up' = "up" /\ kept # None =>
       \A n \in Ids : kept[n] # <<>> => per'[n] = kept[n]]_vars

\* Save and Load as snapshots: the store with its file, as a restart would show it, is the
\* store of module SavedChats.  What is saved, written, renamed and read back is always all
\* chats of one moment, whatever changes meanwhile and wherever the process dies.
Stage == IF up \in {"stopping", "saved"} THEN "up" ELSE up
Shown == [n \in Ids |-> FailUnacked(per[n])]
OnItsWay == IF writing = None THEN None ELSE Loaded(NoChats, writing)
OnDisk == Loaded(NoChats, file)
Snapshots == INSTANCE SavedChats WITH stage <- Stage, live <- Shown, snap <- OnItsWay, disk <- OnDisk
SavesAreWhole == Snapshots!Spec
=============================================================================
