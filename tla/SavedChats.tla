----------------------------- MODULE SavedChats -----------------------------
(***************************************************************************)
(* What a store of chats with a file promises (MessageStore in             *)
(* internal/mesh/events.go): a save takes all chats at one moment, the     *)
(* disk gets what was taken as a whole or keeps what it has, and a start   *)
(* brings back what the disk got last.  Nothing else reaches the disk, and *)
(* the end of the program loses what was not there yet, but no more.       *)
(***************************************************************************)
EXTENDS Sequences

CONSTANTS
  Ids,       \* whose chats they are
  Messages,
  None       \* no save under way

VARIABLES
  stage,  \* "down", "starting" (not restored yet) or "up"
  live,   \* live[n]: the chat of n, as a restart may show it
  snap,   \* what the save under way has taken, or None
  disk    \* the chats a start brings back

NoChats == [n \in Ids |-> <<>>]

Init == stage = "down" /\ live = NoChats /\ snap = None /\ disk = NoChats

Boot == stage = "down" /\ stage' = "starting" /\ UNCHANGED <<live, snap, disk>>

\* Chats the disk has none of stay as they are: they may have begun already.
Restore ==
  /\ stage = "starting" /\ stage' = "up"
  /\ live' = [n \in Ids |-> IF disk[n] # <<>> THEN disk[n] ELSE live[n]]
  /\ UNCHANGED <<snap, disk>>

\* Messages come, go and change in one chat at a time.
Change(n) ==
  /\ stage # "down"
  /\ live'[n] \in Seq(Messages) /\ live' = [live EXCEPT ![n] = live'[n]]
  /\ UNCHANGED <<stage, snap, disk>>

Take == stage = "up" /\ snap = None /\ snap' = live /\ UNCHANGED <<stage, live, disk>>
Put == snap # None /\ disk' = snap /\ snap' = None /\ UNCHANGED <<stage, live>>
Fail == snap # None /\ snap' = None /\ UNCHANGED <<stage, live, disk>>

\* The last save of all is taken and put in one step.
PutNow == stage = "up" /\ snap = None /\ disk' = live /\ UNCHANGED <<stage, live, snap>>

\* The program ends, in whatever way.
Die == stage # "down" /\ stage' = "down" /\ live' = NoChats /\ snap' = None /\ UNCHANGED disk

Next == Boot \/ Restore \/ Take \/ Put \/ Fail \/ PutNow \/ Die \/ \E n \in Ids : Change(n)

Spec == Init /\ [][Next]_<<stage, live, snap, disk>>
=============================================================================
