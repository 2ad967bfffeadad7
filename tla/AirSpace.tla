------------------------------ MODULE AirSpace ------------------------------
(***************************************************************************)
(* What a site promises its radios (the package comment of internal/site): *)
(* radios whose channels overlap in frequency never have the turn to       *)
(* transmit at the same time; any others may.                              *)
(***************************************************************************)
EXTENDS Integers

CONSTANTS
  Hosts,   \* the site's radios, one mesh.Host each
  Spans,   \* channels in use: records [lo, hi], a range of frequencies
  None     \* no turn

\* Two channels share a frequency (span.overlaps).
Overlap(a, b) == a.lo < b.hi /\ b.lo < a.hi

VARIABLE turn   \* turn[h]: the channel h has the turn for, or None

Init == turn = [h \in Hosts |-> None]

\* h gets the turn for channel sp.
KeyUp(h, sp) ==
  /\ turn[h] = None
  /\ \A o \in Hosts \ {h} : turn[o] # None => ~Overlap(sp, turn[o])
  /\ turn' = [turn EXCEPT ![h] = sp]

KeyDown(h) ==
  /\ turn[h] # None
  /\ turn' = [turn EXCEPT ![h] = None]

Next == \E h \in Hosts : KeyDown(h) \/ \E sp \in Spans : KeyUp(h, sp)

Spec == Init /\ [][Next]_turn
=============================================================================
