------------------------------ MODULE MCLinks ------------------------------
(* Three connections to one broker: a takes and publishes, b publishes and *)
(* c takes.  Traffic may pass between a and b, c's stays where it came     *)
(* from.  p is a neighbour's packet, q and x are our own.                  *)
EXTENDS Links

CONSTANTS a, b, c, p, q, x, d1

MCDest == [l \in Conns |-> d1]
MCRelayHops == [l \in Conns |-> 0]
=============================================================================
