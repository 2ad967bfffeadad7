------------------------------ MODULE MCHostTx ------------------------------
(* A small host: node n1 has a text t1 that it transmits up to twice        *)
(* (Meshtastic's retries) and a beacon b1 that can wait, the relay persona  *)
(* n2 relays a packet r1.                                                   *)
EXTENDS HostTx, TLC

CONSTANTS n1, n2, t1, b1, r1

MCPrio == [k \in Packets |-> IF k = t1 THEN 1 ELSE 0]
MCOrigin == [k \in Packets |-> IF k = r1 THEN n2 ELSE n1]
MCMs == [k \in Packets |-> IF k = r1 THEN 2 ELSE 1]
MCOnce == [k \in Packets |-> 1]
MCTwice == [k \in Packets |-> IF k = t1 THEN 2 ELSE 1]
=============================================================================
