---------------------------- MODULE MCChatStore ----------------------------
(* Two identities, one of them with a node number in the upper half of the  *)
(* range (as half of all node numbers are), node numbers of three bits.     *)
EXTENDS ChatStore

LowNode == 1
HighNode == 5
MCIds == {LowNode, HighNode}
=============================================================================
