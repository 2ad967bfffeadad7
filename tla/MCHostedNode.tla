---------------------------- MODULE MCHostedNode ----------------------------
EXTENDS HostedNode
CONSTANT pm
=============================================================================
