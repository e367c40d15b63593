---------------------------- MODULE MC_AppSyncer ----------------------------
(* Instantiation of AppSyncer for TLC: two remote peers and this node.    *)
EXTENDS AppSyncer

CONSTANTS p1, p2, self

MCPeers == {p1, p2}
=============================================================================
