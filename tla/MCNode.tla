------------------------------- MODULE MCNode -------------------------------
(* One remote peer, one shard id, queues of one slot (the smallest bound  *)
(* at which a second send meets a full queue).                            *)
EXTENDS Node

CONSTANTS p1, k1, self, nopeer, nokey

MCPeers == {p1}
MCKeys  == {k1}
=============================================================================
