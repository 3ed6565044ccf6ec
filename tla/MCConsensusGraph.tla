------------------------- MODULE MCConsensusGraph --------------------------
(* Two peers, one or two transactions, two events per peer after        *)
(* genesis and two syncs in flight: enough for a sync to be overtaken by   *)
(* a newer one from the same sender and for a buffer to be carried by a    *)
(* standalone event and then by an apply_sync event.                      *)
EXTENDS ConsensusGraph

CONSTANTS p1, p2, t1, t2

MCPeers == {p1, p2}
MCTxs == {t1, t2}
=============================================================================
