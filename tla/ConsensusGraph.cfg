CONSTANTS
  p1 = p1
  p2 = p2
  t1 = t1
  t2 = t2
  Peers <- MCPeers
  Txs <- MCTxs
  MaxSeq = 2
  MaxInFlight = 2

SPECIFICATION Spec

INVARIANT TypeOK
INVARIANT NoTxLost
INVARIANT StreamArmed

