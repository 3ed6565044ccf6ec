CONSTANTS
  p1 = p1
  k1 = k1
  self = self
  nopeer = nopeer
  nokey = nokey
  Peers <- MCPeers
  Keys <- MCKeys
  Self <- self
  NoPeer <- nopeer
  NoKey <- nokey
  Capacity = 1
  MaxRequestId = 0
  MaxPrograms = 1
  MaxUser = 0
  MaxNet = 0
  WakersModelled = FALSE

SPECIFICATION Spec
INVARIANT ShutdownExitsClean
