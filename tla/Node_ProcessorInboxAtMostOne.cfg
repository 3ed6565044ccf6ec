CONSTANTS
  p1 = p1
  k1 = k1
  self = self
  nopeer = nopeer
  nokey = nokey
  Peers <- MCPeers
  Keys <- MCKeys
  Self <- self
  NoPeer <- nopeer
  NoKey <- nokey
  Capacity = 2
  MaxRequestId = 2
  MaxPrograms = 2
  MaxUser = 1
  MaxNet = 1
  WakersModelled = FALSE

SPECIFICATION Spec
INVARIANT ProcessorInboxAtMostOne
