CONSTANTS
  p1 = p1
  k1 = k1
  self = self
  nopeer = nopeer
  nokey = nokey
  Peers <- MCPeers
  Keys <- MCKeys
  Self <- self
  NoPeer <- nopeer
  NoKey <- nokey
  Capacity = 1
  MaxRequestId = 0
  MaxPrograms = 2
  MaxUser = 0
  MaxNet = 2
  WakersModelled = TRUE

SPECIFICATION FairSpec
PROPERTY NextProgramHandedOver
CHECK_DEADLOCK FALSE
