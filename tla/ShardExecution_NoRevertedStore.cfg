CONSTANTS
  Vids = {v1, v2, v3}
  v1 = v1
  v2 = v2
  v3 = v3
  Bytes = {0, 1, 2, 3}
  ShardLen = 1
  None = none
  none = none
  MaxStores = 1
  WritesCapacity = 1
  Programs <- MCPrograms
SPECIFICATION Spec
INVARIANT NoRevertedStore
CHECK_DEADLOCK FALSE
