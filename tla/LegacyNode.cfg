CONSTANTS
  n1 = n1
  n2 = n2
  d1 = d1
  d2 = d2
  d3 = d3
  none = none
  None = none
  Nodes <- MCNodes
  Main = n1
  Vids <- MCNotVids
  InitData <- MCOneDatum
  Program <- MCNot
  MaxTicks = 1
  MaxFaults = 1
SPECIFICATION Spec
INVARIANT TypeOK
PROPERTY DistributionCompletes
