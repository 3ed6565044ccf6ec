CONSTANTS
  n1 = n1
  n2 = n2
  d1 = d1
  d2 = d2
  d3 = d3
  none = none
  None = none
  Nodes <- MCNodes
  Main = n1
  Vids <- MCVids
  InitData <- MCInitData
  Program <- MCNot
  MaxTicks = 0
  MaxFaults = 0
SPECIFICATION Spec
PROPERTY InstructionCompletes
