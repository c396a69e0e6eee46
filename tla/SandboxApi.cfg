SPECIFICATION Spec
CONSTANTS
  n1 = n1
  n2 = n2
  s1 = s1
  s2 = s2
  NoNode = NoNode
  Requests = {r1, r2}
  Ids <- MCIds
  Nodes <- MCNodes
  Cpu <- MCDemand
  Mem <- MCDemand
  CpuCap <- MCCap
  MemCap <- MCCap
  AutoPause <- MCAutoPause
  SdkNodes <- MCSdkNodes
  Mortal <- MCMortal
  MaxLost = 1
  MaxRestarts = 1
SYMMETRY Symmetry
INVARIANTS TypeOK Traceable 
PROPERTIES RecordsLiveOnce
