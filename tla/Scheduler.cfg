SPECIFICATION Spec
CONSTANTS
  n1 = n1
  n2 = n2
  s1 = s1
  s2 = s2
  s3 = s3
  NoNode = NoNode
  Nodes <- MCNodes
  Ids <- MCIds
  Cpu <- MCCpu
  Mem <- MCMem
  Timeout <- MCTimeout
  AutoPause <- MCAutoPause
  CpuCap <- MCCpuCap
  MemCap <- MCMemCap
  Clients <- MCNodes
  Cached = {}
  SdkNodes <- MCSdkNodes
  Mortal <- MCMortal
  MaxClock = 1
  MaxLost = 1
INVARIANTS TypeOK Accounting CapacityRespected Agreement OrphansComeFromLostCreates RoutesMatchRecords
PROPERTIES CheckerSparesTheLiving ImplementsPlacement
