SPECIFICATION FairSpec
CONSTANTS
  n1 = n1
  n2 = n2
  s1 = s1
  s2 = s2
  s3 = s3
  NoNode = NoNode
  Nodes <- OneNode
  Ids <- TwoIds
  Cpu <- MCCpu
  Mem <- MCMem
  Timeout <- MCTimeout
  AutoPause <- MCAutoPause
  CpuCap <- MCCpuCap
  MemCap <- MCMemCap
  Clients <- OneNode
  Cached = {}
  SdkNodes = {}
  Mortal <- MCMortal
  MaxClock = 2
  MaxLost = 1
PROPERTIES ExpiredIsRetired LockIsReleased
