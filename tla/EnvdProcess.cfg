\* One process with its two streams and two callers who follow it.
SPECIFICATION FairSpec
CONSTANTS
  p1 = p1
  c1 = c1
  c2 = c2
  stdout = stdout
  stderr = stderr
  NoProcess = NoProcess
  Starts <- MCStarts
  Connectors <- MCConnectors
  Streams <- MCStreams
  MaxChunks = 2
INVARIANTS
  TypeOK
  ListedIsServed
  EndMeansEnd
  OutputArrives
PROPERTIES
  EventsInOrder
  FollowersAreTold
  AbandonedIsCleared
\* The service stops when every caller has been answered or has left.
CHECK_DEADLOCK FALSE
