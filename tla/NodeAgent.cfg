\* Each of the three runtimes, with two sandboxes and two calls at a time.
SPECIFICATION FairSpec
CONSTANTS
  s1 = s1
  s2 = s2
  c1 = c1
  c2 = c2
  Ids <- MCIds
  Calls <- MCCalls
  MaxPorts = 2
  MaxFaults <- MCMaxFaults
INVARIANTS
  TypeOK
  NeverMisrouted
  PortsComeFree
  StatusIsTrue
  NothingRunsUnseen
  NamesMatch
  BootsFromItsDisk
PROPERTIES
  CallsReturn
\* Two calls of the SDK runtime can wait for each other and for ever.
CHECK_DEADLOCK FALSE
