\* The SDK runtime keeps the entry of a stopped sandbox, with its port.
SPECIFICATION Spec
CONSTANTS
  s1 = s1
  s2 = s2
  c1 = c1
  c2 = c2
  Ids <- MCIds
  Calls <- MCCalls
  MaxPorts = 2
  MaxFaults <- MCNoFaults
INVARIANTS
  EdgeRoutesCorrectly
CHECK_DEADLOCK FALSE
