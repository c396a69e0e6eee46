\* Each of the three databases.
SPECIFICATION Spec
CONSTANTS
  s1 = s1
  s2 = s2
  t1 = t1
  t2 = t2
  c1 = c1
  c2 = c2
  Sandboxes <- MCSandboxes
  Templates <- MCTemplates
  Aliases <- MCAliases
  Calls <- MCCalls
  MaxFaults = 1
  MaxRequests = 6
SYMMETRY Symmetry
INVARIANTS
  TypeOK
  SpawnsCounted
  AnswersHold
PROPERTIES
  RowsLiveOnce
\* Every identifier may have been used.
CHECK_DEADLOCK FALSE
