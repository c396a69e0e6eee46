SPECIFICATION Spec
CONSTANTS
  base = base
  b1 = b1
  Builds <- MCBuilds
  Base = base
  Endless <- MCEndless
  Starters = {r1, r2}
  Workers = {w1, w2}
  QueueCap = 1
  MaxDeleted = 1
  Fallible <- MCFallible
  MaxRestarts = 1
CHECK_DEADLOCK FALSE
INVARIANT ServerComesBack
