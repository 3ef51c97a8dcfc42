\* Two runs after one another over two examples and two fingerprints, each
\* step of either open to a cancellation, whose writing threads go on, or a
\* crash.  When all runs are over nothing is left
\* to do.
SPECIFICATION Spec
CONSTANTS
  Runs = {a, b}
  Examples = {e1, e2}
  Scopes = {s1, s2}
  MaxConcurrency = 1
  MaxAttempts = 2
  MaxIndex = 1
  JobConcurrency = 1
  Missing = Missing
  Empty = Empty
  Torn = Torn
  None = None
SYMMETRY RunExampleSymmetry
CHECK_DEADLOCK FALSE
INVARIANTS
  TornOnlyIfShared
  SuccessIsDurable
  ReportsOneScope
PROPERTIES
  NeverReproduced
