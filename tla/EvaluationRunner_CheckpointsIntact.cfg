\* Two evaluation jobs of one process run into one output directory.
SPECIFICATION Spec
CONSTANTS
  Runs = {a, b}
  Examples = {e1}
  Scopes = {s1}
  MaxConcurrency = 1
  MaxAttempts = 2
  MaxIndex = 0
  JobConcurrency = 2
  Missing = Missing
  Empty = Empty
  Torn = Torn
  None = None
CHECK_DEADLOCK FALSE
INVARIANTS
  CheckpointsIntact
