\* The corpus is indexed again between a failed run and its repetition.
SPECIFICATION Spec
CONSTANTS
  Runs = {a, b}
  Examples = {e1}
  Scopes = {s1}
  MaxConcurrency = 1
  MaxAttempts = 1
  MaxIndex = 1
  JobConcurrency = 1
  Missing = Missing
  Empty = Empty
  Torn = Torn
  None = None
CHECK_DEADLOCK FALSE
INVARIANTS
  ReportsOneIndex
