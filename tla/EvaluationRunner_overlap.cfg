\* Three evaluation jobs, two at a time, run into one output directory.
SPECIFICATION FairSpec
CONSTANTS
  Runs = {a, b, c}
  Examples = {e1}
  Scopes = {s1}
  MaxConcurrency = 1
  MaxAttempts = 2
  MaxIndex = 0
  JobConcurrency = 2
  Missing = Missing
  Empty = Empty
  Torn = Torn
  None = None
CHECK_DEADLOCK FALSE
INVARIANTS
  TornIsNeverEvaluated
PROPERTIES
  RunsEnd
