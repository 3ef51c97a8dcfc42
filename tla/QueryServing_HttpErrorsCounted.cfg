\* What metrics.py says of its counter, and the program does not do.
SPECIFICATION Spec
CONSTANTS
  Requests = {r1, r2}
  Keys = {k1}
  Concurrency = 1
  Chunks = 1
  MaxIndex = 0
  None = None
INVARIANTS
  HttpErrorsCounted
