\* A window of five half seconds, so that truncation to seconds matters.
\* The clock stops at MaxTime.
SPECIFICATION LimiterSpec
CONSTANTS
  MaxRequests = 2
  Window = 5
  PerSecond = 2
  MaxTime = 11
CHECK_DEADLOCK FALSE
INVARIANTS
  BurstIsBounded
PROPERTIES
  RetryAfterIsConservative
