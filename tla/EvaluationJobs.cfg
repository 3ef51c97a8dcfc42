\* Two workers, a queue of two, a restart, and executors of every behaviour.
SPECIFICATION FairSpec
CONSTANTS
  Workers = {w1, w2}
  MaxQueueSize = 2
  MaxJobs = 4
  MaxStarts = 2
  ExecutorFaults = {"self_cancel", "cleanup_error"}
  NoJob = NoJob
INVARIANTS
  QueueHoldsQueued
  ExclusiveExecution
  MetricsAgree
PROPERTIES
  QueuedJobsSettle
  StopCompletes
  InterruptedOnlyByCancel
  ImplementsJobBoard
