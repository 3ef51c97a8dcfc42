\* Three chunks, at most two second hops, a merge that has to cut.  A call
\* that is done takes no step.
SPECIFICATION FairSpec
CONSTANTS
  RrfK = 60
  Payloads <- MCPayloads
  DenseAnswers <- MCDenseAnswers
  SparseAnswers <- MCSparseAnswers
  RerankAnswers <- MCRerankAnswers
  Refs <- MCRefs
  HybridTopK = 2
  FinalTopN = 2
  MaxMerged = 3
  MaxSecondHops = 2
  MaxAttempts = 3
CHECK_DEADLOCK FALSE
INVARIANTS
  NoOrphanBranch
  FusionRespectsDominance
  ContextIsFaithful
PROPERTY
  SearchEnds
