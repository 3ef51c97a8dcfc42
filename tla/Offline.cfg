SPECIFICATION MCSpec
CONSTANTS
  Layout <- MCLayout
  Scenarios <- MCScenarios
  Plans <- MCPlans
CHECK_DEADLOCK FALSE
INVARIANTS
  ManifestsAreScanned
  ValidatedIsTrue
  RemovalsJustified
  NothingIsLost
  ChunksAreSound
  AnswersAreExact
  SummaryIsFaithful
  EvidenceAgrees
  GateIsSound
