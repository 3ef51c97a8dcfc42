\* Every list of up to three of five results, a budget that cuts some of
\* them, one repair.  A question that is answered takes no step.
SPECIFICATION Spec
CONSTANTS
  Chunks = {1, 2, 3, 4, 5}
  ChunkTexts = {"a", "b", "c", "d"}
  Retrieved <- MCRetrieved
  Similar <- MCSimilar
  MaxContextTokens = 11
  MinTruncated = 2
  MaxRepairAttempts = 1
  RequireCitations = TRUE
  MaxAttempts = 2
  Invented = Invented
  Unparsable = Unparsable
  None = None
CHECK_DEADLOCK FALSE
INVARIANTS
  ContextIsExact
  AnswerIsGrounded
