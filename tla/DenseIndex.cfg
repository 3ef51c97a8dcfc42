\* Two clients, three operations, two versions that share a chunk; batches
\* and pages of one or two chunks, so that every loop runs more than once.
\* When all operations are over nothing is left to do.
SPECIFICATION FairSpec
CONSTANTS
  Clients = {c1, c2}
  Versions = {1, 2}
  Content <- MCContent
  Fields = {domain, document_id}
  EmbedBatch = 2
  UpsertBatch = 1
  PageSize = 1
  MaxChunk = 3
  MaxOps = 3
  None = None
CHECK_DEADLOCK FALSE
INVARIANTS
  ReadyBeforeUse
  WritesAreExact
  ScrollIsExact
PROPERTY
  OperationsEnd
