\* Two requests for one question, one permit, and a corpus indexed again at
\* any moment, before, during or after a re-deployment with either identity.
SPECIFICATION FairSpec
CONSTANTS
  Requests = {r1, r2}
  Keys = {k1}
  Concurrency = 1
  Chunks = 2
  MaxIndex = 1
  None = None
INVARIANTS
  PermitsAccounted
  StreamWellFormed
  NoOrphanQuery
PROPERTIES
  AnswersMatchIdentity
  RequestsEnd
  DisconnectReleases
