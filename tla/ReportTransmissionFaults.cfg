\* Concurrent transmissions of one report through a cache that forgets, with lost answers,
\* an SQS that may refuse, and restarts.
CONSTANTS
  Reports = {r1}
  Drafters = {d1}
  Transmitters = {t1, t2}
  DedupCache = "lossy"
  RepliesLost = TRUE
  SqsConfigured = TRUE
  MayRestart = TRUE
  MaxReceived = 2
SPECIFICATION Spec
INVARIANTS
  AnswersAreTrue
  FailuresAreKept
PROPERTIES
  ApprovalCoversContent
