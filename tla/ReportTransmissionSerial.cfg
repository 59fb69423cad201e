\* One client, a cache that keeps what it is told, and no lost answer.
CONSTANTS
  Reports = {r1}
  Drafters = {d1}
  Transmitters = {t1}
  DedupCache = "kept"
  RepliesLost = FALSE
  SqsConfigured = FALSE
  MayRestart = FALSE
  MaxReceived = 2
SPECIFICATION Spec
INVARIANTS
  SentOnce
