\* One case of either type, an operator who may post any trigger at any time,
\* two concurrent re-verifications, and a process that may restart.
CONSTANTS
  Cases = {c1}
  Requests = {r1, r2}
  Triggers <- AllTriggers
  MayRestart = TRUE
SPECIFICATION Spec
INVARIANTS
  CompletedOnFullEvidence
  SettledHasVerdict
  ScoreMatchesChecks
PROPERTIES
  EveryCaseSettles
  ImplementsLifecycle
