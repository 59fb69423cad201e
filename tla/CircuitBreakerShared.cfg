\* Three users of one breaker: two failures open it, two successes close it.
CONSTANTS
  Calls = {a, b, c}
  FailureThreshold = 2
  RecoveryTimeout = 2
  HalfOpenMaxCalls = 2
  MaxRetries = 1
  OneShot = FALSE
  MaxFailures = 5
SPECIFICATION Spec
INVARIANTS
  CountersBelowLimits
PROPERTIES
  OpenLeftByProbing
  OpenShieldsProvider
  RecoversWithProvider
