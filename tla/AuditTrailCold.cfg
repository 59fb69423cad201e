\* Three requests at once, the first of a new process or of one asked before.
CONSTANTS
  Writers = {w1, w2}
  Readers = {q1}
SPECIFICATION Spec
INVARIANTS
  EnforcementComplete
PROPERTIES
  AppendOnly
  OpenedTrailMissesNothing
  EveryRequestServed
CHECK_DEADLOCK FALSE
