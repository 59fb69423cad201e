\* The first requests of a new process.
CONSTANTS
  Writers = {w1, w2}
  Readers = {q1}
SPECIFICATION Spec
PROPERTY
  QueriesMissNothing
CHECK_DEADLOCK FALSE
