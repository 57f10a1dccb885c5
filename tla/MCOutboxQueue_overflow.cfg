SPECIFICATION Spec
CONSTANTS
  Worker = {w1}
  Lamport = {1, 2}
  MaxBatch = 2
  MaxBackoff = 5
  Width = 5
  MaxRows = 1
  MaxRetries = 5
CHECK_DEADLOCK FALSE
PROPERTY BackoffNeverShrinks
