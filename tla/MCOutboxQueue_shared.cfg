SPECIFICATION Spec
CONSTANTS
  Worker = {w1, w2}
  Lamport = {1, 2}
  MaxBatch = 2
  MaxBackoff = 3
  Width = 3
  MaxRows = 2
  MaxRetries = 3
SYMMETRY SymWorkers
CHECK_DEADLOCK FALSE
INVARIANTS
  TypeOK
  OvertakenOnlyWhenPutOff
PROPERTIES
  ImplementsWorkQueue
  BackoffGrows
