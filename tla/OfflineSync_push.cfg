SPECIFICATION PushSpec
CONSTANTS
  Worker = {w1}
  Lamport = {1}
  MaxBatch = 2
  MaxBackoff = 3
  Width = 5
  MaxRows = 2
  MaxRetries = 1
  Handler = {h1}
  MaxPosted = 2
  MaxTable = 2
CHECK_DEADLOCK FALSE
INVARIANT SyncedWasStored
