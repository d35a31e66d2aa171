SPECIFICATION Spec
CONSTANTS
  MaxChats = 1
  MaxRounds = 1
  MaxContinuations = 1
  MaxEmptyRetries = 0
  MaxCompactions = 1
  MaxIneffective = 1
  ChunkSize = 2
  Batches <- MCToolBatches
INVARIANTS
  Exclusive
  OrphansSignalled
PROPERTIES
  NoStartAfterAbort
CHECK_DEADLOCK FALSE
