SPECIFICATION CancelSpec
CONSTANTS
  MaxChats = 2
  MaxRounds = 2
  MaxContinuations = 0
  MaxEmptyRetries = 1
  MaxCompactions = 1
  MaxIneffective = 1
  ChunkSize = 1
  Batches <- MCSessionBatches
INVARIANTS
  WireShape
  AsksForAnswer
  CompactionsBounded
PROPERTIES
  AppendOnly
  CancelSettles
  ChatSettles
CHECK_DEADLOCK FALSE
