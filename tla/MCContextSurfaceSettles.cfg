SPECIFICATION Spec
CONSTANTS
  c1 = c1
  c2 = c2
  c3 = c3
  Checkpoints <- MCCheckpoints
  NoCompaction = NoCompaction
  Allowed <- MCAllowed
  MaxUpsets = 1
  MaxMsgs = 3
  MaxJobs = 2
PROPERTIES
  CommitSettles
  TurnStarts
CHECK_DEADLOCK FALSE
