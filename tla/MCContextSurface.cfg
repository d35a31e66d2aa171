SPECIFICATION Spec
CONSTANTS
  c1 = c1
  c2 = c2
  c3 = c3
  Checkpoints <- MCCheckpoints
  NoCompaction = NoCompaction
  Allowed <- MCAllowed
  MaxUpsets = 2
  MaxMsgs = 3
  MaxJobs = 2
SYMMETRY Symmetry
INVARIANTS
  NothingLost
  NothingRevived
  CacheNotBehind
  AdoptedCommitted
  FailedNotServed
CHECK_DEADLOCK FALSE
