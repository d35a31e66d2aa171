SPECIFICATION Spec
CONSTANTS
  c1 = c1
  c2 = c2
  c3 = c3
  Checkpoints <- MCOrphanCheckpoints
  NoCompaction = NoCompaction
  Allowed <- MCOrphanAllowed
  MaxUpsets = 2
  MaxMsgs = 4
  MaxJobs = 2
SYMMETRY MCOrphanSymmetry
INVARIANTS
  OrphansExcluded
CHECK_DEADLOCK FALSE
