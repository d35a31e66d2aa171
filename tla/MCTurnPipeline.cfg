SPECIFICATION Spec
CONSTANTS
  MaxRebuilds = 1
  MaxQueued = 2
  MaxTurns = 2
  MaxEnqueues = 2
  MaxAsides = 1
  Allowed <- AllDisturbances
  MaxUpsets = 1
INVARIANTS
  OneAtATime
  NoAmnesia
  Stoppable
  NotKilled
  QueueKept
PROPERTIES
  StopHolds
  StopSettles
CHECK_DEADLOCK FALSE
