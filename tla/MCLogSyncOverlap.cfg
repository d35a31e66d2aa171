SPECIFICATION Spec
CONSTANTS
  MaxChats = 3
  MaxTail = 1
  Overlap = TRUE
INVARIANTS
  RunsOnMirror
  NoTrace
  CancelReaches
CHECK_DEADLOCK FALSE
