SPECIFICATION CancelSpec
CONSTANTS
  MaxChats = 2
  MaxTail = 2
  Overlap = FALSE
INVARIANTS
  NoneStranded
PROPERTIES
  Transactions
  CancelSettles
  ChatSettles
CHECK_DEADLOCK FALSE
