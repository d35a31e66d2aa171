SPECIFICATION TimerSpec
CONSTANTS
  MaxTurns = 2
  Activity = {a1, a2, a3}
INVARIANTS
  NoPhantoms
  AloneNeverHarmed
PROPERTIES
  HungTurnEnds
