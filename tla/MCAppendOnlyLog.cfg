SPECIFICATION Spec
CONSTANTS
  m1 = m1
  m2 = m2
  Message <- MCMessage
  MaxLen = 4
SYMMETRY Symmetry
INVARIANTS
  MemosFresh
  AnswersRight
