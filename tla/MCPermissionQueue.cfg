SPECIFICATION Spec
CONSTANTS
  Calls = {c1, c2, c3, c4}
  Paths = {p1, p2}
  Commands = {d1}
  Nobody = Nobody
  Nothing = Nothing
SYMMETRY Symmetry
INVARIANTS
  Served
  AnswersTheirs
  WaitPublished
CHECK_DEADLOCK FALSE
