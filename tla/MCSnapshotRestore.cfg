SPECIFICATION Spec
CONSTANTS
  f = f
  e = e
  only = only
  v1 = v1
  v2 = v2
  Files <- SomeFiles
  Gitignore = Gitignore
  RuleFiles <- SomeRules
  Excluded <- SomeExcluded
  Versions <- SomeVersions
  Absent = Absent
  None = None
  MaxUndos = 2
  MaxEdits = 2
  MaxSends = 2
  MaxRestores = 3
  Allowed <- OneDisturbance
SYMMETRY Symmetry
PROPERTIES
  NothingDestroyed
  RestoresExactly
CHECK_DEADLOCK FALSE
