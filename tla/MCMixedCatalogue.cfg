SPECIFICATION Spec
CONSTANTS
  Effects = 2
  MaxSeeds = 2
INVARIANTS
  DependenciesBelongToo
CHECK_DEADLOCK FALSE
