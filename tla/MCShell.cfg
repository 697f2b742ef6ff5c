SPECIFICATION Spec
CONSTANTS
  Effects = 2
  MaxSeeds = 2
INVARIANTS
  ComponentsBelongTogether
PROPERTIES
  RemotesAreIndependent
CHECK_DEADLOCK FALSE
