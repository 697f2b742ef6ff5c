SPECIFICATION Spec
CONSTANTS
  Effects = 2
  MaxSeeds = 2
INVARIANTS
  PricingHasVersions
CHECK_DEADLOCK FALSE
