SPECIFICATION FairSpec
CONSTANTS
  Releases = {r1}
  Resets = {x1, x2}
  Overlap = FALSE
  JobAttempts = 2
  Faults = {"call", "edge", "death"}
INVARIANTS
  IdleWhenReset
PROPERTIES
  QueueComesBack
  NothingLingers
CHECK_DEADLOCK FALSE
