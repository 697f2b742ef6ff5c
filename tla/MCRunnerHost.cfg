SPECIFICATION Spec
CONSTANTS
  Interval = 1
  WriteTime = 2
  Misses = 1
  CheckTime = 1
  Skew = 1
  Ttl = 8
  MaxAge = 10
  MaxBacklog = 1
INVARIANTS
  AliveIsFresh
  QuietAfterClose
PROPERTIES
  DeadIsReported
