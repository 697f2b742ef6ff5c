SPECIFICATION FairSpec
CONSTANTS
  v2 = v2
  Candidates = {v2}
  MaxCalls = 3
  MaxAttempt = 1
INVARIANTS
  NoReleaseIsForgotten
  EvidenceIsOfShownAttempt
PROPERTIES
  ShownNeverGoesBack
  CallsEnd
CHECK_DEADLOCK FALSE
