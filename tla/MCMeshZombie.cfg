SPECIFICATION Spec
CONSTANTS
  w1 = w1
  w2 = w2
  r1 = r1
  contract = contract
  api = api
  NoPlan = NoPlan
  NoAssessment = NoAssessment
  NoWorker = NoWorker
  NoJob = NoJob
  NoRun = NoRun
  Free = Free
  Orphan = Orphan
  Workers = {w1, w2}
  Requests = {r1}
  Sweepers = {}
  TestIds <- TwoTests
  Registry <- TwoTestRegistry
  Mandatory <- TwoTests
  ContractTest = contract
  Assessments <- MCAssessments
  Budget <- MCBudget
  MaxAttempt = 0
  KindsOfFault = 2
  Candidates = {TRUE, FALSE}
  JobAttempts = 2
  Crashes = 1
  ApiCrashes = 0
  LockLosses = 1
  Leases = 1
  CallFailures = 0
  Enqueues = 0
  RedisLosses = 1
INVARIANTS
  SafeIsCompatible
PROPERTIES
  VerdictIsFinal
CHECK_DEADLOCK FALSE
