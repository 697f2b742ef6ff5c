SPECIFICATION Spec
CONSTANTS
  w1 = w1
  w2 = w2
  r1 = r1
  contract = contract
  api = api
  NoPlan = NoPlan
  NoAssessment = NoAssessment
  NoWorker = NoWorker
  NoJob = NoJob
  NoRun = NoRun
  Free = Free
  Orphan = Orphan
  Workers = {w1, w2}
  Requests = {r1}
  Sweepers = {w1}
  TestIds <- TwoTests
  Registry <- TwoTestRegistry
  Mandatory <- TwoTests
  ContractTest = contract
  Assessments <- MCAssessments
  Budget <- MCBudget
  MaxAttempt = 0
  KindsOfFault = 1
  Candidates = {TRUE, FALSE}
  JobAttempts = 2
  Crashes = 1
  ApiCrashes = 0
  LockLosses = 0
  Leases = 0
  CallFailures = 1
  Enqueues = 0
  RedisLosses = 0
INVARIANTS
  GateBackedByEvidence
  AssessmentExplainsVerdict
  OneProcessorAtATime
CHECK_DEADLOCK FALSE
