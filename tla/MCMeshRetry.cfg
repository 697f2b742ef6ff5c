SPECIFICATION Spec
CONSTANTS
  w1 = w1
  w2 = w2
  r1 = r1
  contract = contract
  api = api
  NoPlan = NoPlan
  NoAssessment = NoAssessment
  NoWorker = NoWorker
  NoJob = NoJob
  NoRun = NoRun
  Free = Free
  Orphan = Orphan
  Workers = {w1, w2}
  Requests = {r1}
  Sweepers = {w1}
  TestIds <- OneTest
  Registry <- OneTestRegistry
  Mandatory <- OneTest
  ContractTest = contract
  Assessments <- MCAssessments
  Budget <- MCBudget
  MaxAttempt = 1
  KindsOfFault = 1
  Candidates = {FALSE}
  JobAttempts = 2
  Crashes = 1
  ApiCrashes = 1
  LockLosses = 0
  Leases = 0
  CallFailures = 0
  Enqueues = 1
  RedisLosses = 0
INVARIANTS
  MeshTypeOK
  AnalyzingIsCarriedOn
PROPERTIES
  NeededJobIsKept
CHECK_DEADLOCK FALSE
