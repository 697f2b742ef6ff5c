SPECIFICATION FairSpec
CONSTANTS
  w1 = w1
  w2 = w2
  r1 = r1
  contract = contract
  api = api
  NoPlan = NoPlan
  NoAssessment = NoAssessment
  NoWorker = NoWorker
  NoJob = NoJob
  NoRun = NoRun
  Free = Free
  Orphan = Orphan
  Workers = {w1}
  Requests = {r1}
  Sweepers = {w1}
  TestIds <- OneTest
  Registry <- OneTestRegistry
  Mandatory <- OneTest
  ContractTest = contract
  Assessments <- MCAssessments
  Budget <- MCBudget
  MaxAttempt = 0
  KindsOfFault = 1
  Candidates = {FALSE}
  JobAttempts = 2
  Crashes = 2
  ApiCrashes = 0
  LockLosses = 0
  Leases = 0
  CallFailures = 0
  Enqueues = 0
  RedisLosses = 0
PROPERTIES
  AnalyzingIsLeft
CHECK_DEADLOCK FALSE
