SPECIFICATION FairSpec
CONSTANTS
  contract = contract
  api = api
  browser = browser
  foreign = foreign
  NoPlan = NoPlan
  Malformed = Malformed
  Refusal = Refusal
  Failed = Failed
  TestIds <- MCTestIds
  Registry <- MCRegistry
  Mandatory <- MCMandatory
  Responses <- MCResponses
  Plans <- MCPlans
  DurableRuns <- MCDurableRuns
  MaxNamed = 2
  MaxResults = 3
INVARIANTS
  PlannerOnlyAdds
  VerdictIsJustified
  AssessmentIsGrounded
  AssessmentIsShown
PROPERTY
  RequestsEnd
CHECK_DEADLOCK FALSE
