SPECIFICATION FairSpec
CONSTANTS
  TestIds <- MCTests
  Registry <- MCRegistry
  Mandatory <- MCTests
  NoPlan = NoPlan
  ContractTest = "contract-pricing"
  ApiTest = "api-pricing"
  BrowserTest = "browser-checkout"
  Versions = {"v1", "v2", "v21"}
  Strays <- MCStrays
  Tries = 3
  MaxFaults = 2
INVARIANTS
  ChecksAgree
  ResultsAreOutcomes
  ScreenshotShowsVerdict
  FilesFollowRows
PROPERTIES
  ChecksEnd
