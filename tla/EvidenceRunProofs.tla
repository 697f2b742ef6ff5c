-------------------------- MODULE EvidenceRunProofs --------------------------
(***************************************************************************)
(* What the contract diff decides, for any two contracts; and, for any     *)
(* number of tries and faults and any documents Pricing may answer, that   *)
(* the checks agree, that the screenshot shows what the browser check      *)
(* says, and that rows and files of the artifact store belong together.    *)
(***************************************************************************)
EXTENDS EvidenceRun, TLAPS

-----------------------------------------------------------------------------
\* A candidate is compatible exactly if whatever serves it serves what is
\* expected: a rename never is, however close the meaning (contract-diff.ts:22-65).
THEOREM CompatibleIsSubtyping ==
  ASSUME NEW expected, NEW actual
  PROVE  Compatible(expected, actual)
           <=> \A document : Serves(document, actual) => Serves(document, expected)
<1>1. ASSUME Compatible(expected, actual), NEW document, Serves(document, actual)
      PROVE  Serves(document, expected)
  BY <1>1 DEF Compatible, MissingFields, TypeMismatches, Serves
<1>2. ASSUME \A document : Serves(document, actual) => Serves(document, expected)
      PROVE  Compatible(expected, actual)
  <2>1. Serves(ResponseOf(actual), actual)
    BY DEF Serves, ResponseOf
  <2>2. Serves(ResponseOf(actual), expected)
    BY <1>2, <2>1
  <2> QED
    BY <2>2 DEF Serves, ResponseOf, Compatible, MissingFields, TypeMismatches
<1> QED
  BY <1>1, <1>2

LEMMA CompatibleIsServed ==
  ASSUME NEW expected, NEW actual
  PROVE  Compatible(expected, actual) <=> Serves(ResponseOf(actual), expected)
BY DEF Serves, ResponseOf, Compatible, MissingFields, TypeMismatches

\* The API check and the Checkout page miss nothing exactly in a document that
\* serves v1.
LEMMA NothingMissing ==
  ASSUME NEW document
  PROVE  MissingInPayload(document) = {} <=> Serves(document, Expected)
BY DEF MissingInPayload, Serves

-----------------------------------------------------------------------------
Served == Serves(CandidateDocument, Expected)

IsOutcome(result) == result \in CheckOutcomes(result.id, ContractTest, ~Served)

\* How many results there are at each step.
Progress ==
  /\ step = "contract" => Len(results) = 0
  /\ step \in ApiSteps => Len(results) = 1
  /\ step \in BrowserSteps => Len(results) = 2
  /\ ChecksAreOver => Len(results) = 3
  /\ Len(results) <= 3

Verdicts ==
  \A i \in DOMAIN results :
    /\ results[i].id = Registry[i]
    /\ IsOutcome(results[i])
    /\ answers \subseteq {"own"} => (results[i].status = "PASSED" <=> Served)

\* What the page shows, and what the browser check has seen of it.
Page ==
  answers \subseteq {"own"} =>
    (page = "ready" => Served) /\ (page = "alert" => ~Served)

Reading ==
  /\ step = "ready" => (seen.alert => page = "alert")
  /\ step \in {"screenshot", "closeDone"} =>
       page \in {"ready", "alert"} /\ (seen.alert <=> page = "alert")
  /\ step = "closeDone" => shot = page
  /\ Len(results) = 3 =>
       shot = IF results[3].status = "PASSED" THEN "ready" ELSE "alert"

ChecksInv == TypeOK /\ Progress /\ Verdicts /\ Page /\ Reading

-----------------------------------------------------------------------------
\* Ids are fresh, and a put knows what it has written and owns.
Fresh ==
  /\ \A t \in TestIds : artifact[t] <= last
  /\ \A file \in files : file[1] # NoArtifact /\ file[1] <= last

Putting ==
  /\ step \in {"contract"} \cup ApiSteps \cup BrowserSteps => next = 1
  /\ step \in PersistSteps => next \in DOMAIN results
  /\ step \in {"put", "metadata", "row"} => artifact[Test] = NoArtifact
  /\ step \in {"metadata", "row"} =>
       last # NoArtifact /\ last \notin Stored /\ <<last, "content">> \in files
  /\ step = "row" => <<last, "metadata">> \in files
  /\ step = "undo" => (last \in Stored => last \in unanswered)

FilesInv == Fresh /\ Putting /\ FilesFollowRows

IInv == ChecksInv /\ FilesInv
-----------------------------------------------------------------------------
LEMMA TheTests ==
  /\ ContractTest \in TestIds /\ ApiTest \in TestIds /\ BrowserTest \in TestIds
  /\ ContractTest # BrowserTest /\ ApiTest # BrowserTest /\ ContractTest # ApiTest
  /\ Len(Registry) = 3
  /\ Registry[1] = ContractTest /\ Registry[2] = ApiTest /\ Registry[3] = BrowserTest
<1>1. /\ Len(Registry) = 3 /\ DOMAIN Registry = 1 .. 3
      /\ Registry[1] = ContractTest /\ Registry[2] = ApiTest /\ Registry[3] = BrowserTest
  BY ChecksAssumption
<1>2. Registry[1] # Registry[3] /\ Registry[2] # Registry[3] /\ Registry[1] # Registry[2]
  BY <1>1, RegistryAssumption
<1>3. \A i \in 1 .. 3 : Registry[i] \in TestIds
  BY <1>1, RegistryAssumption DEF Range
<1> QED
  BY <1>1, <1>2, <1>3

\* The result a check adds.
LEMMA AppendResult ==
  ASSUME results \in Seq(CheckResults), NEW result \in CheckResults,
         results' = Append(results, result)
  PROVE  /\ results' \in Seq(CheckResults)
         /\ Len(results') = Len(results) + 1
         /\ DOMAIN results' = 1 .. Len(results) + 1
         /\ \A i \in DOMAIN results : results'[i] = results[i]
         /\ results'[Len(results) + 1] = result
OBVIOUS

LEMMA ContractResult ==
  ASSUME ContractCheck
  PROVE  \E result \in CheckResults :
           /\ results' = Append(results, result)
           /\ result.id = ContractTest /\ IsOutcome(result)
           /\ result.status = "PASSED" <=> Served
<1> DEFINE passed == Compatible(Expected, PricingContracts[candidate])
           result == [id |-> ContractTest, status |-> IF passed THEN "PASSED" ELSE "FAILED",
                      hasArtifact |-> TRUE, incompatible |-> ~passed]
<1>1. passed <=> Served
  BY CompatibleIsServed DEF Served, CandidateDocument
<1>2. results' = Append(results, result)
  BY DEF ContractCheck, Push, Result
<1>3. (~passed) \in BOOLEAN
  BY DEF Compatible
<1>4. result \in CheckResults
  BY <1>3, TheTests DEF CheckResults, TestStatuses
<1>5. result.id = ContractTest /\ (result.status = "PASSED" <=> passed)
  OBVIOUS
<1>6. IsOutcome(result)
  <2>1. (~passed) = (~Served)
    BY <1>1 DEF Compatible, Served, Serves
  <2>2. result = Result(ContractTest, IF ~Served THEN "FAILED" ELSE "PASSED", TRUE, ~Served)
    BY <1>1, <2>1 DEF Result
  <2> HIDE DEF result
  <2> QED
    BY <1>5, <2>2 DEF IsOutcome, CheckOutcomes
<1> QED
  BY <1>1, <1>2, <1>4, <1>5, <1>6

LEMMA ApiResult ==
  ASSUME NEW document, Push(ApiTest, MissingInPayload(document) = {}, FALSE)
  PROVE  \E result \in CheckResults :
           /\ results' = Append(results, result)
           /\ result.id = ApiTest /\ IsOutcome(result)
           /\ result.status = "PASSED" <=> Serves(document, Expected)
<1> DEFINE passed == MissingInPayload(document) = {}
           result == [id |-> ApiTest, status |-> IF passed THEN "PASSED" ELSE "FAILED",
                      hasArtifact |-> TRUE, incompatible |-> FALSE]
<1>1. passed <=> Serves(document, Expected)
  BY NothingMissing
<1>2. results' = Append(results, result)
  BY DEF Push, Result
<1>3. result \in CheckResults
  BY TheTests DEF CheckResults, TestStatuses
<1>4. result.id = ApiTest /\ (result.status = "PASSED" <=> passed)
  OBVIOUS
<1>5. IsOutcome(result)
  BY <1>4, TheTests DEF IsOutcome, CheckOutcomes, Result, TestStatuses
<1> QED
  BY <1>1, <1>2, <1>3, <1>4, <1>5

LEMMA BrowserResult ==
  ASSUME Push(BrowserTest, ~seen.alert, FALSE)
  PROVE  \E result \in CheckResults :
           /\ results' = Append(results, result)
           /\ result.id = BrowserTest /\ IsOutcome(result)
           /\ result.status = "PASSED" <=> ~seen.alert
<1> DEFINE result == [id |-> BrowserTest, status |-> IF ~seen.alert THEN "PASSED" ELSE "FAILED",
                      hasArtifact |-> TRUE, incompatible |-> FALSE]
<1>1. results' = Append(results, result)
  BY DEF Push, Result
<1>2. result \in CheckResults
  BY TheTests DEF CheckResults, TestStatuses
<1>3. result.id = BrowserTest /\ (result.status = "PASSED" <=> ~seen.alert)
  OBVIOUS
<1>4. IsOutcome(result)
  BY <1>3, TheTests DEF IsOutcome, CheckOutcomes, Result, TestStatuses
<1> QED
  BY <1>1, <1>2, <1>3, <1>4

-----------------------------------------------------------------------------
\* Types
\* What the browser's steps before its close keep of the types.
LEMMA BrowserTypes ==
  ASSUME ChecksTypeOK, Launch \/ NewPage \/ Goto \/ ReadAlert \/ ReadReady \/ Screenshot
  PROVE  ChecksTypeOK'
<1>1. UNCHANGED <<candidate, apiVars, answers, results>>
  BY DEF Launch, NewPage, Goto, ReadAlert, ReadReady, Screenshot, BrowserUnchanged
<1>2. UNCHANGED seen \/ seen' = [seen EXCEPT !.alert = page = "alert"]
                    \/ seen' = [seen EXCEPT !.ready = page = "ready"]
  BY DEF Launch, NewPage, Goto, ReadAlert, ReadReady, Screenshot, browserVars
<1>3. seen' \in [alert : BOOLEAN, ready : BOOLEAN]
  BY <1>2 DEF ChecksTypeOK
<1>4. UNCHANGED browser \/ browser' = "open"
  BY DEF Launch, NewPage, Goto, ReadAlert, ReadReady, Screenshot, browserVars
<1>5. UNCHANGED page \/ page' = "loading"
  BY DEF Launch, NewPage, Goto, ReadAlert, ReadReady, Screenshot, browserVars
<1>6. UNCHANGED shot \/ shot' = page
  BY DEF Launch, NewPage, Goto, ReadAlert, ReadReady, Screenshot, browserVars
<1> QED
  BY <1>1, <1>3, <1>4, <1>5, <1>6 DEF ChecksTypeOK, apiVars

\* Where a step of the checks can lead.
LEMMA CheckLeadsTo ==
  ASSUME TypeOK, Check \/ Surroundings
  PROVE  step' \in Steps
<1>1. CASE UNCHANGED step
  BY <1>1 DEF TypeOK
<1>2. CASE ContractCheck \/ ApiCheck
  BY <1>2 DEF ContractCheck, ApiCheck, SendRequest, HeadersArrive, BodyArrives, ApiError,
     TimerFires, GoOn, Steps, ApiSteps, BrowserSteps, PersistSteps
<1>3. CASE BrowserCheck
  BY <1>3 DEF BrowserCheck, Launch, NewPage, Goto, ReadAlert, ReadReady, Screenshot, Close,
     Throws, GoOn, Steps, ApiSteps, BrowserSteps, PersistSteps
<1>4. CASE Surroundings
  BY <1>1, <1>4 DEF Surroundings, PageRenders, AbortedRequestEnds
<1> QED
  BY <1>2, <1>3, <1>4 DEF Check

LEMMA CheckTypes ==
  ASSUME TypeOK, Check \/ Surroundings, UNCHANGED <<persistVars, try, faults>>
  PROVE  TypeOK'
<1> SUFFICES ChecksTypeOK'
  BY CheckLeadsTo DEF TypeOK, persistVars
<1>a. ChecksTypeOK
  BY DEF TypeOK
<1>b. results \in Seq(CheckResults)
  BY <1>a DEF ChecksTypeOK
<1>1. CASE ContractCheck
  <2>1. results' \in Seq(CheckResults)
    BY <1>b, <1>1, ContractResult, AppendResult
  <2> QED
    BY <1>a, <1>1, <2>1 DEF ContractCheck, ChecksTypeOK, apiVars, browserVars
<1>2. CASE SendRequest
  BY <1>a, <1>2 DEF SendRequest, ApiUnchanged, ChecksTypeOK, browserVars
<1>3. CASE HeadersArrive
  BY <1>a, <1>3 DEF HeadersArrive, ApiError, ApiUnchanged, ChecksTypeOK, browserVars
<1>4. CASE BodyArrives
  <2>1. results' \in Seq(CheckResults)
    BY <1>b, <1>4, ApiResult, AppendResult DEF BodyArrives, ApiError
  <2> QED
    BY <1>a, <1>4, <2>1 DEF BodyArrives, ApiError, ApiUnchanged, Kind, ChecksTypeOK,
       browserVars
<1>5. CASE TimerFires
  BY <1>a, <1>5 DEF TimerFires, ApiUnchanged, ChecksTypeOK, browserVars
<1>6. CASE Launch \/ NewPage \/ Goto \/ ReadAlert \/ ReadReady \/ Screenshot
  BY <1>a, <1>6, BrowserTypes
<1>7. CASE Close
  <2>1. results' \in Seq(CheckResults)
    BY <1>b, <1>7, BrowserResult, AppendResult DEF Close
  <2> QED
    BY <1>a, <1>7, <2>1 DEF Close, BrowserUnchanged, ChecksTypeOK, apiVars
<1>8. CASE Surroundings
  BY <1>a, <1>8 DEF Surroundings, PageRenders, AbortedRequestEnds, Kind, ChecksTypeOK, apiVars,
     browserVars
<1> QED
  BY <1>1, <1>2, <1>3, <1>4, <1>5, <1>6, <1>7, <1>8 DEF Check, ApiCheck, BrowserCheck

\* The result being persisted is one of a trusted test.
LEMMA TestIsTrusted ==
  ASSUME TypeOK, Putting, step \in PersistSteps
  PROVE  Test \in TestIds /\ results[next].status \in TestStatuses
<1>1. next \in DOMAIN results /\ results \in Seq(CheckResults)
  BY DEF Putting, TypeOK, ChecksTypeOK
<1>2. results[next] \in CheckResults
  BY <1>1
<1> QED
  BY <1>2 DEF Test, CheckResults

\* What every step of persistEvidence leaves alone.
LEMMA PersistLeaves ==
  ASSUME PersistStep
  PROVE  Persist /\ (Fault \/ UNCHANGED faults)
BY DEF PersistStep, Start, PutRefused, WriteContent, WriteMetadata, CreateRow,
   CreateRowThrows, Undo, UndoThrows, CompleteError, Complete, RunThrows

LEMMA PersistTypes ==
  ASSUME TypeOK, Putting, PersistStep
  PROVE  TypeOK'
<1>1. ChecksTypeOK' /\ try' \in 1 .. Tries
  BY PersistLeaves DEF TypeOK, ChecksTypeOK, Persist, apiVars, browserVars
<1>2. faults' \in 0 .. MaxFaults
  BY PersistLeaves, EvidenceAssumption DEF TypeOK, Fault
<1>3. step' \in Steps
  BY DEF PersistStep, Start, PutRefused, WriteContent, WriteMetadata, CreateRow,
     CreateRowThrows, Undo, UndoThrows, CompleteError, Complete, RunThrows, GoOn, Steps,
     PersistSteps
<1>4. run' \in [TestIds -> {"none", "RUNNING", "PASSED", "FAILED", "ERROR"}]
  BY TestIsTrusted
     DEF PersistStep, Start, PutRefused, WriteContent, WriteMetadata, CreateRow,
     CreateRowThrows, Undo, UndoThrows, CompleteError, Complete, RunThrows, GoOn,
     PersistSteps, persistVars, TypeOK, TestStatuses
<1>5. artifact' \in [TestIds -> Nat] /\ last' \in Nat /\ next' \in Nat
  <2>1. last' \in {last, last + 1}
    BY DEF PersistStep, Start, PutRefused, WriteContent, WriteMetadata, CreateRow,
     CreateRowThrows, Undo, UndoThrows, CompleteError, Complete, RunThrows, persistVars
  <2>2. next' \in {next, next + 1}
    BY DEF PersistStep, Start, PutRefused, WriteContent, WriteMetadata, CreateRow,
     CreateRowThrows, Undo, UndoThrows, CompleteError, Complete, RunThrows, persistVars
  <2>3. \/ artifact' = artifact
        \/ \E i \in {last, NoArtifact} : artifact' = [artifact EXCEPT ![Test] = i]
    BY DEF PersistStep, Start, PutRefused, WriteContent, WriteMetadata, CreateRow,
     CreateRowThrows, Undo, UndoThrows, CompleteError, Complete, RunThrows, persistVars
  <2>4. artifact' \in [TestIds -> Nat]
    BY <2>3 DEF TypeOK, NoArtifact
  <2> QED
    BY <2>1, <2>2, <2>4 DEF TypeOK
<1>6. files' \subseteq Nat \X Parts
  <2>1. last' \in Nat /\ \A part : part \in Parts => <<last', part>> \in Nat \X Parts
    BY <1>5
  <2> QED
    BY <2>1 DEF PersistStep, Start, PutRefused, WriteContent, WriteMetadata, CreateRow,
     CreateRowThrows, Undo, UndoThrows, CompleteError, Complete, RunThrows, Write,
     persistVars, TypeOK, Parts
<1>7. (unanswered \cup disowned)' \subseteq Nat
  <2>1. step \in PersistSteps => artifact[Test] \in Nat
    BY TestIsTrusted DEF TypeOK
  <2> QED
    BY <2>1 DEF PersistStep, Start, PutRefused, WriteContent, WriteMetadata, CreateRow,
     CreateRowThrows, Undo, UndoThrows, CompleteError, Complete, RunThrows, GoOn,
     PersistSteps, persistVars, TypeOK
<1> QED
  BY <1>1, <1>2, <1>3, <1>4, <1>5, <1>6, <1>7 DEF TypeOK

LEMMA TryTypes ==
  ASSUME TypeOK, Prepare \/ PrepareThrows \/ Die \/ Stop
  PROVE  TypeOK'
<1> USE EvidenceAssumption
    DEF TypeOK, ChecksTypeOK, Fault, Steps, NoArtifact, apiVars, browserVars
<1>1. CASE Prepare
  BY <1>1 DEF Prepare, NothingSeen, Stored
<1>2. CASE PrepareThrows
  BY <1>2 DEF PrepareThrows, checkVars, persistVars
<1>3. CASE Die
  BY <1>3 DEF Die
<1>4. CASE Stop
  BY <1>4 DEF Stop, vars, checkVars, persistVars
<1> QED
  BY <1>1, <1>2, <1>3, <1>4

-----------------------------------------------------------------------------
\* The initial states
LEMMA InitInv == Init => IInv
<1> SUFFICES ASSUME Init PROVE IInv
  OBVIOUS
<1>1. /\ results = <<>> /\ Len(results) = 0 /\ DOMAIN results = {}
      /\ step = "contract" /\ next = 1 /\ page = "none" /\ seen = NothingSeen
      /\ files = {} /\ last = 0 /\ artifact = [t \in TestIds |-> 0]
  BY DEF Init, ChecksInit, NoArtifact
<1>2. TypeOK
  BY <1>1, EvidenceAssumption
     DEF Init, ChecksInit, TypeOK, ChecksTypeOK, Steps, NothingSeen
<1>3. Progress /\ Verdicts /\ Page /\ Reading
  BY <1>1 DEF Progress, Verdicts, Page, Reading, ApiSteps, BrowserSteps, ChecksAreOver
<1>4. FilesInv
  BY <1>1 DEF FilesInv, Fresh, Putting, FilesFollowRows, Stored, PersistSteps, NoArtifact
<1> QED
  BY <1>2, <1>3, <1>4 DEF IInv, ChecksInv

-----------------------------------------------------------------------------
\* The checks.  Answers are only ever added, and the candidate stays.
LEMMA CheckProgress ==
  ASSUME TypeOK, Progress, Check
  PROVE  Progress'
<1> USE DEF Progress, GoOn, ApiSteps, BrowserSteps, ChecksAreOver
<1>1. results \in Seq(CheckResults) /\ Len(results) \in Nat
  BY DEF TypeOK, ChecksTypeOK
<1>2. CASE ContractCheck
  <2>1. Len(results') = Len(results) + 1
    BY <1>1, <1>2, ContractResult, AppendResult
  <2> QED
    BY <1>1, <1>2, <2>1 DEF ContractCheck
<1>3. CASE SendRequest \/ HeadersArrive \/ TimerFires
  BY <1>3 DEF SendRequest, HeadersArrive, TimerFires, ApiError
<1>4. CASE BodyArrives
  <2>1. step' = "launch" => Len(results') = Len(results) + 1
    BY <1>1, <1>4, ApiResult, AppendResult DEF BodyArrives, ApiError
  <2>2. Len(results) = 1
    BY <1>4 DEF BodyArrives, ApiError
  <2>3. CASE step' = "launch"
    BY <2>1, <2>2, <2>3
  <2>4. CASE step' = "threw" /\ results' = results
    BY <2>2, <2>4
  <2> QED
    BY <1>4, <2>3, <2>4 DEF BodyArrives, ApiError
<1>5. CASE Launch \/ NewPage \/ Goto \/ ReadAlert \/ ReadReady \/ Screenshot
  BY <1>5 DEF Launch, NewPage, Goto, ReadAlert, ReadReady, Screenshot, Throws
<1>6. CASE Close
  <2>1. step' = "start" => Len(results') = Len(results) + 1
    BY <1>1, <1>6, BrowserResult, AppendResult DEF Close
  <2>2. Len(results) = 2
    BY <1>6 DEF Close
  <2>3. CASE step' = "start"
    BY <2>1, <2>2, <2>3
  <2>4. CASE step' = "threw" /\ results' = results
    BY <2>2, <2>4
  <2> QED
    BY <1>6, <2>3, <2>4 DEF Close
<1> QED
  BY <1>2, <1>3, <1>4, <1>5, <1>6 DEF Check, ApiCheck, BrowserCheck

\* A result added keeps the verdicts if it is the next of the registry and, as
\* far as Pricing has only answered for its candidate, says what is served.
LEMMA VerdictsGrow ==
  ASSUME TypeOK, Verdicts, answers \subseteq answers', candidate' = candidate,
         NEW result \in CheckResults, results' = Append(results, result),
         Len(results) + 1 \in 1 .. 3, result.id = Registry[Len(results) + 1],
         IsOutcome(result),
         answers' \subseteq {"own"} => (result.status = "PASSED" <=> Served)
  PROVE  Verdicts'
<1> DEFINE n == Len(results) + 1
<1>1. results \in Seq(CheckResults) /\ DOMAIN results = 1 .. Len(results)
  BY DEF TypeOK, ChecksTypeOK
<1>3. /\ DOMAIN results' = 1 .. n
      /\ \A i \in DOMAIN results : results'[i] = results[i]
      /\ results'[n] = result
  BY <1>1, AppendResult
<1>4. Served' = Served
  BY DEF Served, CandidateDocument
<1>5. ASSUME NEW i \in DOMAIN results'
      PROVE  /\ results'[i].id = Registry[i]
             /\ IsOutcome(results'[i])
             /\ answers' \subseteq {"own"} => (results'[i].status = "PASSED" <=> Served')
  <2>1. CASE i = n
    BY <1>3, <1>4, <2>1
  <2>2. CASE i # n
    <3>1. i \in DOMAIN results /\ results'[i] = results[i]
      BY <1>1, <1>3, <2>2
    <3> QED
      BY <1>4, <3>1 DEF Verdicts
  <2> QED
    BY <2>1, <2>2
<1> QED
  BY <1>4, <1>5 DEF Verdicts, IsOutcome

LEMMA VerdictsStay ==
  ASSUME Verdicts, results' = results, answers \subseteq answers', candidate' = candidate
  PROVE  Verdicts'
BY DEF Verdicts, IsOutcome, Served, CandidateDocument

LEMMA CheckVerdicts ==
  ASSUME ChecksInv, Check
  PROVE  Verdicts'
<1> USE DEF ChecksInv
<1>1. /\ step = "contract" => Len(results) + 1 = 1
      /\ step = "awaitApi" => Len(results) + 1 = 2
      /\ step = "closeDone" => Len(results) + 1 = 3
  <2>1. /\ step = "contract" => Len(results) = 0
        /\ step = "awaitApi" => Len(results) = 1
        /\ step = "closeDone" => Len(results) = 2
    BY DEF Progress, ApiSteps, BrowserSteps
  <2>2. Len(results) \in Nat
    BY DEF TypeOK, ChecksTypeOK
  <2> DEFINE n == Len(results)
  <2>3. /\ step = "contract" => n = 0
        /\ step = "awaitApi" => n = 1
        /\ step = "closeDone" => n = 2
    BY <2>1
  <2> HIDE DEF n
  <2>4. /\ step = "contract" => n + 1 = 1
        /\ step = "awaitApi" => n + 1 = 2
        /\ step = "closeDone" => n + 1 = 3
    BY <2>3
  <2> QED
    BY <2>4 DEF n
<1>2. CASE ContractCheck
  <2>1. Len(results) + 1 = 1 /\ candidate' = candidate /\ answers' = answers
    BY <1>1, <1>2 DEF ContractCheck, GoOn
  <2> QED
    BY <1>2, <2>1, TheTests, ContractResult, VerdictsGrow
<1>3. CASE BodyArrives
  <2>1. CASE ApiError /\ answers' = answers \cup {"silence"}
    BY <2>1, VerdictsStay DEF ApiError, ApiUnchanged
  <2>2. ASSUME NEW document \in Documents, GoOn("awaitApi", "launch"),
               Push(ApiTest, MissingInPayload(document) = {}, FALSE),
               answers' = answers \cup {Kind(document)}, candidate' = candidate
        PROVE  Verdicts'
    <3>1. answers' \subseteq {"own"} => (Serves(document, Expected) <=> Served)
      BY <2>2 DEF Kind, Served
    <3>2. Len(results) + 1 = 2 /\ answers \subseteq answers'
      BY <1>1, <2>2 DEF GoOn
    <3>3. PICK result \in CheckResults :
               /\ results' = Append(results, result)
               /\ result.id = ApiTest /\ IsOutcome(result)
               /\ result.status = "PASSED" <=> Serves(document, Expected)
      BY <2>2, ApiResult
    <3> QED
      BY <2>2, <3>1, <3>2, <3>3, TheTests, VerdictsGrow
  <2> QED
    BY <1>3, <2>1, <2>2 DEF BodyArrives, ApiUnchanged
<1>4. CASE Close
  <2>1. CASE UNCHANGED results
    BY <1>4, <2>1, VerdictsStay DEF Close, BrowserUnchanged
  <2>2. CASE GoOn("closeDone", "start") /\ Push(BrowserTest, ~seen.alert, FALSE)
    <3>1. answers \subseteq {"own"} => (~seen.alert <=> Served)
      BY <2>2 DEF GoOn, Reading, Page
    <3>2. candidate' = candidate /\ answers' = answers
      BY <1>4 DEF Close, BrowserUnchanged
    <3>3. Len(results) + 1 = 3
      BY <1>1, <2>2 DEF GoOn
    <3> QED
      BY <2>2, <3>1, <3>2, <3>3, TheTests, BrowserResult, VerdictsGrow
  <2> QED
    BY <1>4, <2>1, <2>2 DEF Close
<1>5. CASE SendRequest \/ HeadersArrive \/ TimerFires \/ Launch \/ NewPage \/ Goto
           \/ ReadAlert \/ ReadReady \/ Screenshot
  <2>1. results' = results /\ candidate' = candidate /\ answers \subseteq answers'
    BY <1>5 DEF SendRequest, HeadersArrive, ApiError, ApiUnchanged, TimerFires, Launch,
       NewPage, Goto, ReadAlert, ReadReady, Screenshot, BrowserUnchanged
  <2> QED
    BY <2>1, VerdictsStay
<1> QED
  BY <1>2, <1>3, <1>4, <1>5 DEF Check, ApiCheck, BrowserCheck

LEMMA CheckPage ==
  ASSUME Page, Check
  PROVE  Page'
<1>1. candidate' = candidate /\ answers \subseteq answers'
      /\ page' \in {page, "loading"}
  BY DEF Check, ApiCheck, BrowserCheck, ContractCheck, SendRequest, HeadersArrive,
     BodyArrives, ApiError, ApiUnchanged, TimerFires, Launch, NewPage, Goto, ReadAlert,
     ReadReady, Screenshot, Close, BrowserUnchanged, browserVars
<1> QED
  BY <1>1 DEF Page, Served, CandidateDocument

\* The page is read alert first, ready next; one of the two was to be seen, and
\* neither ever goes away.
LEMMA CheckReading ==
  ASSUME ChecksInv, Check
  PROVE  Reading'
<1> USE DEF ChecksInv, Reading, GoOn
<1>1. CASE ContractCheck \/ SendRequest \/ HeadersArrive \/ BodyArrives \/ TimerFires
  <2>1. step' \notin {"ready", "screenshot", "closeDone"}
    BY <1>1 DEF ContractCheck, SendRequest, HeadersArrive, BodyArrives, ApiError,
       TimerFires
  <2>2. step \in {"contract", "api", "awaitApi"}
    BY <1>1 DEF ContractCheck, SendRequest, HeadersArrive, BodyArrives, ApiError,
       TimerFires
  <2>3. Len(results) \in {0, 1} /\ results \in Seq(CheckResults)
    BY <2>2 DEF Progress, ApiSteps, TypeOK, ChecksTypeOK
  <2>4. results' = results \/ \E result : results' = Append(results, result)
    BY <1>1 DEF ContractCheck, SendRequest, HeadersArrive, BodyArrives, ApiError,
       TimerFires, Push, ApiUnchanged
  <2>5. Len(results') \in {Len(results), Len(results) + 1}
    BY <2>3, <2>4
  <2> DEFINE n == Len(results)
             m == Len(results')
  <2>6. n \in {0, 1} /\ m \in {n, n + 1}
    BY <2>3, <2>5
  <2> HIDE DEF n, m
  <2>7. m # 3
    BY <2>6
  <2> QED
    BY <2>1, <2>7 DEF m
<1>2. CASE Launch \/ NewPage \/ Goto \/ ReadAlert \/ ReadReady \/ Screenshot
  <2>1. Len(results') # 3
    BY <1>2 DEF Launch, NewPage, Goto, ReadAlert, ReadReady, Screenshot, Throws, Progress,
       BrowserSteps
  <2>2. CASE Launch \/ NewPage \/ Goto
    BY <2>1, <2>2 DEF Launch, NewPage, Goto, Throws
  <2>3. CASE ReadAlert
    BY <2>1, <2>3 DEF ReadAlert, Throws, TypeOK, ChecksTypeOK
  <2>4. CASE ReadReady
    BY <2>1, <2>4 DEF ReadReady, Throws, TypeOK, ChecksTypeOK
  <2>5. CASE Screenshot
    BY <2>1, <2>5 DEF Screenshot, Throws, BrowserUnchanged
  <2> QED
    BY <1>2, <2>2, <2>3, <2>4, <2>5
<1>3. CASE Close
  <2>1. Len(results) = 2 /\ results \in Seq(CheckResults)
    BY <1>3 DEF Close, Progress, BrowserSteps, TypeOK, ChecksTypeOK
  <2>2. shot' = shot /\ step' \in {"start", "threw"}
    BY <1>3 DEF Close
  <2>3. CASE UNCHANGED results
    BY <2>1, <2>2, <2>3
  <2>4. CASE step = "closeDone" /\ Push(BrowserTest, ~seen.alert, FALSE)
    <3>1. results'[3].status = "PASSED" <=> ~seen.alert
      BY <2>1, <2>4, BrowserResult, AppendResult
    <3> QED
      BY <2>2, <2>4, <3>1
  <2> QED
    BY <1>3, <2>3, <2>4 DEF Close
<1> QED
  BY <1>1, <1>2, <1>3 DEF Check, ApiCheck, BrowserCheck

\* What goes on beside the worker: the page renders once, while neither locator
\* has seen an outcome that counts.
LEMMA SurroundingsStep ==
  ASSUME ChecksInv, Surroundings
  PROVE  Progress' /\ Verdicts' /\ Page' /\ Reading'
<1> USE DEF ChecksInv
<1>1. /\ UNCHANGED <<candidate, step, results, seen, shot>>
      /\ answers \subseteq answers'
  BY DEF Surroundings, PageRenders, AbortedRequestEnds, browserVars
<1>2. Progress' /\ Verdicts'
  BY <1>1, VerdictsStay DEF Progress, ChecksAreOver
<1>3. CASE page' = page
  BY <1>1, <1>2, <1>3 DEF Page, Reading, Served, CandidateDocument
<1>4. CASE PageRenders
  <2>1. Page'
    <3>1. answers' \subseteq {"own"} =>
            (page' = "ready" => Served) /\ (page' = "alert" => ~Served)
      BY <1>4, NothingMissing DEF PageRenders, Kind, Served
    <3> QED
      BY <1>1, <3>1 DEF Page, Served, CandidateDocument
  <2>2. Reading'
    BY <1>1, <1>4 DEF PageRenders, Reading
  <2> QED
    BY <1>2, <2>1, <2>2
<1> QED
  BY <1>2, <1>3, <1>4 DEF Surroundings, AbortedRequestEnds, browserVars

\* Everything else either keeps the results and what was seen, or starts over.
LEMMA RestStep ==
  ASSUME ChecksInv, PersistStep \/ Prepare \/ PrepareThrows \/ Die \/ Stop
  PROVE  Progress' /\ Verdicts' /\ Page' /\ Reading'
<1> USE DEF ChecksInv
<1>1. ASSUME UNCHANGED <<candidate, results, page, seen, shot, answers>>,
             step' = step \/ step' \notin {"contract"} \cup ApiSteps \cup BrowserSteps,
             ChecksAreOver' => ChecksAreOver
      PROVE  Progress' /\ Verdicts' /\ Page' /\ Reading'
  BY <1>1, VerdictsStay DEF Progress, Page, Reading, Served, CandidateDocument,
     BrowserSteps, ApiSteps
<1>2. CASE PersistStep
  <2>1. step \in PersistSteps /\ step' \in PersistSteps \cup {"threw", "done"}
    BY <1>2 DEF PersistStep, Start, PutRefused, WriteContent, WriteMetadata, CreateRow,
       CreateRowThrows, Undo, UndoThrows, CompleteError, Complete, RunThrows, GoOn,
       PersistSteps
  <2>2. Persist
    BY <1>2, PersistLeaves
  <2> QED
    BY <1>1, <2>1, <2>2 DEF Persist, ChecksAreOver, PersistSteps, ApiSteps, BrowserSteps,
       browserVars
<1>3. CASE Prepare
  <2>1. /\ step' = "contract" /\ results' = <<>> /\ page' = "none"
        /\ Len(results') = 0 /\ DOMAIN results' = {}
    BY <1>3 DEF Prepare
  <2> QED
    BY <2>1 DEF Progress, Verdicts, Page, Reading, ApiSteps, BrowserSteps, ChecksAreOver
<1>4. CASE PrepareThrows \/ Stop
  BY <1>1, <1>4 DEF PrepareThrows, Stop, vars, checkVars, browserVars, ChecksAreOver
<1>5. CASE Die
  BY <1>1, <1>5 DEF Die, ChecksAreOver, ApiSteps, BrowserSteps
<1> QED
  BY <1>2, <1>3, <1>4, <1>5

-----------------------------------------------------------------------------
\* The artifact store
LEMMA StoredAfter ==
  ASSUME artifact \in [TestIds -> Nat], NEW test \in TestIds, NEW i \in Nat,
         artifact' = [artifact EXCEPT ![test] = i]
  PROVE  /\ Stored' \subseteq Stored \cup {i}
         /\ Stored \subseteq Stored' \cup {artifact[test]}
         /\ i # NoArtifact => i \in Stored'
         /\ i = NoArtifact => Stored' \subseteq Stored
BY DEF Stored, NoArtifact

\* The checks keep their hands off the store.
LEMMA CheckFiles ==
  ASSUME IInv, Check \/ Surroundings, UNCHANGED <<persistVars, try, faults>>, TypeOK',
         Progress'
  PROVE  FilesInv'
<1> USE DEF IInv, FilesInv, ChecksInv
<1>1. UNCHANGED <<next, run, artifact, files, last, unanswered, disowned>>
  BY DEF persistVars
<1>2. CASE Check
  <2>1. /\ step \in {"contract"} \cup ApiSteps \cup BrowserSteps
        /\ step' \in {"api", "awaitApi", "start", "threw"} \cup BrowserSteps
    BY <1>2 DEF Check, ApiCheck, BrowserCheck, ContractCheck, SendRequest, HeadersArrive,
       BodyArrives, ApiError, TimerFires, Launch, NewPage, Goto, ReadAlert, ReadReady,
       Screenshot, Close, Throws, GoOn, ApiSteps, BrowserSteps
  <2>2. next = 1 /\ next' = 1
    BY <1>1, <2>1 DEF Putting
  <2>3. step' = "start" => next' \in DOMAIN results'
    <3>1. step' = "start" => Len(results') = 3
      BY DEF Progress, ChecksAreOver, ApiSteps, BrowserSteps
    <3> QED
      BY <2>2, <3>1 DEF TypeOK, ChecksTypeOK
  <2>4. Putting'
    BY <2>1, <2>2, <2>3 DEF Putting, PersistSteps, ApiSteps, BrowserSteps
  <2>5. FilesFollowRows'
    BY <1>1, <2>1 DEF FilesFollowRows, FilesOf, Stored, ApiSteps, BrowserSteps
  <2> QED
    BY <1>1, <2>4, <2>5 DEF Fresh
<1>3. CASE Surroundings
  <2>1. UNCHANGED <<step, results>>
    BY <1>3 DEF Surroundings, PageRenders, AbortedRequestEnds
  <2> QED
    BY <1>1, <2>1 DEF Fresh, Putting, FilesFollowRows, FilesOf, Stored, Test
<1> QED
  BY <1>2, <1>3

\* A row dropped disowns its files; a row added has both of them.
LEMMA RowFiles ==
  ASSUME IInv, Start \/ CreateRow \/ CreateRowThrows
  PROVE  FilesInv'
<1> USE DEF IInv, FilesInv, ChecksInv, GoOn
<1>1. /\ Test \in TestIds /\ Test' = Test /\ next' = next /\ results' = results
      /\ artifact \in [TestIds -> Nat] /\ last \in Nat /\ next \in DOMAIN results
      /\ files' = files /\ last' = last
  BY TestIsTrusted DEF Start, CreateRow, CreateRowThrows, Persist, Test, TypeOK,
     PersistSteps, Putting
<1>2. CASE Start
  <2>1. Stored' \subseteq Stored /\ Stored \subseteq Stored' \cup {artifact[Test]}
    BY <1>1, <1>2, StoredAfter DEF Start, NoArtifact
  <2>2. /\ disowned' = disowned \cup ({artifact[Test]} \ {NoArtifact})
        /\ step' = "put" /\ step = "start" /\ unanswered' = unanswered
        /\ artifact' = [artifact EXCEPT ![Test] = NoArtifact]
    BY <1>2 DEF Start
  <2>3. Fresh' /\ Putting'
    BY <1>1, <2>2 DEF Fresh, Putting, NoArtifact, PersistSteps, ApiSteps, BrowserSteps
  <2>4. FilesFollowRows'
    BY <1>1, <2>1, <2>2 DEF FilesFollowRows, FilesOf, Fresh
  <2> QED
    BY <2>3, <2>4
<1>3. ASSUME step = "row", step' \in {"complete", "undo"},
             artifact' = [artifact EXCEPT ![Test] = last], disowned' = disowned,
             unanswered \subseteq unanswered', step' = "undo" => last \in unanswered'
      PROVE  FilesInv'
  <2>1. /\ artifact[Test] = NoArtifact /\ last # NoArtifact
        /\ <<last, "content">> \in files /\ <<last, "metadata">> \in files
    BY <1>3 DEF Putting
  <2>2. Stored' = Stored \cup {last}
    BY <1>1, <1>3, <2>1, StoredAfter DEF Stored
  <2>3. Fresh' /\ Putting'
    BY <1>1, <1>3 DEF Fresh, Putting, PersistSteps, ApiSteps, BrowserSteps
  <2>4. FilesFollowRows'
    BY <1>1, <1>3, <2>1, <2>2 DEF FilesFollowRows, FilesOf, Parts
  <2> QED
    BY <2>3, <2>4
<1>4. CASE CreateRow
  BY <1>3, <1>4 DEF CreateRow
<1>5. CASE CreateRowThrows
  <2>1. CASE UNCHANGED <<artifact, unanswered>>
    <3>1. last \notin Stored' /\ disowned' = disowned /\ step = "row" /\ step' = "undo"
      BY <1>5, <2>1 DEF CreateRowThrows, Putting, Stored
    <3> QED
      BY <1>1, <2>1, <3>1 DEF Fresh, Putting, FilesFollowRows, FilesOf, Stored,
         PersistSteps, ApiSteps, BrowserSteps
  <2> QED
    BY <1>3, <1>5, <2>1 DEF CreateRowThrows
<1> QED
  BY <1>2, <1>4, <1>5

\* The rows stay where they are while files are written or taken back.
LEMMA WriteFiles ==
  ASSUME IInv, NEW ok \in BOOLEAN, WriteContent(ok) \/ WriteMetadata(ok)
  PROVE  FilesInv'
<1> USE DEF IInv, FilesInv, ChecksInv
<1>1. /\ Test' = Test /\ next' = next /\ results' = results /\ Stored' = Stored
      /\ artifact \in [TestIds -> Nat] /\ last \in Nat /\ artifact' = artifact
      /\ disowned' = disowned /\ unanswered' = unanswered
  BY DEF WriteContent, WriteMetadata, Persist, Test, TypeOK, Stored
<1>2. next \in DOMAIN results /\ artifact[Test] = NoArtifact
  BY DEF WriteContent, WriteMetadata, Putting, PersistSteps
<1>3. CASE WriteContent(ok)
  <2>1. /\ step = "put" /\ last' = last + 1
        /\ files' = files \cup {<<last', "content">>} \/ (~ok /\ files' = files)
        /\ step' = IF ok THEN "metadata" ELSE "undo"
    BY <1>3 DEF WriteContent, Write
  <2>2. last' \notin Stored /\ last' # NoArtifact /\ last < last'
    BY <1>1, <2>1 DEF Fresh, Stored, NoArtifact
  <2>3. Fresh'
    BY <1>1, <2>1, <2>2 DEF Fresh, TypeOK
  <2>4. Putting'
    BY <1>1, <1>2, <2>1, <2>2 DEF Putting, PersistSteps, ApiSteps, BrowserSteps
  <2>5. FilesFollowRows'
    BY <1>1, <2>1, <2>2 DEF FilesFollowRows, FilesOf
  <2> QED
    BY <2>3, <2>4, <2>5
<1>4. CASE WriteMetadata(ok)
  <2>1. /\ step = "metadata" /\ last' = last
        /\ files' = files \cup {<<last', "metadata">>} \/ (~ok /\ files' = files)
        /\ step' = IF ok THEN "row" ELSE "undo"
    BY <1>4 DEF WriteMetadata, Write
  <2>2. last \notin Stored /\ last # NoArtifact /\ <<last, "content">> \in files
    BY <2>1 DEF Putting
  <2>3. Fresh'
    BY <1>1, <2>1, <2>2 DEF Fresh, TypeOK
  <2>4. Putting'
    BY <1>1, <1>2, <2>1, <2>2 DEF Putting, PersistSteps, ApiSteps, BrowserSteps
  <2>5. FilesFollowRows'
    BY <1>1, <2>1, <2>2 DEF FilesFollowRows, FilesOf
  <2> QED
    BY <2>3, <2>4, <2>5
<1> QED
  BY <1>3, <1>4

LEMMA UndoFiles ==
  ASSUME IInv, Undo \/ UndoThrows
  PROVE  FilesInv'
<1> USE DEF IInv, FilesInv, ChecksInv, GoOn
<1>1. /\ next' = next /\ results' = results /\ Stored' = Stored
      /\ artifact' = artifact /\ last' = last /\ unanswered' = unanswered
      /\ step = "undo" /\ step' = "error"
  BY DEF Undo, UndoThrows, Persist, Stored
<1>2. files' \subseteq files
      /\ \A i, part : i # last /\ <<i, part>> \in files => <<i, part>> \in files'
  BY DEF Undo, UndoThrows
<1>3. Fresh' /\ Putting'
  BY <1>1, <1>2 DEF Fresh, Putting, PersistSteps, ApiSteps, BrowserSteps
<1>4. \A i \in Stored' : FilesOf(i)' = Parts \/ i \in unanswered'
  <2>1. \A i : i # last => FilesOf(i)' = FilesOf(i)
    BY <1>2 DEF FilesOf
  <2> QED
    BY <1>1, <2>1 DEF FilesFollowRows, Putting
<1>5. \A file \in files' : file[1] \in (Stored \cup disowned)'
  <2>1. \A file \in files : file[1] \in Stored \cup disowned \/ file[1] = last
    BY DEF FilesFollowRows
  <2>2. CASE Undo
    <3>1. \A file \in files' : file[1] # last
      <4>1. \A file \in files : file = <<file[1], file[2]>> /\ file[2] \in Parts
        BY DEF TypeOK
      <4> QED
        BY <2>2, <4>1 DEF Undo
    <3> QED
      BY <1>1, <1>2, <2>1, <2>2, <3>1 DEF Undo
  <2>3. CASE UndoThrows
    BY <1>1, <1>2, <2>1, <2>3 DEF UndoThrows
  <2> QED
    BY <2>2, <2>3
<1> QED
  BY <1>3, <1>4, <1>5 DEF FilesFollowRows

LEMMA OtherPersistFiles ==
  ASSUME IInv, PutRefused \/ CompleteError \/ Complete \/ RunThrows
  PROVE  FilesInv'
<1> USE DEF IInv, FilesInv, ChecksInv, GoOn
<1>1. /\ results' = results /\ Stored' = Stored /\ artifact' = artifact /\ last' = last
      /\ files' = files /\ unanswered' = unanswered /\ disowned' = disowned
      /\ step \notin {"metadata", "row", "undo"} /\ step \in PersistSteps
      /\ step' \in {"error", "threw", "start", "done"}
  BY DEF PutRefused, CompleteError, Complete, RunThrows, Persist, persistVars, Stored,
     PersistSteps
<1>2. step' \in {"error", "start"} => next' \in DOMAIN results'
  <2>1. next \in 1 .. Len(results) /\ DOMAIN results = 1 .. Len(results)
        /\ Len(results) \in Nat
    BY <1>1 DEF Putting, TypeOK, ChecksTypeOK
  <2>2. \/ next' = next
        \/ next' = next + 1 /\ next # Len(results)
        \/ step' \notin {"error", "start"}
    BY DEF PutRefused, CompleteError, Complete, RunThrows, persistVars
  <2> DEFINE n == Len(results)
  <2>3. next \in 1 .. n /\ n \in Nat /\ (next' = next \/ (next' = next + 1 /\ next # n)
                                         \/ step' \notin {"error", "start"})
    BY <2>1, <2>2
  <2> HIDE DEF n
  <2>4. step' \in {"error", "start"} => next' \in 1 .. n
    BY <2>3
  <2> QED
    BY <1>1, <2>1, <2>4 DEF n
<1>3. Putting'
  BY <1>1, <1>2 DEF Putting, PersistSteps, ApiSteps, BrowserSteps
<1> QED
  BY <1>1, <1>3 DEF Fresh, FilesFollowRows, FilesOf

\* A death and a new try leave all files where they are.
LEMMA TryFiles ==
  ASSUME IInv, Prepare \/ PrepareThrows \/ Die \/ Stop
  PROVE  FilesInv'
<1> USE DEF IInv, FilesInv, ChecksInv
<1>1. CASE Prepare
  <2>1. /\ Stored' = {} /\ files' = files /\ last' = last
        /\ \A t \in TestIds : artifact'[t] = NoArtifact
        /\ step = "threw" /\ step' = "contract" /\ next' = 1
        /\ disowned' = disowned \cup Stored
    BY <1>1 DEF Prepare, Stored
  <2> QED
    BY <2>1 DEF Fresh, Putting, FilesFollowRows, NoArtifact, PersistSteps, TypeOK
<1>2. CASE PrepareThrows \/ Stop
  BY <1>2 DEF PrepareThrows, Stop, vars, checkVars, persistVars, Fresh, Putting,
     FilesFollowRows, FilesOf, Stored, Test
<1>3. CASE Die
  <2>1. /\ Stored' = Stored /\ artifact' = artifact /\ last' = last /\ files' = files
        /\ unanswered' = unanswered /\ step' = "threw"
        /\ disowned' = disowned \cup
             (IF step \in {"metadata", "row", "undo"} THEN {last} ELSE {})
    BY <1>3 DEF Die, Stored
  <2> QED
    BY <2>1 DEF Fresh, Putting, FilesFollowRows, FilesOf, PersistSteps, ApiSteps,
       BrowserSteps
<1> QED
  BY <1>1, <1>2, <1>3

LEMMA PersistFiles ==
  ASSUME IInv, PersistStep
  PROVE  FilesInv'
BY RowFiles, WriteFiles, UndoFiles, OtherPersistFiles DEF PersistStep

-----------------------------------------------------------------------------
LEMMA NextInv == IInv /\ [Next]_vars => IInv'
<1> SUFFICES ASSUME IInv, [Next]_vars PROVE IInv'
  OBVIOUS
<1> USE DEF IInv, ChecksInv
<1>1. CASE (Check \/ Surroundings) /\ UNCHANGED <<persistVars, try, faults>>
  <2>1. TypeOK'
    BY <1>1, CheckTypes
  <2>2. Progress' /\ Verdicts' /\ Page' /\ Reading'
    BY <1>1, CheckProgress, CheckVerdicts, CheckPage, CheckReading, SurroundingsStep
  <2>3. FilesInv'
    BY <1>1, <2>1, <2>2, CheckFiles
  <2> QED
    BY <2>1, <2>2, <2>3
<1>2. CASE PersistStep
  BY <1>2, PersistTypes, RestStep, PersistFiles DEF FilesInv
<1>3. CASE Prepare \/ PrepareThrows \/ Die \/ Stop
  BY <1>3, TryTypes, RestStep, TryFiles
<1>4. CASE UNCHANGED vars
  <2>1. UNCHANGED <<checkVars, persistVars, try, faults>>
    BY <1>4 DEF vars
  <2>2. UNCHANGED <<candidate, step, results, fetch, timer, browser, page, seen, shot,
                    answers, next, run, artifact, files, last, unanswered, disowned>>
    BY <2>1 DEF checkVars, apiVars, browserVars, persistVars
  <2>3. TypeOK'
    BY <2>1, <2>2 DEF TypeOK, ChecksTypeOK
  <2>4. Progress' /\ Verdicts' /\ Page' /\ Reading'
    BY <2>2, VerdictsStay DEF Progress, Page, Reading, ChecksAreOver, Served,
       CandidateDocument
  <2>5. FilesInv'
    BY <2>2 DEF FilesInv, Fresh, Putting, FilesFollowRows, FilesOf, Stored, Test
  <2> QED
    BY <2>3, <2>4, <2>5
<1> QED
  BY <1>1, <1>2, <1>3, <1>4 DEF Next

LEMMA Invariance == Spec => []IInv
BY InitInv, NextInv, PTL DEF Spec

\* Every variable has its type, for any number of tries and faults.
THEOREM TypesHold == Spec => []TypeOK
<1>1. IInv => TypeOK
  BY DEF IInv, ChecksInv
<1> QED
  BY <1>1, Invariance, PTL


\* Whatever documents Pricing may answer, and however often the job is tried: as
\* far as it answered for its candidate, the three checks are made in their order
\* and fail exactly if v1 is no longer served.
THEOREM ChecksAgreeAlways == Spec => []ChecksAgree
<1>1. IInv => ChecksAgree
  <2> SUFFICES ASSUME IInv, ChecksAreOver PROVE
        /\ [i \in DOMAIN results |-> results[i].id] = Registry
        /\ \A i \in DOMAIN results : answers = {"own"} =>
             (results[i].status = "PASSED" <=> Serves(CandidateDocument, Expected))
    BY DEF ChecksAgree
  <2>1. DOMAIN results = 1 .. 3
    BY DEF IInv, ChecksInv, Progress, TypeOK, ChecksTypeOK
  <2>2. Registry = [i \in 1 .. 3 |-> Registry[i]]
    BY ChecksAssumption
  <2> QED
    BY <2>1, <2>2 DEF IInv, ChecksInv, Verdicts, Served
<1> QED
  BY <1>1, Invariance, PTL

\* Whatever Pricing answers and whatever fails, the results of an attempt that got
\* through the checks are among those that ReleaseProcessor gives the checks in one
\* step: what is proved of the mesh, from them, is about these checks.
THEOREM ResultsAreOutcomesAlways == Spec => []ResultsAreOutcomes
<1>1. IInv => ResultsAreOutcomes
  <2> SUFFICES ASSUME IInv, ChecksAreOver PROVE
        /\ [i \in DOMAIN results |-> results[i].id] = Registry
        /\ \A i \in DOMAIN results : IsOutcome(results[i])
    BY DEF ResultsAreOutcomes, IsOutcome, Served
  <2>1. DOMAIN results = 1 .. 3
    BY DEF IInv, ChecksInv, Progress, TypeOK, ChecksTypeOK
  <2>2. Registry = [i \in 1 .. 3 |-> Registry[i]]
    BY ChecksAssumption
  <2> QED
    BY <2>1, <2>2 DEF IInv, ChecksInv, Verdicts
<1> QED
  BY <1>1, Invariance, PTL

\* However the page renders beside the calls that read it, the screenshot shows
\* the outcome that the browser check reports.
THEOREM ScreenshotAlways == Spec => []ScreenshotShowsVerdict
<1>1. IInv => ScreenshotShowsVerdict
  <2> SUFFICES ASSUME IInv, NEW i \in DOMAIN results, results[i].id = BrowserTest
               PROVE  shot = IF results[i].status = "PASSED" THEN "ready" ELSE "alert"
    BY DEF ScreenshotShowsVerdict
  <2>1. DOMAIN results = 1 .. Len(results) /\ Len(results) \in Nat /\ Len(results) <= 3
    BY DEF IInv, ChecksInv, TypeOK, ChecksTypeOK, Progress
  <2>2. i \in 1 .. 3 /\ results[i].id = Registry[i]
    BY <2>1 DEF IInv, ChecksInv, Verdicts
  <2>3. i = 3
    BY <2>2, TheTests
  <2>4. Len(results) = 3
    BY <2>1, <2>3
  <2> QED
    BY <2>3, <2>4 DEF IInv, ChecksInv, Reading
<1> QED
  BY <1>1, Invariance, PTL

\* For any number of tries and faults, rows and files of the local artifact store
\* belong together.
THEOREM EvidenceIsStored == Spec => []FilesFollowRows
<1>1. IInv => FilesFollowRows
  BY DEF IInv, FilesInv
<1> QED
  BY <1>1, Invariance, PTL
=============================================================================
