----------------------------- MODULE RiskEngine -----------------------------
(***************************************************************************)
(* One attempt of a release seen from its verdict and its explanation: the *)
(* release processor asks GPT-5.6 for a plan, runs the selected tests,     *)
(* decides the gate, asks for an analysis and stores it (process() of      *)
(* release-processor.ts), through the client, the parsers and the          *)
(* fallbacks of packages/risk-engine.  What is stored is what the          *)
(* control plane later has to show (toRiskAssessmentView).                 *)
(*                                                                         *)
(* A text of the model is known by the ids it names: the tests of a plan,  *)
(* the artifacts of an analysis.  An artifact bears the id of its test.    *)
(***************************************************************************)
EXTENDS ReleaseGate

CONSTANTS
  Responses,   \* what the endpoint may answer: [completed, parts]
  Malformed,   \* a text that is not of the requested shape
  Refusal,     \* a part of a response that refuses the request
  Failed,      \* the call, or the parser, threw
  Plans,       \* what any other planner behind RiskPlannerPort may answer
  DurableRuns  \* the lists loadAttemptSummary may return

\* A text of the requested shape is a list (client.ts), and the status of a
\* durable run that did not end counts as FAILED (test-run-repository.ts).
ASSUME EndpointAssumption ==
  /\ \A answer \in Responses :
       /\ answer.parts \in Seq(Range(answer.parts))
       /\ \A text \in Range(answer.parts) :
            text \in {Malformed, Refusal} \/ text \in Seq(Range(text))
  /\ \A found \in DurableRuns :
       /\ found \in Seq(Range(found))
       /\ \A result \in Range(found) : result.status \in TestStatuses

VARIABLES
  stage,       \* how far process() has come
  call,        \* the request to the endpoint
  response,    \* the response whose headers have arrived
  reply,       \* what requestStructuredOutput returned, or Failed
  plan,        \* the answer of planReleaseTests
  selected,    \* the tests that run
  results,     \* what the gate is decided on
  verdict,     \* the gate's decision, ERROR also when the attempt failed
  evidence,    \* the artifacts of the attempt, as loadEvidence found them
  row          \* the release's risk assessment in the database

callVars    == <<call, response, reply>>
attemptVars == <<plan, selected, results, verdict, evidence>>
vars        == <<stage, callVars, attemptVars, row>>

NoResponse == [completed |-> FALSE, parts |-> <<>>]
NoRow      == [status |-> "none", source |-> "none", links |-> <<>>]

-----------------------------------------------------------------------------
\* The first text counts, even if a refusal comes with it.
FirstOutputText(answer) ==
  IF ~answer.completed \/ answer.parts = <<>> \/ answer.parts[1] = Refusal
    THEN Failed ELSE answer.parts[1]

ExtractOutputText(answer) ==
  IF \/ ~answer.completed
     \/ answer.parts = <<>>
     \/ Refusal \in Range(answer.parts)
    THEN Failed ELSE answer.parts[1]

\* What both parsers ask of a text: its shape, and a list that names
\* trusted ids only, each once.
NamesEachOnce(text, trusted) ==
  /\ text \notin {Failed, Malformed}
  /\ Range(text) \subseteq trusted
  /\ IsInjective(text)

ParsePlanningOutput(text) ==
  IF NamesEachOnce(text, TestIds) THEN text ELSE Failed

ParseAnalysisOutput(text, trusted) ==
  IF NamesEachOnce(text, trusted) /\ (trusted # {} => text # <<>>)
    THEN text ELSE Failed

\* The mandatory tests, then the advisory ones not among them.
SelectAdvisoryTests(advisory) ==
  Among(Registry, Mandatory) \o Among(advisory, Range(advisory) \ Mandatory)

PlanReleaseTests(text) ==
  LET planning == ParsePlanningOutput(text) IN
  SelectAdvisoryTests(IF planning = Failed THEN <<>> ELSE planning)

\* The links of the fallback: every artifact, in the order of their kinds.
CollectArtifactIds(artifacts) == Among(Registry, artifacts)

RuleBased(links) ==
  [status |-> "AI_UNAVAILABLE", source |-> "deterministic/rule-based", links |-> links]

AnalyzeRisk(text, artifacts) ==
  LET links == ParseAnalysisOutput(text, artifacts) IN
  IF links = Failed
    THEN RuleBased(CollectArtifactIds(artifacts))
    ELSE [status |-> "AVAILABLE", source |-> "GPT-5.6", links |-> links]

\* toRiskAssessmentView throws, and with it the whole page of the release,
\* unless status and source are known and agree.
ToRiskAssessmentView(assessment) ==
  \/ assessment.status = "AVAILABLE" /\ assessment.source = "GPT-5.6"
  \/ assessment.status = "AI_UNAVAILABLE"
     /\ assessment.source = "deterministic/rule-based"

-----------------------------------------------------------------------------
Init ==
  /\ stage = "queued"
  /\ call = "none" /\ response = NoResponse /\ reply = Failed
  /\ plan = <<>> /\ selected = <<>> /\ results = <<>>
  /\ verdict = "none" /\ evidence = {} /\ row = NoRow

\* requestStructuredOutput, or nothing at all without an API key.
Request ==
  /\ call' \in {"fetching", "closed"}
  /\ response' = NoResponse /\ reply' = Failed

NoRequest == call' = "none" /\ response' = NoResponse /\ reply' = Failed

Close(outcome) == call' = "closed" /\ reply' = outcome

ResponseArrives ==
  /\ call = "fetching" /\ call' = "reading"
  /\ response' \in Responses
  /\ UNCHANGED reply

\* fetch rejects, the status is not ok, or the body cannot be read.
RequestFails ==
  /\ call \in {"fetching", "reading"} /\ Close(Failed)
  /\ UNCHANGED response

\* The whole body is there, perhaps in spite of the abort.
BodyArrives ==
  /\ call \in {"reading", "aborted"} /\ Close(ExtractOutputText(response))
  /\ UNCHANGED response

\* The timer, cleared as soon as the race with fetch is over.
TimerRacesFetch ==
  /\ call = "fetching" /\ Close(Failed)
  /\ UNCHANGED response

\* The timer runs until the request is over: it wins the race with fetch, or
\* aborts the reading of the body.
TimerFires ==
  /\ \/ call = "fetching" /\ Close(Failed)
     \/ call = "reading" /\ call' = "aborted" /\ UNCHANGED reply
  /\ UNCHANGED response

AbortRejects ==
  /\ call = "aborted" /\ Close(Failed)
  /\ UNCHANGED response

Network ==
  /\ ResponseArrives \/ RequestFails \/ BodyArrives
  /\ UNCHANGED <<stage, attemptVars, row>>

Timer ==
  /\ TimerFires \/ AbortRejects
  /\ UNCHANGED <<stage, attemptVars, row>>

-----------------------------------------------------------------------------
BeginPlanning ==
  /\ stage = "queued" /\ stage' = "planning"
  /\ Request
  /\ UNCHANGED <<attemptVars, row>>

EndPlanning ==
  /\ stage = "planning" /\ call = "closed"
  /\ stage' = "planned" /\ plan' = PlanReleaseTests(reply)
  /\ NoRequest
  /\ UNCHANGED <<selected, results, verdict, evidence, row>>

\* The processor does not rely on the planner it is given.
Select ==
  /\ stage = "planned" /\ stage' = "selected"
  /\ \E answer \in Plans \cup {plan} : selected' = SelectTrustedTests(answer)
  /\ plan' = <<>>
  /\ UNCHANGED <<callVars, results, verdict, evidence, row>>

Decide(found) ==
  /\ stage' = "checked"
  /\ results' = found /\ verdict' = GateOf(found)
  /\ selected' = <<>>
  /\ UNCHANGED <<callVars, plan, evidence, row>>

\* The executor returns one result for each selected test, in their order.
RunChecks ==
  /\ stage = "selected"
  /\ \E found \in DurableRuns :
       [i \in DOMAIN found |-> found[i].id] = selected /\ Decide(found)

\* A job that finds its release ANALYZING goes on from the durable runs.
Resume ==
  /\ stage = "resuming"
  /\ \E found \in DurableRuns : Decide(found)

BeginAnalysis ==
  /\ stage = "checked" /\ stage' = "analyzing"
  /\ evidence' \in SUBSET TestIds
  /\ results' = <<>>
  /\ Request
  /\ UNCHANGED <<plan, selected, verdict, row>>

\* analyzeRisk returns and the assessment is stored.
EndAnalysis ==
  /\ stage = "analyzing" /\ call = "closed"
  /\ stage' = "explained" /\ row' = AnalyzeRisk(reply, evidence)
  /\ UNCHANGED <<callVars, attemptVars>>

ForgetAttempt ==
  /\ NoRequest
  /\ plan' = <<>> /\ selected' = <<>> /\ results' = <<>> /\ evidence' = {}

Publish ==
  /\ stage = "explained" /\ stage' = "settled"
  /\ ForgetAttempt
  /\ UNCHANGED <<verdict, row>>

\* An await throws or the worker dies, and the job is tried again.  Once the
\* tests are done the release is ANALYZING.
TryAgain ==
  /\ stage # "settled"
  /\ stage' = IF stage \in {"queued", "planning", "planned", "selected"}
                THEN "queued" ELSE "resuming"
  /\ ForgetAttempt /\ verdict' = "none"
  /\ UNCHANGED row

\* failRelease that leaves the status of an earlier assessment alone.
FailReleaseKeepsStatus ==
  /\ stage # "settled" /\ stage' = "settled"
  /\ ForgetAttempt /\ verdict' = "ERROR"
  /\ row' = [RuleBased(<<>>) EXCEPT !.status = IF row = NoRow THEN @ ELSE row.status]

\* enqueue threw, the last try threw, or a sweep found the release stranded:
\* failRelease with the assessment of a failed queue or a failed attempt.
FailRelease ==
  /\ stage # "settled" /\ stage' = "settled"
  /\ ForgetAttempt /\ verdict' = "ERROR"
  /\ row' = RuleBased(<<>>)

RetryRelease ==
  /\ stage = "settled" /\ verdict = "ERROR"
  /\ stage' = "queued" /\ verdict' = "none" /\ row' = NoRow
  /\ UNCHANGED <<callVars, plan, selected, results, evidence>>

Next ==
  \/ Network \/ Timer
  \/ BeginPlanning \/ EndPlanning \/ Select \/ RunChecks \/ Resume
  \/ BeginAnalysis \/ EndAnalysis \/ Publish
  \/ TryAgain \/ FailRelease \/ RetryRelease

Spec == Init /\ [][Next]_vars

\* Timers fire, an aborted body rejects, and a worker goes on after an await.
\* Nothing is assumed of the network.
Fairness == WF_vars(Timer) /\ WF_vars(EndPlanning) /\ WF_vars(EndAnalysis)

FairSpec == Spec /\ Fairness

-----------------------------------------------------------------------------
Sound(tests) ==
  /\ Mandatory \subseteq Range(tests)
  /\ Range(tests) \subseteq TestIds
  /\ IsInjective(tests)

\* Whatever the endpoint answers, and whatever another planner would, every
\* mandatory test runs, nothing outside the registry runs, and no test runs
\* twice (plan-release-tests.ts:17-59, release-processor.ts:262-275).
PlannerOnlyAdds ==
  /\ stage = "planned" => Sound(plan)
  /\ stage = "selected" => Sound(selected)

\* Whether the results prove that one test ran once and left evidence.
Proven(id) ==
  LET found == {i \in DOMAIN results : results[i].id = id} IN
  Cardinality(found) = 1 /\ \A i \in found : results[i].hasArtifact

\* The verdict, said without the gate: ERROR when some mandatory test is not
\* proven to have run, SAFE when all passed and the contract is compatible,
\* BLOCKED otherwise (release-gate.ts:16-47, release-processor.ts:189-204).
VerdictIsJustified ==
  stage = "checked" =>
    LET proven == \A id \in Mandatory : Proven(id)
        clean  == \A i \in DOMAIN results : results[i].id \in Mandatory =>
                    results[i].status = "PASSED" /\ ~results[i].incompatible
    IN  verdict = IF ~proven THEN "ERROR" ELSE IF clean THEN "SAFE" ELSE "BLOCKED"

\* An explanation names artifacts of the attempt only, each once, and at
\* least one if there are any; it is presented as GPT-5.6's only when it is
\* the text of a completed response that refuses nothing (client.ts:137-172,
\* analysis-schema.ts:57-104, analyze-risk.ts:19-74).
AssessmentIsGrounded ==
  stage = "explained" =>
    /\ Range(row.links) \subseteq evidence
    /\ IsInjective(row.links)
    /\ evidence # {} => row.links # <<>>
    /\ row.source = "GPT-5.6" =>
         /\ response.completed /\ Refusal \notin Range(response.parts)
         /\ row.links = response.parts[1]

\* Whoever wrote the assessment last, an analysis, a fallback, a failed
\* queue or a failed attempt after an analysis, the control plane can show
\* it (release-orchestrator.ts:192-235, release-repository.ts:288-299).
AssessmentIsShown == row # NoRow => ToRiskAssessmentView(row)

\* The endpoint holds up neither the planning nor the analysis for ever,
\* even if it sends headers and never a body (client.ts:60-108).
RequestsEnd ==
  /\ stage = "planning" ~> stage # "planning"
  /\ stage = "analyzing" ~> stage # "analyzing"
=============================================================================
