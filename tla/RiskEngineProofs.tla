-------------------------- MODULE RiskEngineProofs --------------------------
(***************************************************************************)
(* What the control plane shows, for any endpoint, any planner and any     *)
(* registry: a planner can only add tests, the verdict is what the results *)
(* call for, and every stored assessment can be shown, names evidence of   *)
(* its attempt and quotes the response it claims to quote.                 *)
(***************************************************************************)
EXTENDS RiskEngine, ReleaseGateProofs

-----------------------------------------------------------------------------
\* Both results of analyzeRisk can be shown.
LEMMA AnalysisIsShown ==
  ASSUME NEW text, NEW artifacts
  PROVE  ToRiskAssessmentView(AnalyzeRisk(text, artifacts))
BY DEF AnalyzeRisk, RuleBased, ToRiskAssessmentView

\* Only three actions write the assessment: the analysis, the failure of an
\* attempt, and the retry that deletes it.
LEMMA ShownIsPreserved ==
  ASSUME AssessmentIsShown, [Next]_vars
  PROVE  AssessmentIsShown'
<1>1. CASE EndAnalysis
  BY <1>1, AnalysisIsShown DEF EndAnalysis, AssessmentIsShown
<1>2. CASE FailRelease
  BY <1>2 DEF FailRelease, RuleBased, AssessmentIsShown, ToRiskAssessmentView
<1>3. CASE RetryRelease
  BY <1>3 DEF RetryRelease, AssessmentIsShown
<1>4. CASE UNCHANGED row
  BY <1>4 DEF AssessmentIsShown, NoRow, ToRiskAssessmentView
<1> QED
  BY <1>1, <1>2, <1>3, <1>4 DEF Next, vars, Network, Timer, BeginPlanning,
     EndPlanning, Select, RunChecks, Resume, Decide, BeginAnalysis, Publish,
     TryAgain

\* The control plane can show the assessment of a release at any moment,
\* whoever wrote it last (release-orchestrator.ts:192-235).
THEOREM AssessmentsAreShown == Spec => []AssessmentIsShown
<1>1. Init => AssessmentIsShown
  BY DEF Init, AssessmentIsShown
<1> QED
  BY <1>1, ShownIsPreserved, PTL DEF Spec

-----------------------------------------------------------------------------
\* The GPT-5.6 part of AssessmentIsGrounded.
GptIsQuoted ==
  stage = "explained" /\ row.source = "GPT-5.6" =>
    /\ response.completed /\ Refusal \notin Range(response.parts)
    /\ row.links = response.parts[1]
    /\ Range(row.links) \subseteq evidence
    /\ IsInjective(row.links)

\* A reply is what its response says: no step of the request, late or not,
\* exchanges the one without the other.
ReplyIsOfResponse ==
  /\ call = "closed" /\ reply # Failed => reply = ExtractOutputText(response)
  /\ stage = "explained" => call = "closed"

QInv == ReplyIsOfResponse /\ GptIsQuoted

\* An analysis made of a reply quotes it.
LEMMA AnalysisQuotes ==
  ASSUME ReplyIsOfResponse, EndAnalysis
  PROVE  GptIsQuoted'
<1> SUFFICES ASSUME row'.source = "GPT-5.6"
             PROVE  /\ response.completed /\ Refusal \notin Range(response.parts)
                    /\ row'.links = response.parts[1]
                    /\ Range(row'.links) \subseteq evidence
                    /\ IsInjective(row'.links)
  BY DEF EndAnalysis, GptIsQuoted, callVars, attemptVars
<1>1. row' = AnalyzeRisk(reply, evidence) /\ call = "closed"
  BY DEF EndAnalysis
<1>2. ParseAnalysisOutput(reply, evidence) # Failed
  BY <1>1 DEF AnalyzeRisk, RuleBased
<1>3. NamesEachOnce(reply, evidence) /\ ParseAnalysisOutput(reply, evidence) = reply
  BY <1>2 DEF ParseAnalysisOutput
<1>4. row'.links = reply
  BY <1>1, <1>2, <1>3 DEF AnalyzeRisk
<1>5. reply # Failed
  BY <1>3 DEF NamesEachOnce
<1>6. reply = ExtractOutputText(response)
  BY <1>1, <1>5 DEF ReplyIsOfResponse
<1>7. /\ response.completed /\ Refusal \notin Range(response.parts)
      /\ reply = response.parts[1]
  BY <1>5, <1>6 DEF ExtractOutputText
<1> QED
  BY <1>3, <1>4, <1>7 DEF NamesEachOnce

LEMMA QInvIsPreserved ==
  ASSUME QInv, [Next]_vars
  PROVE  QInv'
<1>1. CASE Network \/ Timer
  BY <1>1 DEF QInv, ReplyIsOfResponse, GptIsQuoted, Network, Timer, ResponseArrives,
     RequestFails, BodyArrives, TimerFires, AbortRejects, Close, attemptVars
<1>2. CASE EndAnalysis
  <2>1. ReplyIsOfResponse'
    BY <1>2 DEF QInv, EndAnalysis, ReplyIsOfResponse, callVars
  <2> QED
    BY <1>2, <2>1, AnalysisQuotes DEF QInv
<1>3. CASE BeginPlanning \/ BeginAnalysis
  BY <1>3 DEF QInv, BeginPlanning, BeginAnalysis, Request, ReplyIsOfResponse, GptIsQuoted
<1>4. CASE EndPlanning \/ Publish \/ TryAgain \/ FailRelease
  BY <1>4 DEF QInv, EndPlanning, Publish, TryAgain, FailRelease, ForgetAttempt,
     NoRequest, ReplyIsOfResponse, GptIsQuoted
<1>5. CASE Select \/ RunChecks \/ Resume \/ RetryRelease
  BY <1>5 DEF QInv, Select, RunChecks, Resume, RetryRelease, Decide, callVars,
     ReplyIsOfResponse, GptIsQuoted
<1>6. CASE UNCHANGED vars
  BY <1>6 DEF QInv, vars, callVars, attemptVars, ReplyIsOfResponse, GptIsQuoted
<1> QED
  BY <1>1, <1>2, <1>3, <1>4, <1>5, <1>6 DEF Next

\* An assessment presented as GPT-5.6's quotes a completed response that
\* refuses nothing, and links to artifacts of the attempt only
\* (client.ts:137-172, analysis-schema.ts:57-90).
THEOREM GptAssessmentsAreQuoted == Spec => []GptIsQuoted
<1>1. Init => QInv
  BY DEF Init, QInv, ReplyIsOfResponse, GptIsQuoted
<1>2. QInv => GptIsQuoted
  BY DEF QInv
<1> QED
  BY <1>1, <1>2, QInvIsPreserved, PTL DEF Spec

-----------------------------------------------------------------------------
\* A reply is a text: no request ends with anything but what the endpoint
\* sent, or Failed.
IsText(text) == text \in {Failed, Malformed} \/ text \in Seq(Range(text))

RepliesAreTexts ==
  /\ call \in {"reading", "aborted"} => response \in Responses
  /\ IsText(reply)

\* The mandatory tests in the order of the registry.
LEMMA MandatoryAreSound == Sound(Among(Registry, Mandatory))
<1>1. Range(Among(Registry, Mandatory)) = Mandatory
  BY ExpectedTests
<1>2. IsInjective(Among(Registry, Mandatory))
  <2>1. IsInjective(Registry) /\ Registry \in Seq(TestIds)
    BY RegistryAssumption DEF IsInjective
  <2> QED
    BY <2>1, AmongElements
<1> QED
  BY <1>1, <1>2, RegistryAssumption DEF Sound

\* Two lists without repetition and without a common element.
LEMMA JoinedLists ==
  ASSUME NEW S, NEW left \in Seq(S), NEW right \in Seq(S)
  PROVE  /\ Range(left \o right) = Range(left) \cup Range(right)
         /\ IsInjective(left) /\ IsInjective(right) /\ Range(left) \cap Range(right) = {}
              => IsInjective(left \o right)
<1> DEFINE both == left \o right
<1>1. /\ DOMAIN left = 1 .. Len(left) /\ Len(left) \in Nat
      /\ DOMAIN right = 1 .. Len(right) /\ Len(right) \in Nat
  OBVIOUS
<1>2. /\ DOMAIN both = 1 .. Len(left) + Len(right)
      /\ \A i \in 1 .. Len(left) : both[i] = left[i]
      /\ \A i \in 1 .. Len(right) : both[Len(left) + i] = right[i]
  OBVIOUS
<1> HIDE DEF both
<1>3. \A i \in DOMAIN both : \/ i \in DOMAIN left /\ both[i] = left[i]
                             \/ /\ i - Len(left) \in DOMAIN right
                                /\ both[i] = right[i - Len(left)]
  <2> SUFFICES ASSUME NEW i \in DOMAIN both, i \notin DOMAIN left
               PROVE  i - Len(left) \in DOMAIN right /\ both[i] = right[i - Len(left)]
    BY <1>1, <1>2
  <2>1. i \in Nat /\ i > Len(left) /\ i <= Len(left) + Len(right)
    BY <1>1, <1>2
  <2>2. i - Len(left) \in 1 .. Len(right) /\ Len(left) + (i - Len(left)) = i
    BY <1>1, <2>1
  <2> QED
    BY <1>1, <1>2, <2>2
<1>4. Range(both) = Range(left) \cup Range(right)
  <2>1. ASSUME NEW x \in Range(both) PROVE x \in Range(left) \cup Range(right)
    BY <1>3, <2>1 DEF Range
  <2>2. ASSUME NEW x \in Range(left) PROVE x \in Range(both)
    <3>1. PICK i \in 1 .. Len(left) : left[i] = x
      BY <1>1 DEF Range
    <3>2. i \in DOMAIN both /\ both[i] = x
      BY <1>1, <1>2, <3>1
    <3> QED
      BY <3>2 DEF Range
  <2>3. ASSUME NEW x \in Range(right) PROVE x \in Range(both)
    <3>1. PICK i \in 1 .. Len(right) : right[i] = x
      BY <1>1 DEF Range
    <3>2. Len(left) + i \in DOMAIN both /\ both[Len(left) + i] = x
      BY <1>1, <1>2, <3>1
    <3> QED
      BY <3>2 DEF Range
  <2> QED
    BY <2>1, <2>2, <2>3
<1>5. ASSUME IsInjective(left), IsInjective(right), Range(left) \cap Range(right) = {}
      PROVE  IsInjective(both)
  <2> SUFFICES ASSUME NEW i \in DOMAIN both, NEW j \in DOMAIN both, both[i] = both[j]
               PROVE  i = j
    BY DEF IsInjective
  <2>1. i \in Nat /\ j \in Nat
    BY <1>1, <1>2
  <2>2. CASE i \in DOMAIN left /\ both[i] = left[i]
    <3>1. left[i] \in Range(left)
      BY <2>2 DEF Range
    <3>2. j \in DOMAIN left /\ both[j] = left[j]
      BY <1>3, <1>5, <2>2, <3>1 DEF Range
    <3> QED
      BY <1>5, <2>2, <3>2 DEF IsInjective
  <2>3. CASE i - Len(left) \in DOMAIN right /\ both[i] = right[i - Len(left)]
    <3>1. right[i - Len(left)] \in Range(right)
      BY <2>3 DEF Range
    <3>2. j - Len(left) \in DOMAIN right /\ both[j] = right[j - Len(left)]
      BY <1>3, <1>5, <2>3, <3>1 DEF Range
    <3>3. i - Len(left) = j - Len(left)
      BY <1>5, <2>3, <3>2 DEF IsInjective
    <3> QED
      BY <1>1, <2>1, <3>3
  <2> QED
    BY <1>3, <2>2, <2>3
<1> QED
  BY <1>4, <1>5 DEF both

\* planReleaseTests answers with every mandatory test, nothing untrusted and
\* no test twice, whatever text the endpoint sent.
LEMMA PlanIsSound ==
  ASSUME NEW text, IsText(text)
  PROVE  Sound(PlanReleaseTests(text))
<1> DEFINE parsed == ParsePlanningOutput(text)
           advisory == IF parsed = Failed THEN <<>> ELSE parsed
           first == Among(Registry, Mandatory)
           extra == Among(advisory, Range(advisory) \ Mandatory)
<1>1. /\ advisory \in Seq(TestIds) /\ IsInjective(advisory)
      /\ Range(advisory) \subseteq TestIds
  <2>1. CASE parsed = Failed
    <3>1. IsInjective(<<>>) /\ Range(<<>>) = {} /\ <<>> \in Seq(TestIds)
      BY DEF IsInjective, Range
    <3> QED
      BY <2>1, <3>1
  <2>2. CASE parsed # Failed
    <3>1. NamesEachOnce(text, TestIds) /\ parsed = text
      BY <2>2 DEF ParsePlanningOutput
    <3>2. text \in Seq(Range(text)) /\ Range(text) \subseteq TestIds /\ IsInjective(text)
      BY <3>1 DEF NamesEachOnce, IsText
    <3>3. text \in Seq(TestIds)
      BY <3>2
    <3> QED
      BY <2>2, <3>1, <3>2, <3>3
  <2> QED
    BY <2>1, <2>2
<1> HIDE DEF advisory
<1>2. /\ extra \in Seq(TestIds) /\ IsInjective(extra)
      /\ Range(extra) = Range(advisory) \cap (Range(advisory) \ Mandatory)
  BY <1>1, AmongPlaces, AmongElements
<1>3. first \in Seq(TestIds) /\ Range(first) = Mandatory /\ IsInjective(first)
  BY ExpectedTests, MandatoryAreSound DEF Sound
<1> HIDE DEF extra, first
<1>4. Range(first) \cap Range(extra) = {}
  BY <1>2, <1>3
<1>5. IsInjective(first \o extra) /\ Range(first \o extra) = Mandatory \cup Range(extra)
  BY <1>2, <1>3, <1>4, JoinedLists
<1>6. Sound(first \o extra)
  BY <1>1, <1>2, <1>5, RegistryAssumption DEF Sound
<1> QED
  BY <1>6 DEF PlanReleaseTests, SelectAdvisoryTests, advisory, extra, first

\* So does selectTrustedTests, whatever the planner it is given.
LEMMA SelectedAreSound ==
  ASSUME NEW answer
  PROVE  Sound(SelectTrustedTests(answer))
BY SelectionIsSound DEF Sound

\* An extracted text is what the endpoint sent.
LEMMA ExtractedIsText ==
  ASSUME NEW answer \in Responses
  PROVE  IsText(ExtractOutputText(answer))
<1>1. CASE ExtractOutputText(answer) = Failed
  BY <1>1 DEF IsText
<1>2. CASE ExtractOutputText(answer) # Failed
  <2>1. /\ answer.parts # <<>> /\ Refusal \notin Range(answer.parts)
        /\ ExtractOutputText(answer) = answer.parts[1]
    BY <1>2 DEF ExtractOutputText
  <2>2. answer.parts[1] \in Range(answer.parts)
    <3>1. answer.parts \in Seq(Range(answer.parts))
      BY EndpointAssumption
    <3>2. 1 \in DOMAIN answer.parts
      BY <2>1, <3>1
    <3> QED
      BY <3>2 DEF Range
  <2> QED
    BY <2>1, <2>2, EndpointAssumption DEF IsText
<1> QED
  BY <1>1, <1>2

PInv == RepliesAreTexts /\ PlannerOnlyAdds

LEMMA PInvIsPreserved ==
  ASSUME PInv, [Next]_vars
  PROVE  PInv'
<1> USE DEF PInv, RepliesAreTexts, PlannerOnlyAdds
<1>0. IsText(Failed)
  BY DEF IsText
<1>1. CASE Network
  <2>1. CASE BodyArrives
    BY <1>1, <2>1, ExtractedIsText DEF Network, BodyArrives, Close, attemptVars
  <2> QED
    BY <1>0, <1>1, <2>1 DEF Network, ResponseArrives, RequestFails, Close, attemptVars
<1>2. CASE Timer
  BY <1>0, <1>2 DEF Timer, TimerFires, AbortRejects, Close, attemptVars
<1>3. CASE EndPlanning
  BY <1>0, <1>3, PlanIsSound DEF EndPlanning, NoRequest
<1>4. CASE Select
  BY <1>4, SelectedAreSound DEF Select, callVars
<1>5. CASE BeginPlanning \/ BeginAnalysis
  BY <1>0, <1>5 DEF BeginPlanning, BeginAnalysis, Request
<1>6. CASE Publish \/ TryAgain \/ FailRelease
  BY <1>0, <1>6 DEF Publish, TryAgain, FailRelease, ForgetAttempt, NoRequest
<1>7. CASE RunChecks \/ Resume \/ EndAnalysis \/ RetryRelease
  BY <1>7 DEF RunChecks, Resume, EndAnalysis, RetryRelease, Decide, callVars, attemptVars
<1>8. CASE UNCHANGED vars
  BY <1>8 DEF vars, callVars, attemptVars
<1> QED
  BY <1>1, <1>2, <1>3, <1>4, <1>5, <1>6, <1>7, <1>8 DEF Next

\* Whatever the endpoint answers, and whatever another planner would, every
\* mandatory test runs, nothing outside the registry runs and no test runs
\* twice (plan-release-tests.ts:17-59, release-processor.ts:262-275).
THEOREM PlannersOnlyAdd == Spec => []PlannerOnlyAdds
<1>1. Init => PInv
  BY DEF Init, PInv, RepliesAreTexts, PlannerOnlyAdds, IsText
<1>2. PInv => PlannerOnlyAdds
  BY DEF PInv
<1> QED
  BY <1>1, <1>2, PInvIsPreserved, PTL DEF Spec

-----------------------------------------------------------------------------
\* The verdict of a worker, for any results it may read back.
LEMMA DecidedIsJustified ==
  ASSUME NEW found \in DurableRuns, Decide(found)
  PROVE  VerdictIsJustified'
<1>1. results' = found /\ verdict' = GateOf(found)
  BY DEF Decide
<1>2. GateOf(found) = IF ~(\A id \in Mandatory : ProvenBy(found, id)) THEN "ERROR"
                      ELSE IF CleanBy(found) THEN "SAFE" ELSE "BLOCKED"
  <2>1. /\ found \in Seq(Range(found))
        /\ \A result \in Range(found) : result.status \in TestStatuses
    BY EndpointAssumption
  <2> QED
    BY <2>1, GateIsJustified
<1>3. \A id : ProvenBy(results', id) <=> Proven(id)'
  BY DEF ProvenBy, Proven, ResultsOf
<1> QED
  BY <1>1, <1>2, <1>3 DEF VerdictIsJustified, CleanBy

\* The verdict is what the durable results call for, SAFE only when every
\* mandatory test ran once, left evidence, passed and found no incompatible
\* contract (release-gate.ts:16-47, release-processor.ts:189-204).
THEOREM VerdictsAreJustified == Spec => []VerdictIsJustified
<1>1. Init => VerdictIsJustified
  BY DEF Init, VerdictIsJustified
<1>2. VerdictIsJustified /\ [Next]_vars => VerdictIsJustified'
  <2> SUFFICES ASSUME VerdictIsJustified, [Next]_vars
               PROVE  VerdictIsJustified'
    OBVIOUS
  <2>1. CASE RunChecks \/ Resume
    BY <2>1, DecidedIsJustified DEF RunChecks, Resume
  <2>2. CASE UNCHANGED <<stage, results, verdict>>
    BY <2>2 DEF VerdictIsJustified, Proven
  <2>3. CASE stage' # "checked"
    BY <2>3 DEF VerdictIsJustified
  <2> QED
    BY <2>1, <2>2, <2>3 DEF Next, vars, Network, Timer, BeginPlanning, EndPlanning,
       Select, BeginAnalysis, EndAnalysis, Publish, TryAgain, FailRelease,
       RetryRelease, attemptVars
<1> QED
  BY <1>1, <1>2, PTL DEF Spec

-----------------------------------------------------------------------------
\* The links of the fallback are the artifacts of the attempt.
LEMMA CollectedArtifacts ==
  ASSUME NEW artifacts \in SUBSET TestIds
  PROVE  /\ Range(CollectArtifactIds(artifacts)) = artifacts
         /\ IsInjective(CollectArtifactIds(artifacts))
         /\ artifacts # {} => CollectArtifactIds(artifacts) # <<>>
<1>1. IsInjective(Registry) /\ Registry \in Seq(TestIds) /\ Range(Registry) = TestIds
  BY RegistryAssumption DEF IsInjective
<1>2. /\ Range(CollectArtifactIds(artifacts)) = Range(Registry) \cap artifacts
      /\ IsInjective(CollectArtifactIds(artifacts))
  BY <1>1, AmongElements DEF CollectArtifactIds
<1>3. Range(<<>>) = {}
  BY DEF Range
<1> QED
  BY <1>1, <1>2, <1>3

\* Where the links of a stored assessment come from.
LinksAreGrounded ==
  stage = "explained" =>
    /\ Range(row.links) \subseteq evidence
    /\ IsInjective(row.links)
    /\ evidence # {} => row.links # <<>>

EvidenceIsTrusted == evidence \subseteq TestIds

GInv == QInv /\ EvidenceIsTrusted /\ LinksAreGrounded

LEMMA GInvIsPreserved ==
  ASSUME GInv, [Next]_vars
  PROVE  GInv'
<1>1. QInv'
  BY QInvIsPreserved DEF GInv
<1>2. EvidenceIsTrusted'
  BY DEF GInv, EvidenceIsTrusted, Next, vars, Network, Timer, BeginPlanning,
     EndPlanning, Select, RunChecks, Resume, Decide, BeginAnalysis, EndAnalysis,
     Publish, TryAgain, FailRelease, RetryRelease, ForgetAttempt, attemptVars
<1>3. CASE EndAnalysis
  <2>1. row' = AnalyzeRisk(reply, evidence) /\ evidence' = evidence
    BY <1>3 DEF EndAnalysis, attemptVars
  <2>2. CASE ParseAnalysisOutput(reply, evidence) = Failed
    <3>1. row'.links = CollectArtifactIds(evidence)
      BY <2>1, <2>2 DEF AnalyzeRisk, RuleBased
    <3> QED
      BY <1>1, <1>2, <2>1, <3>1, CollectedArtifacts
         DEF GInv, EvidenceIsTrusted, LinksAreGrounded
  <2>3. CASE ParseAnalysisOutput(reply, evidence) # Failed
    <3>1. row'.links = reply /\ NamesEachOnce(reply, evidence)
          /\ (evidence # {} => reply # <<>>)
      BY <2>1, <2>3 DEF AnalyzeRisk, ParseAnalysisOutput
    <3> QED
      BY <1>1, <1>2, <2>1, <3>1 DEF GInv, LinksAreGrounded, NamesEachOnce
  <2> QED
    BY <2>2, <2>3
<1>4. CASE UNCHANGED <<stage, row, evidence>>
  BY <1>1, <1>2, <1>4 DEF GInv, LinksAreGrounded
<1>5. CASE stage' # "explained"
  BY <1>1, <1>2, <1>5 DEF GInv, LinksAreGrounded
<1> QED
  BY <1>3, <1>4, <1>5 DEF Next, vars, Network, Timer, BeginPlanning, EndPlanning,
     Select, RunChecks, Resume, Decide, BeginAnalysis, Publish, TryAgain,
     FailRelease, RetryRelease, attemptVars

\* Every explanation of an attempt, GPT-5.6's or the fallback, names its
\* artifacts only, each once, at least one when there are any, and quotes a
\* completed response when it is presented as GPT-5.6's (client.ts:137-172,
\* analysis-schema.ts:57-104, analyze-risk.ts:19-74).
THEOREM AssessmentsAreGrounded == Spec => []AssessmentIsGrounded
<1>1. Init => GInv
  BY DEF Init, GInv, QInv, ReplyIsOfResponse, GptIsQuoted, EvidenceIsTrusted,
     LinksAreGrounded
<1>2. GInv => AssessmentIsGrounded
  BY DEF GInv, QInv, GptIsQuoted, LinksAreGrounded, AssessmentIsGrounded
<1> QED
  BY <1>1, <1>2, GInvIsPreserved, PTL DEF Spec
=============================================================================
