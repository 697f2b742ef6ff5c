---------------------------- MODULE ReleaseGate ----------------------------
(***************************************************************************)
(* The deterministic part of a verdict: which trusted tests a release must *)
(* run whatever the planner answers (runner-worker/src/test-registry.ts),  *)
(* what a worker reads back from the durable test runs of an attempt       *)
(* (test-run-repository.ts, loadAttemptSummary) and what the gate makes of *)
(* the results (contracts/src/release-gate.ts).                            *)
(***************************************************************************)
EXTENDS Naturals, Sequences, FiniteSets, Functions

CONSTANTS
  TestIds,        \* the trusted test ids
  Registry,       \* trustedTestRegistry: the ids in the order they run
  Mandatory,      \* the ids the registry marks mandatory
  NoPlan          \* the planner's call failed

ASSUME RegistryAssumption ==
  /\ Registry \in Seq(TestIds)
  /\ Range(Registry) = TestIds
  /\ \A i, j \in DOMAIN Registry : Registry[i] = Registry[j] => i = j
  /\ Mandatory \subseteq TestIds /\ Mandatory # {}

GateVerdicts == {"SAFE", "BLOCKED", "ERROR"}
TestStatuses == {"PASSED", "FAILED"}

-----------------------------------------------------------------------------
\* SelectSeq(list, LAMBDA x : x \in chosen), as a function the proofs can expand.
Among(list, chosen) ==
  LET kept[n \in 0 .. Len(list)] ==
        IF n = 0 THEN <<>>
        ELSE IF list[n] \in chosen THEN Append(kept[n - 1], list[n]) ELSE kept[n - 1]
  IN  kept[Len(list)]

\* resolveTrustedTests throws on a selection that names an unknown test.
IsTrusted(selection) == Range(selection) \subseteq TestIds

\* A registry that asks the selection about mandatory tests too.
ResolveSelectionOnly(selection) == Among(Registry, Range(selection))

ResolveTrustedTests(selection) == Among(Registry, Mandatory \cup Range(selection))

\* selectTrustedTests of the release processor: the planner may fail, or
\* answer with a selection that resolveTrustedTests rejects; both leave the
\* mandatory tests.
SelectTrustedTests(answer) ==
  IF answer # NoPlan /\ IsTrusted(answer)
    THEN ResolveTrustedTests(answer)
    ELSE ResolveTrustedTests(<<>>)

-----------------------------------------------------------------------------
\* A result as the processor sees it, from the executor or from the database.
Result(id, status, hasArtifact, incompatible) ==
  [id |-> id, status |-> status, hasArtifact |-> hasArtifact,
   incompatible |-> incompatible]

\* What a trusted check may answer.  The contract check compares two bundled
\* contracts; the others ask a running service and a browser, and may answer
\* either way.
CheckOutcomes(id, contractTest, breaking) ==
  IF id = contractTest
    THEN {Result(id, IF breaking THEN "FAILED" ELSE "PASSED", TRUE, breaking)}
    ELSE {Result(id, status, TRUE, FALSE) : status \in TestStatuses}

\* loadAttemptSummary for one durable run.  A run still RUNNING or in ERROR
\* counts as FAILED and as one without evidence.
SummaryOf(id, run) ==
  LET valid == run.status \in TestStatuses IN
  Result(id, IF valid THEN run.status ELSE "FAILED",
         run.artifact # "none" /\ valid,
         run.artifact = "incompatible")

\* Received ids that were not asked for, or received before.
Unexpected(expected, results, i) ==
  \/ results[i].id \notin Range(expected)
  \/ \E j \in 1 .. i - 1 : results[j].id = results[i].id

\* The gate without the test for foreign and repeated results.
CountedResults(expected, results) ==
  /\ Range(expected) # {}
  /\ Cardinality(Range(expected)) = Len(expected)
  /\ Len(results) = Cardinality(Range(expected))

\* The gate without the comparison of the two lengths.
KnownResults(expected, results) ==
  /\ Range(expected) # {}
  /\ Cardinality(Range(expected)) = Len(expected)
  /\ \A i \in DOMAIN results : ~Unexpected(expected, results, i)

\* Exactly the expected tests, each once.
IsComplete(expected, results) ==
  /\ Range(expected) # {}
  /\ Cardinality(Range(expected)) = Len(expected)
  /\ Len(results) = Cardinality(Range(expected))
  /\ \A i \in DOMAIN results : ~Unexpected(expected, results, i)

DecideReleaseGate(input) ==
  CASE \/ ~input.requiredChecksCompleted
       \/ ~input.evidenceComplete
       \/ ~IsComplete(input.expected, input.results) -> "ERROR"
    [] OTHER ->
       IF \/ input.hasIncompatibleDependency
          \/ \E i \in DOMAIN input.results : input.results[i].status = "FAILED"
         THEN "BLOCKED" ELSE "SAFE"

\* The gate as ReleaseProcessor.process calls it with the results it has.
GateOf(results) ==
  LET mandatory == Among(results, {result \in Range(results) : result.id \in Mandatory}) IN
  DecideReleaseGate(
    [requiredChecksCompleted |-> TRUE,
     evidenceComplete |-> \A i \in DOMAIN mandatory : mandatory[i].hasArtifact,
     expected |-> Among(Registry, Mandatory),
     hasIncompatibleDependency |-> \E i \in DOMAIN mandatory : mandatory[i].incompatible,
     results |-> mandatory])
=============================================================================
