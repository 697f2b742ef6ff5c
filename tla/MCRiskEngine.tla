---------------------------- MODULE MCRiskEngine ----------------------------
(***************************************************************************)
(* The verdict and its explanation over bounded inputs: every short text   *)
(* of the model and every list of results up to MaxResults, with foreign,  *)
(* repeated, missing and unfinished tests.                                 *)
(***************************************************************************)
EXTENDS RiskEngine, SequencesExt

CONSTANTS contract, api, browser, foreign,
          MaxNamed,    \* bound on the ids a text names
          MaxResults   \* bound on the results read back

MCTestIds   == {contract, api, browser}
MCRegistry  == <<contract, api, browser>>
MCMandatory == {contract, api}

Ids == TestIds \cup {foreign}

\* A text alone, or two parts of which one may be a refusal.
Texts == BoundedSeq({contract, browser, foreign}, MaxNamed) \cup {Malformed}
Parts == {<<>>} \cup {<<part>> : part \in Texts \cup {Refusal}}
           \cup {<<p, q>> : p, q \in {Refusal, <<contract>>, <<browser>>}}

MCResponses == [completed : {TRUE}, parts : Parts]
                 \cup [completed : {FALSE}, parts : {<<>>, <<<<contract>>>>}]

MCPlans == BoundedSeq(Ids, MaxNamed) \cup {NoPlan}

\* A durable run is what a crash or a finished check left behind.
RunStates == [status : {"RUNNING", "PASSED", "FAILED", "ERROR"},
              artifact : {"none", "compatible", "incompatible"}]

PossibleRuns(id) ==
  {run \in RunStates : run.artifact = "incompatible" => id = contract}

Summaries == UNION {{SummaryOf(id, run) : run \in PossibleRuns(id)} : id \in Ids}

MCDurableRuns == BoundedSeq(Summaries, MaxResults)
=============================================================================
