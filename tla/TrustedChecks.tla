---------------------------- MODULE TrustedChecks ----------------------------
(***************************************************************************)
(* runMandatoryChecks (mandatory-check-executor.ts): the contract check,   *)
(* which compares two bundled contracts; the API check, whose request to   *)
(* Pricing races a timer (api-check.ts); and the browser check, which      *)
(* opens the Checkout page and reads it through several awaits             *)
(* (browser-check.ts), while the page makes a request of its own (the      *)
(* Checkout fixture).  ReleaseProcessor has all this in one step.          *)
(***************************************************************************)
EXTENDS ReleaseGate, PricingContract

CONSTANTS
  ContractTest, ApiTest, BrowserTest,  \* the ids of the registry
  Versions,    \* the candidates submitted, of DOMAIN PricingContracts
  Strays       \* documents Pricing may answer that are not the candidate's

ASSUME ChecksAssumption ==
  /\ Registry = <<ContractTest, ApiTest, BrowserTest>>
  /\ Versions \subseteq DOMAIN PricingContracts

VARIABLES
  candidate,   \* the version under test
  step,        \* the await the worker is at
  results,     \* the results so far
  fetch,       \* the API check's request, also after its race is lost
  timer,       \* its timer, which has aborted the request once it fired
  browser,     \* the headless browser
  page,        \* what the Checkout page shows
  seen,        \* the answers of the two locators
  shot,        \* what the page showed on the screenshot
  answers      \* the kinds of answer Pricing has given in this attempt

apiVars     == <<fetch, timer>>
browserVars == <<browser, page, seen, shot>>
checkVars   == <<candidate, step, results, apiVars, browserVars, answers>>

CandidateDocument == ResponseOf(PricingContracts[candidate])
Documents == {CandidateDocument} \cup Strays

Kind(document) == IF document = CandidateDocument THEN "own" ELSE "stray"

ApiSteps     == {"api", "awaitApi"}
BrowserSteps == {"launch", "newPage", "goto", "alert", "ready", "screenshot",
                 "closeFailed", "closeDone"}

CheckResults ==
  [id : TestIds, status : TestStatuses, hasArtifact : {TRUE}, incompatible : BOOLEAN]

ChecksTypeOK ==
  /\ candidate \in Versions
  /\ results \in Seq(CheckResults)
  /\ fetch \in {"none", "sent", "reading", "over"}
  /\ timer \in {"off", "armed", "fired"}
  /\ browser \in {"closed", "open"}
  /\ page \in {"none", "loading", "ready", "alert"}
  /\ seen \in [alert : BOOLEAN, ready : BOOLEAN]
  /\ shot \in {"none", "loading", "ready", "alert"}
  /\ answers \subseteq {"own", "stray", "silence"}

NothingSeen == [alert |-> FALSE, ready |-> FALSE]

ChecksInit ==
  /\ candidate \in Versions
  /\ step = "contract"
  /\ results = <<>>
  /\ fetch = "none" /\ timer = "off"
  /\ browser = "closed" /\ page = "none" /\ seen = NothingSeen /\ shot = "none"
  /\ answers = {}

GoOn(from, to) == step = from /\ step' = to

Push(id, passed, incompatible) ==
  results' = Append(results,
    Result(id, IF passed THEN "PASSED" ELSE "FAILED", TRUE, incompatible))

-----------------------------------------------------------------------------
\* A contract check that fails without saying that a dependency is incompatible.
ContractCheckUnreported ==
  /\ GoOn("contract", "api")
  /\ Push(ContractTest, Compatible(Expected, PricingContracts[candidate]), FALSE)
  /\ UNCHANGED <<candidate, apiVars, browserVars, answers>>

\* runPricingContractCheck
ContractCheck ==
  /\ GoOn("contract", "api")
  /\ LET passed == Compatible(Expected, PricingContracts[candidate])
     IN  Push(ContractTest, passed, ~passed)
  /\ UNCHANGED <<candidate, apiVars, browserVars, answers>>

-----------------------------------------------------------------------------
\* createPricingApiCheck.  Whatever settles the race also clears the timer and
\* goes on, before anything else runs.
ApiUnchanged == UNCHANGED <<candidate, browserVars>>

SendRequest ==
  /\ GoOn("api", "awaitApi")
  /\ fetch' = "sent" /\ timer' = "armed"
  /\ ApiUnchanged /\ UNCHANGED <<results, answers>>

\* An outcome of "error" makes the executor throw.
ApiError ==
  /\ GoOn("awaitApi", "threw")
  /\ fetch' = "over" /\ timer' = "off"
  /\ ApiUnchanged /\ UNCHANGED results

\* A check that takes its timer away once the headers are there.
HeadersDisarm ==
  /\ step = "awaitApi" /\ fetch = "sent" /\ timer = "armed"
  /\ \/ /\ fetch' = "reading" /\ timer' = "off"
        /\ ApiUnchanged /\ UNCHANGED <<step, results, answers>>
     \/ ApiError /\ answers' = answers \cup {"silence"}

\* The headers arrive; or the network fails, or the status is not ok.
HeadersArrive ==
  /\ step = "awaitApi" /\ fetch = "sent" /\ timer = "armed"
  /\ \/ /\ fetch' = "reading"
        /\ ApiUnchanged /\ UNCHANGED <<step, results, timer, answers>>
     \/ ApiError /\ answers' = answers \cup {"silence"}

\* The body arrives, and is JSON or not.
BodyArrives ==
  /\ step = "awaitApi" /\ fetch = "reading"
  /\ \/ \E document \in Documents :
          /\ GoOn("awaitApi", "launch")
          /\ Push(ApiTest, MissingInPayload(document) = {}, FALSE)
          /\ fetch' = "over" /\ timer' = "off"
          /\ answers' = answers \cup {Kind(document)}
          /\ ApiUnchanged
     \/ ApiError /\ answers' = answers \cup {"silence"}

\* The timer aborts the request and wins the race with TIMEOUT.
TimerFires ==
  /\ timer = "armed" /\ timer' = "fired"
  /\ GoOn("awaitApi", "threw")
  /\ answers' = answers \cup {"silence"}
  /\ ApiUnchanged /\ UNCHANGED <<results, fetch>>

\* The loser of the race settles, and nobody listens.
AbortedRequestEnds ==
  /\ timer = "fired" /\ fetch \in {"sent", "reading"}
  /\ fetch' = "over"
  /\ UNCHANGED <<candidate, step, results, timer, browserVars, answers>>

ApiCheck ==
  SendRequest \/ HeadersArrive \/ BodyArrives \/ TimerFires

-----------------------------------------------------------------------------
\* createCheckoutBrowserCheck.  Every call of Playwright settles: it answers or
\* it throws, and the finally closes the browser.
BrowserUnchanged == UNCHANGED <<candidate, apiVars, answers>>

Launch ==
  /\ \/ GoOn("launch", "newPage") /\ browser' = "open"
     \/ GoOn("launch", "threw") /\ UNCHANGED browser
  /\ BrowserUnchanged /\ UNCHANGED <<results, page, seen, shot>>

Throws(at) == GoOn(at, "closeFailed")

NewPage ==
  /\ GoOn("newPage", "goto") \/ Throws("newPage")
  /\ page' = IF step' = "goto" THEN "loading" ELSE page
  /\ BrowserUnchanged /\ UNCHANGED <<results, browser, seen, shot>>

\* goto returns once the network is idle, which the page's request may end
\* without the page having rendered the outcome.  A navigation that ended at
\* another origin throws.
Goto ==
  /\ GoOn("goto", "alert") \/ Throws("goto")
  /\ BrowserUnchanged /\ UNCHANGED <<results, browserVars>>

\* The page's own request: any failure is an alert.
PageRenders ==
  /\ browser = "open" /\ page = "loading"
  /\ \/ \E document \in Documents :
          /\ page' = IF MissingInPayload(document) = {} THEN "ready" ELSE "alert"
          /\ answers' = answers \cup {Kind(document)}
     \/ page' = "alert" /\ answers' = answers \cup {"silence"}
  /\ UNCHANGED <<candidate, step, results, apiVars, browser, seen, shot>>

ReadAlert ==
  /\ GoOn("alert", "ready") \/ Throws("alert")
  /\ seen' = [seen EXCEPT !.alert = page = "alert"]
  /\ BrowserUnchanged /\ UNCHANGED <<results, browser, page, shot>>

\* A check that believes the first locator alone.
ReadReadyOnly ==
  /\ GoOn("ready", "screenshot") \/ Throws("ready")
  /\ seen' = [seen EXCEPT !.ready = page = "ready"]
  /\ BrowserUnchanged /\ UNCHANGED <<results, browser, page, shot>>

\* Neither of the two, or both, is no outcome.
ReadReady ==
  /\ IF seen.alert # (page = "ready")
       THEN GoOn("ready", "screenshot") \/ Throws("ready")
       ELSE Throws("ready")
  /\ seen' = [seen EXCEPT !.ready = page = "ready"]
  /\ BrowserUnchanged /\ UNCHANGED <<results, browser, page, shot>>

Screenshot ==
  /\ GoOn("screenshot", "closeDone") \/ Throws("screenshot")
  /\ shot' = IF step' = "closeDone" THEN page ELSE shot
  /\ BrowserUnchanged /\ UNCHANGED <<results, browser, page, seen>>

\* A close that throws replaces the outcome.
Close ==
  /\ \/ GoOn("closeDone", "start") /\ Push(BrowserTest, ~seen.alert, FALSE)
     \/ (GoOn("closeDone", "threw") \/ GoOn("closeFailed", "threw")) /\ UNCHANGED results
  /\ browser' = "closed"
  /\ BrowserUnchanged /\ UNCHANGED <<page, seen, shot>>

BrowserCheck ==
  Launch \/ NewPage \/ Goto \/ ReadAlert \/ ReadReady \/ Screenshot \/ Close

Check == ContractCheck \/ ApiCheck \/ BrowserCheck

\* What goes on beside the worker.
Surroundings == PageRenders \/ AbortedRequestEnds

-----------------------------------------------------------------------------
ChecksAreOver == step \notin {"contract", "threw"} \cup ApiSteps \cup BrowserSteps

\* If Pricing answers as its candidate would, the three checks are all made,
\* agree, and fail exactly if a field that v1 promises is gone or changed: what
\* the contract diff says of the two contracts is what a consumer meets
\* (mandatory-check-executor.ts:16-70, contract-diff.ts:22-65).
ChecksAgree ==
  ChecksAreOver /\ answers = {"own"} =>
    /\ [i \in DOMAIN results |-> results[i].id] = Registry
    /\ \A i \in DOMAIN results :
         results[i].status = "PASSED" <=> Serves(CandidateDocument, Expected)

\* What ReleaseProcessor takes for granted of the checks in one step: the results
\* of an attempt that got through are those of the registry in its order, each
\* with its evidence, and only the contract check speaks of an incompatible
\* dependency, exactly if the candidate breaks v1, whatever Pricing answered
\* (mandatory-check-executor.ts:24-67, release-processor.ts:254-262).
ResultsAreOutcomes ==
  ChecksAreOver =>
    /\ [i \in DOMAIN results |-> results[i].id] = Registry
    /\ \A i \in DOMAIN results :
         results[i] \in CheckOutcomes(results[i].id, ContractTest,
                                      ~Serves(CandidateDocument, Expected))

\* The page the browser check judges through two locators and the one on the
\* screenshot it gives as evidence show the same outcome, although the page
\* renders beside it (browser-check.ts:54-64).
ScreenshotShowsVerdict ==
  \A i \in DOMAIN results :
    results[i].id = BrowserTest =>
      shot = IF results[i].status = "PASSED" THEN "ready" ELSE "alert"

\* "BLOCKED: incompatible contract affects a registered consumer or a mandatory
\* test failed; ERROR: required checks could not finish"
\* (docs/releasemesh-architecture.md:173-174).  The Checkout page shows the same
\* alert for an answer that lacks a field and for no answer at all, and the
\* browser check calls both FAILED.
SilenceBlocksNothing ==
  /\ ChecksAreOver /\ answers \subseteq {"own", "silence"}
  /\ Serves(CandidateDocument, Expected)
  => GateOf(results) # "BLOCKED"
=============================================================================
