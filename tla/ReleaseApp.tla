----------------------------- MODULE ReleaseApp -----------------------------
(***************************************************************************)
(* apps/release-mfe/src/ReleaseApp.tsx: the page that submits candidates,  *)
(* polls a release, retries it and loads its evidence.  Every click begins *)
(* an asynchronous call with a generation of its own and supersedes the    *)
(* one before; a superseded call goes on until its request settles, and    *)
(* the server may handle its request whether or not the page still waits.  *)
(*                                                                         *)
(* The control plane is here what the page can tell of it: per idempotency *)
(* key one release that moves through its lifecycle.                       *)
(***************************************************************************)
EXTENDS Naturals, FiniteSets, ReleaseLifecycle

CONSTANTS
  Candidates,    \* the candidates that have a button
  MaxCalls,      \* bound on the clicks
  MaxAttempt     \* bound on the retries of a release

ASSUME AppAssumption ==
  MaxCalls \in Nat /\ MaxAttempt \in Nat /\ Candidates # {}

VARIABLES
  screen,        \* the component's state
  calls,         \* per generation, the call begun with it
  current,       \* requestGeneration; 0 after a mount
  pending,       \* the pendingSubmissions map of the mounted component
  stored,        \* the keys in sessionStorage
  server,        \* the release under each key
  adrift,        \* requests the page has given up that may still be handled
  told           \* the keys whose release the page was told of

vars == <<screen, calls, current, pending, stored, server, adrift, told>>

\* Generation 0 is a submission of an earlier visit of the page.
Generations == 0 .. MaxCalls

\* A key is named after the generation of the click that made it.
Keys  == Generations
NoKey == MaxCalls + 1

Attempts  == 0 .. MaxAttempt
\* The page tells apart a release in ERROR, one otherwise settled (SAFE or
\* BLOCKED) and one that is not: QUEUED, or already TESTING or ANALYZING.
PageStatuses == {"QUEUED", "TESTING", "SAFE", "ERROR"}

Snapshots == [status : PageStatuses \cup {NoStatus}, attempt : Attempts]
NoRelease == [status |-> NoStatus, attempt |-> 0]

\* What listArtifacts returned, known by the attempt the release then had.
NoArtifacts == MaxAttempt + 1

Steps == {"none", "create", "retry", "reconcile", "poll", "artifacts", "done"}

\* A call, and the answer to its request that is under way to it, if any.
Calls == [pc : Steps, candidate : Candidates, key : Keys, answer : Snapshots]

Screens == [status : {"idle", "submitting", "active", "error"}, key : Keys,
            shown : Snapshots, polling : BOOLEAN, retrying : BOOLEAN,
            pollError : BOOLEAN, evidenceError : BOOLEAN,
            artifacts : Attempts \cup {NoArtifacts}]

AppTypeOK ==
  /\ screen \in Screens
  /\ calls \in [Generations -> Calls]
  /\ current \in Generations
  /\ pending \in [Candidates -> Keys \cup {NoKey}]
  /\ stored \in [Candidates -> Keys \cup {NoKey}]
  /\ server \in [Keys -> Snapshots]
  /\ adrift \subseteq {"create", "retry"} \X Keys
  /\ told \subseteq Keys

\* details or else release: what the page shows of the release.
CreateActiveState(key, release) ==
  [status |-> "active", key |-> key, shown |-> release, polling |-> TRUE,
   retrying |-> FALSE, pollError |-> FALSE, evidenceError |-> FALSE,
   artifacts |-> NoArtifacts]

Inactive(status) ==
  [CreateActiveState(0, NoRelease) EXCEPT !.status = status, !.polling = FALSE]

\* A tab without a pending key, or one with the key of a submission whose
\* answer was lost before the page was loaded again.
Init ==
  /\ screen = Inactive("idle")
  /\ calls = [g \in Generations |->
       [pc |-> IF g = 0 THEN "done" ELSE "none",
        candidate |-> CHOOSE c \in Candidates : TRUE, key |-> g, answer |-> NoRelease]]
  /\ current = 0
  /\ pending = [c \in Candidates |-> NoKey]
  /\ server = [k \in Keys |-> NoRelease]
  /\ told = {}
  /\ \/ stored = pending /\ adrift = {}
     \/ /\ stored = [pending EXCEPT ![calls[0].candidate] = 0]
        /\ adrift = {<<"create", 0>>}

-----------------------------------------------------------------------------
keyVars == <<pending, stored>>
serverVars == <<server, adrift>>

IsNext(g) == calls[g].pc = "none" /\ \A h \in 1 .. g - 1 : calls[h].pc # "none"

\* A call sends its next request.
Request(call, pc) == [call EXCEPT !.pc = pc, !.answer = NoRelease]

\* Abort ends polling at once (requestBeforeDeadline, delay); any other call
\* waits until its request settles.
Superseded(g) ==
  IF g = current /\ calls[g].pc = "poll"
    THEN Request(calls[g], "done") ELSE calls[g]

\* beginRequest, and the call's first request.
BeginRequest(g, pc, candidate, key) ==
  /\ IsNext(g)
  /\ current' = g
  /\ calls' = [h \in Generations |->
       IF h = g THEN [Request(calls[g], pc) EXCEPT !.candidate = candidate, !.key = key]
                ELSE Superseded(h)]
  /\ UNCHANGED <<serverVars, told>>

IsBusy == screen.status = "submitting" \/ screen.polling \/ screen.retrying

IsTerminal(release) == release.status \in SettledStatuses

KeyFor(candidate, g) ==
  CASE pending[candidate] # NoKey -> pending[candidate]
    [] pending[candidate] = NoKey /\ stored[candidate] # NoKey -> stored[candidate]
    [] OTHER -> g

CreateRelease(candidate, g) ==
  /\ ~IsBusy
  /\ LET key == KeyFor(candidate, g) IN
       /\ BeginRequest(g, "create", candidate, key)
       /\ pending' = [pending EXCEPT ![candidate] = key]
       /\ stored' = [stored EXCEPT ![candidate] = key]
  /\ screen' = Inactive("submitting")

\* The buttons of ReleaseInspection, for the release on the screen.
BeginOnShown(g, pc) ==
  /\ screen.status = "active"
  /\ BeginRequest(g, pc, calls[screen.key].candidate, screen.key)
  /\ UNCHANGED keyVars

ResumeStatusChecks(g) ==
  /\ screen.pollError
  /\ BeginOnShown(g, "poll")
  /\ screen' = [screen EXCEPT !.pollError = FALSE, !.polling = TRUE]

Loading(state) ==
  [state EXCEPT !.evidenceError = FALSE, !.polling = FALSE]

RetryEvidence(g) ==
  /\ IsTerminal(screen.shown) /\ screen.evidenceError
  /\ BeginOnShown(g, "artifacts")
  /\ screen' = Loading(screen)

RetryRelease(g) ==
  /\ screen.shown.status = "ERROR" /\ ~screen.retrying
  /\ BeginOnShown(g, "retry")
  /\ screen' = [screen EXCEPT !.retrying = TRUE]

\* The component is unmounted and mounted again; sessionStorage stays.
Remount ==
  /\ current # 0          \* it has begun a call
  /\ screen' = Inactive("idle")
  /\ calls' = [g \in Generations |-> Superseded(g)]
  /\ current' = 0
  /\ pending' = [c \in Candidates |-> NoKey]
  /\ UNCHANGED <<stored, serverVars, told>>

Click(g) ==
  \/ \E candidate \in Candidates : CreateRelease(candidate, g)
  \/ ResumeStatusChecks(g) \/ RetryEvidence(g) \/ RetryRelease(g)

-----------------------------------------------------------------------------
\* The control plane: it handles a request and answers.  How far a release
\* has moved on shows when it is asked for.

Requesting == {"create", "retry", "reconcile", "poll", "artifacts"}

Waits(g) == calls[g].pc \in Requesting /\ calls[g].answer = NoRelease

\* What a release may have become since: it moves on by itself, and only a
\* retry takes it out of ERROR.
Becomes(release) ==
  LET later == CASE release.status = "QUEUED"  -> PageStatuses
                 [] release.status = "TESTING" -> PageStatuses \ {"QUEUED"}
                 [] OTHER                      -> {release.status}
  IN  [status : later, attempt : {release.attempt}]

\* A retry is accepted of a release in ERROR.  Bound: MaxAttempt.
Accepts(method, release) ==
  method = "retry" => release.status = "ERROR" /\ release.attempt < MaxAttempt

\* What handling a request makes of the release under its key; a retry reads
\* the release again before it answers.
Handled(method, release) ==
  CASE method = "create" /\ release = NoRelease -> {[status |-> "QUEUED", attempt |-> 0]}
    [] method = "retry" -> Becomes([status |-> "QUEUED", attempt |-> release.attempt + 1])
    [] OTHER -> {release}

Handle(method, key) ==
  \E release \in Becomes(server[key]) :
    /\ Accepts(method, release)
    /\ \E handled \in Handled(method, release) : server' = [server EXCEPT ![key] = handled]

Answer(g) ==
  /\ Waits(g)
  /\ Handle(calls[g].pc, calls[g].key)
  /\ calls' = [calls EXCEPT ![g].answer = server'[calls[g].key]]
  /\ UNCHANGED <<screen, keyVars, current, adrift, told>>

\* A request the page has given up is handled after all.
HandleLate(request) ==
  /\ Handle(request[1], request[2])
  /\ adrift' = adrift \ {request}
  /\ UNCHANGED <<screen, keyVars, current, calls, told>>

-----------------------------------------------------------------------------
\* A call goes on when its request has been answered or has failed.  One
\* that has been superseded ends there.

Gets(g, pc) ==
  /\ calls[g].pc = pc
  /\ calls[g].answer # NoRelease
  /\ UNCHANGED adrift

\* A TypeError or a 5xx: the request may still be handled, or never.
Loses(g, pc) ==
  /\ calls[g].pc = pc
  /\ Waits(g)
  /\ adrift' = adrift \cup ({<<pc, calls[g].key>>} \cap ({"create", "retry"} \X Keys))

\* A 4xx: a retry of a release that is not in ERROR, or a submission for what
\* it says; then every repetition of it would be rejected, too.
IsRejected(g, pc) ==
  /\ calls[g].pc = pc
  /\ Waits(g)
  /\ \/ pc = "retry" /\ server[calls[g].key].status # "ERROR"
     \/ pc = "create" /\ calls[g].key = g
  /\ UNCHANGED adrift

IsCurrent(g) == g = current

Send(g, pc) == calls' = [calls EXCEPT ![g] = Request(@, pc)]
End(g) == Send(g, "done")

\* updateActiveState
UpdateActiveState(g, update) ==
  screen' = IF screen.status = "active" /\ screen.key = calls[g].key
              THEN update ELSE screen

ClearKey(candidate) ==
  /\ pending' = [pending EXCEPT ![candidate] = NoKey]
  /\ stored' = [stored EXCEPT ![candidate] = NoKey]

\* setState(createActiveState(...)), and polling begins.
ShowAndPoll(g) ==
  /\ screen' = CreateActiveState(calls[g].key, calls[g].answer)
  /\ Send(g, "poll")

EndSuperseded(g) ==
  /\ ~IsCurrent(g)
  /\ \E pc \in Requesting : Gets(g, pc) \/ Loses(g, pc)
  /\ End(g)
  /\ UNCHANGED <<screen, keyVars, told>>

Created(g) ==
  /\ Gets(g, "create") /\ IsCurrent(g)
  /\ ClearKey(calls[g].candidate)
  /\ ShowAndPoll(g)
  /\ told' = told \cup {calls[g].key}

\* createRelease that forgets the key after every error.
NotCreatedForgetsKey(g) ==
  /\ IsCurrent(g)
  /\ Loses(g, "create") \/ IsRejected(g, "create")
  /\ ClearKey(calls[g].candidate)
  /\ screen' = Inactive("error")
  /\ End(g)
  /\ UNCHANGED told

\* The key is kept while it is uncertain what became of the submission.
NotCreated(g) ==
  /\ IsCurrent(g)
  /\ \/ Loses(g, "create") /\ UNCHANGED keyVars
     \/ IsRejected(g, "create") /\ ClearKey(calls[g].candidate)
  /\ screen' = Inactive("error")
  /\ End(g)
  /\ UNCHANGED told

\* retryRelease without the test of the generation.
RetriedUnfenced(g) == Gets(g, "retry") /\ ShowAndPoll(g) /\ UNCHANGED <<keyVars, told>>

Retried(g) ==
  /\ Gets(g, "retry") /\ IsCurrent(g)
  /\ ShowAndPoll(g)
  /\ UNCHANGED <<keyVars, told>>

\* The retry failed, so the page asks what has become of the release.
NotRetried(g) ==
  /\ IsCurrent(g)
  /\ Loses(g, "retry") \/ IsRejected(g, "retry")
  /\ Send(g, "reconcile")
  /\ UNCHANGED <<screen, keyVars, told>>

Reconciled(g) ==
  /\ IsCurrent(g)
  /\ \/ /\ Gets(g, "reconcile") /\ calls[g].answer.status # "ERROR"
        /\ ShowAndPoll(g)
     \/ /\ Gets(g, "reconcile") /\ calls[g].answer.status = "ERROR"
        /\ screen' = [CreateActiveState(calls[g].key, calls[g].answer) EXCEPT !.polling = FALSE]
        /\ End(g)
     \/ /\ Loses(g, "reconcile")
        /\ UpdateActiveState(g, [screen EXCEPT !.retrying = FALSE])
        /\ End(g)
  /\ UNCHANGED <<keyVars, told>>

Paused(g) ==
  /\ UpdateActiveState(g, [screen EXCEPT !.pollError = TRUE, !.polling = FALSE])
  /\ End(g)

\* pollRelease, request by request with a delay between two; a terminal status is followed by loadArtifacts.
Polled(g) ==
  /\ IsCurrent(g)
  /\ LET release == calls[g].answer
         updated == [screen EXCEPT !.shown = release, !.pollError = FALSE, !.polling = TRUE]
     IN  \/ /\ Gets(g, "poll") /\ ~IsTerminal(release)
            /\ UpdateActiveState(g, updated)
            /\ Send(g, "poll")
         \/ /\ Gets(g, "poll") /\ IsTerminal(release)
            /\ UpdateActiveState(g, Loading(updated))
            /\ Send(g, "artifacts")
         \/ Loses(g, "poll") /\ Paused(g)
  /\ UNCHANGED <<keyVars, told>>

\* A deadline that holds for one request, not for the polling.
RequestTimesOut(g) ==
  /\ calls[g].pc = "poll" /\ Waits(g) /\ IsCurrent(g)
  /\ Paused(g)
  /\ UNCHANGED <<keyVars, adrift, told>>

\* The deadline of the polling passes, during a request or between two.
PollTimesOut(g) ==
  /\ calls[g].pc = "poll" /\ IsCurrent(g)
  /\ Paused(g)
  /\ UNCHANGED <<keyVars, adrift, told>>

ArtifactsShown(g) ==
  \/ /\ Gets(g, "artifacts")
     /\ UpdateActiveState(g, [screen EXCEPT !.artifacts = calls[g].answer.attempt])
  \/ /\ Loses(g, "artifacts")
     /\ UpdateActiveState(g, [screen EXCEPT !.evidenceError = TRUE])

\* loadArtifacts without the test of the generation.
ArtifactsLoadedUnfenced(g) ==
  /\ ArtifactsShown(g)
  /\ End(g)
  /\ UNCHANGED <<keyVars, told>>

ArtifactsLoaded(g) ==
  /\ IsCurrent(g)
  /\ ArtifactsShown(g)
  /\ End(g)
  /\ UNCHANGED <<keyVars, told>>

-----------------------------------------------------------------------------
Continue(g) ==
  /\ \/ EndSuperseded(g) \/ Created(g) \/ NotCreated(g) \/ Retried(g) \/ NotRetried(g)
     \/ Reconciled(g) \/ Polled(g) \/ ArtifactsLoaded(g)
  /\ UNCHANGED <<current, server>>

Deadline == \E g \in Generations : PollTimesOut(g) /\ UNCHANGED <<current, server>>

Next ==
  \/ \E g \in Generations : Click(g) \/ Answer(g) \/ Continue(g)
  \/ Deadline
  \/ Remount
  \/ \E request \in adrift : HandleLate(request)

Spec == Init /\ [][Next]_vars

\* Requests settle, continuations run, and time passes.  The user owes the
\* page no click, the control plane owes it no progress.
Fairness ==
  /\ \A g \in Generations \ {0} : WF_vars(Answer(g) \/ Continue(g))
  /\ WF_vars(Deadline)

FairSpec == Spec /\ Fairness

-----------------------------------------------------------------------------
\* Every release the control plane has made of a submission is one the page
\* has been told of, or its key is kept for the next click: repeating a
\* submission whose answer was lost never makes a second release
\* (ReleaseApp.tsx:79-116 and 588-591, docs/releasemesh-architecture.md:252).
NoReleaseIsForgotten ==
  \A g \in Generations :
    calls[g].pc # "none" /\ server[calls[g].key] # NoRelease =>
      calls[g].key \in told \/ stored[calls[g].candidate] = calls[g].key

Phase(release) ==
  CASE release.status = "QUEUED"  -> 1
    [] release.status = "TESTING" -> 2
    [] OTHER                      -> 3

NotBefore(earlier, later) ==
  \/ later.attempt > earlier.attempt
  \/ later.attempt = earlier.attempt /\ Phase(later) > Phase(earlier)
  \/ later = earlier

\* What the page shows of one release never goes back to an earlier attempt
\* or status, however late the answer of a superseded poll, retry or
\* reconciliation comes (ReleaseApp.tsx:90, 153, 171, 429).
ShownNeverGoesBack ==
  [][screen.status = "active" /\ screen'.status = "active" /\ screen'.key = screen.key =>
       NotBefore(screen.shown, screen'.shown)]_vars

\* The evidence next to a gate was listed when the release had reached the
\* attempt the gate is of, never before (ReleaseApp.tsx:508-554).
EvidenceIsOfShownAttempt ==
  screen.artifacts # NoArtifacts => screen.artifacts >= screen.shown.attempt

\* Every call the page begins comes to its end, also one that polls a
\* release that never settles (ReleaseApp.tsx:418-466).
CallsEnd ==
  \A g \in Generations \ {0} : calls[g].pc # "none" ~> calls[g].pc = "done"

\* A retry the control plane has accepted is reconciled when its answer is
\* lost: the page does not stay "Retrying release..." in the old attempt
\* (ReleaseApp.test.tsx:458).
AcceptedRetryIsReconciled ==
  screen.retrying /\ server[screen.key].attempt > screen.shown.attempt
    ~> ~screen.retrying
=============================================================================
