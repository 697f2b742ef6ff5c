---------------------------- MODULE ReleaseStore ----------------------------
(***************************************************************************)
(* What the release and risk-assessment repositories of packages/database  *)
(* promise their callers about one release: every call takes effect at     *)
(* once or not at all.  An operation is named after the repository method; *)
(* its guard is the method's success condition, and a call that is turned  *)
(* down changes nothing.  ReleaseRepository shows how the transactions     *)
(* keep the promise; ReleaseMesh builds the running system on top of it.   *)
(*                                                                         *)
(* One release is enough: each statement of the repositories names one     *)
(* release id (or one idempotency key), and none relates two releases.     *)
(***************************************************************************)
EXTENDS Naturals, ReleaseLifecycle

CONSTANTS
  MaxAttempt,    \* bound on the number of retries of the release
  Assessments,   \* the contents a risk assessment may have
  NoAssessment   \* the release has no risk assessment

ASSUME StoreAssumption ==
  /\ MaxAttempt \in Nat
  /\ NoAssessment \notin Assessments

VARIABLES
  release,       \* the row's status and attempt; NoStatus when there is none
  assessment     \* the row of RiskAssessment

storeVars == <<release, assessment>>

Attempts == 0 .. MaxAttempt

StoreTypeOK ==
  /\ release \in [status : Statuses \cup {NoStatus}, attempt : Attempts]
  /\ assessment \in Assessments \cup {NoAssessment}

StoreInit ==
  /\ release = [status |-> NoStatus, attempt |-> 0]
  /\ assessment = NoAssessment

SetStatus(status) == release' = [release EXCEPT !.status = status]

CreateRelease ==
  /\ release.status = NoStatus
  /\ SetStatus("DRAFT")
  /\ UNCHANGED assessment

\* INITIAL -> DRAFT -> VALIDATING -> QUEUED in one transaction.
CreateQueuedRelease ==
  /\ release.status = NoStatus
  /\ SetStatus("QUEUED")
  /\ UNCHANGED assessment

\* transitionRelease that trusts the caller about the row's status.
CanTransitionBlindly(expectedStatus, expectedAttempt, nextStatus) ==
  /\ release.status # NoStatus
  /\ release.attempt = expectedAttempt
  /\ IsValidTransition(expectedStatus, nextStatus)

\* The success condition of transitionRelease.
CanTransition(expectedStatus, expectedAttempt, nextStatus) ==
  /\ release.status = expectedStatus
  /\ release.attempt = expectedAttempt
  /\ IsValidTransition(expectedStatus, nextStatus)

TransitionRelease(expectedStatus, expectedAttempt, nextStatus) ==
  /\ CanTransition(expectedStatus, expectedAttempt, nextStatus)
  /\ SetStatus(nextStatus)
  /\ UNCHANGED assessment

\* failRelease moves the row to ERROR and replaces the assessment together.
FailRelease(expectedStatus, expectedAttempt, content) ==
  /\ CanTransition(expectedStatus, expectedAttempt, "ERROR")
  /\ SetStatus("ERROR")
  /\ assessment' = content

\* retryRelease that counts up the attempt the caller has counted up already.
RetryReleaseTwice ==
  /\ release.status = "ERROR"
  /\ release.attempt < MaxAttempt
  /\ release' = [status |-> "QUEUED", attempt |-> release.attempt + 2]
  /\ assessment' = NoAssessment

\* Bound: at most MaxAttempt retries.
RetryRelease ==
  /\ release.status = "ERROR"
  /\ release.attempt < MaxAttempt
  /\ release' = [status |-> "QUEUED", attempt |-> release.attempt + 1]
  /\ assessment' = NoAssessment

\* RiskAssessmentRepository.upsert looks at nothing but the release id.
UpsertAssessment(content) ==
  /\ release.status # NoStatus
  /\ assessment' = content
  /\ UNCHANGED release

\* The statuses and next statuses callers pass to transitionRelease: any
\* but the pair ERROR -> QUEUED, which only retryRelease writes.
TransitionArguments ==
  {pair \in Statuses \X Statuses : pair # <<"ERROR", "QUEUED">>}

StoreNext ==
  \/ CreateRelease
  \/ CreateQueuedRelease
  \/ \E arguments \in TransitionArguments, attempt \in Attempts :
       TransitionRelease(arguments[1], attempt, arguments[2])
  \/ \E status \in ProcessingStatuses, attempt \in Attempts, content \in Assessments :
       FailRelease(status, attempt, content)
  \/ RetryRelease
  \/ \E content \in Assessments : UpsertAssessment(content)

StoreSpec == StoreInit /\ [][StoreNext]_storeVars

-----------------------------------------------------------------------------
\* SAFE and BLOCKED are verdicts: whatever is called afterwards, by a late
\* worker, a recovery sweep or a second retry, the release keeps its status
\* and its attempt (release-lifecycle.ts:14-22 has no way out of them).
VerdictIsFinal ==
  [][release.status \in FinalStatuses => UNCHANGED release]_storeVars

\* The attempt moves only forward, by one, and only when an ERROR release is
\* queued again: no other transition may let evidence of one attempt count
\* for another (release-repository.ts:220-232).
AttemptsOnlyByRetry ==
  [][release'.attempt # release.attempt =>
       /\ release.status = "ERROR" /\ release'.status = "QUEUED"
       /\ release'.attempt = release.attempt + 1]_storeVars
=============================================================================
