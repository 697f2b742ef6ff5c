------------------------- MODULE ReleaseMeshProofs -------------------------
(***************************************************************************)
(* What ReleaseStore guarantees, for any set of assessments and any bound  *)
(* on the retries; that the running system - every request, worker,        *)
(* handler, sweep and fault - touches the release only through the         *)
(* operations of ReleaseStore; and what its verdicts rest on, for any      *)
(* number of workers, requests, retries and faults.                        *)
(***************************************************************************)
EXTENDS ReleaseMesh, ReleaseGateProofs

-----------------------------------------------------------------------------
LEMMA NextStatusIsAStatus ==
  ASSUME NEW from \in Statuses \cup {NoStatus}, NEW to, IsValidTransition(from, to)
  PROVE  to \in Statuses /\ from \notin FinalStatuses
BY DEF IsValidTransition, AllowedTransitions, Statuses, NoStatus, FinalStatuses

\* A step of the store changes a release in one of four ways.
LEMMA StoreStepCases ==
  ASSUME StoreTypeOK, StoreNext
  PROVE  \/ /\ release.status = NoStatus
            /\ release' \in {[release EXCEPT !.status = "DRAFT"],
                             [release EXCEPT !.status = "QUEUED"]}
            /\ UNCHANGED assessment
         \/ \E to \in Statuses :
              /\ IsValidTransition(release.status, to)
              /\ release' = [release EXCEPT !.status = to]
              /\ assessment' \in Assessments \cup {NoAssessment}
         \/ /\ release.status = "ERROR" /\ release.attempt < MaxAttempt
            /\ release' = [status |-> "QUEUED", attempt |-> release.attempt + 1]
            /\ assessment' = NoAssessment
         \/ UNCHANGED release /\ assessment' \in Assessments
<1>1. CASE CreateRelease \/ CreateQueuedRelease
  BY <1>1 DEF CreateRelease, CreateQueuedRelease, SetStatus
<1>2. ASSUME NEW arguments \in TransitionArguments, NEW attempt \in Attempts,
             TransitionRelease(arguments[1], attempt, arguments[2])
      PROVE  \E to \in Statuses :
              /\ IsValidTransition(release.status, to)
              /\ release' = [release EXCEPT !.status = to]
              /\ assessment' \in Assessments \cup {NoAssessment}
  <2>1. arguments[2] \in Statuses
    BY DEF TransitionArguments
  <2> QED
    BY <1>2, <2>1 DEF TransitionRelease, CanTransition, SetStatus, StoreTypeOK
<1>3. ASSUME NEW status \in ProcessingStatuses, NEW attempt \in Attempts,
             NEW content \in Assessments, FailRelease(status, attempt, content)
      PROVE  \E to \in Statuses :
              /\ IsValidTransition(release.status, to)
              /\ release' = [release EXCEPT !.status = to]
              /\ assessment' \in Assessments \cup {NoAssessment}
  BY <1>3 DEF FailRelease, CanTransition, SetStatus, Statuses
<1>4. CASE RetryRelease
  BY <1>4 DEF RetryRelease
<1>5. ASSUME NEW content \in Assessments, UpsertAssessment(content)
      PROVE  UNCHANGED release /\ assessment' \in Assessments
  BY <1>5 DEF UpsertAssessment
<1> QED
  BY <1>1, <1>2, <1>3, <1>4, <1>5 DEF StoreNext

\* A release has a known status and a bounded attempt after any operations.
THEOREM StoreTypeCorrect == StoreSpec => []StoreTypeOK
<1>1. StoreInit => StoreTypeOK
  BY StoreAssumption DEF StoreInit, StoreTypeOK, Attempts
<1>2. StoreTypeOK /\ [StoreNext]_storeVars => StoreTypeOK'
  <2> SUFFICES ASSUME StoreTypeOK, StoreNext PROVE StoreTypeOK'
    BY DEF StoreTypeOK, storeVars
  <2> USE StoreAssumption DEF StoreTypeOK, Attempts
  <2>1. "DRAFT" \in Statuses /\ "QUEUED" \in Statuses
    BY DEF Statuses
  <2> QED
    BY <2>1, StoreStepCases
<1> QED
  BY <1>1, <1>2, PTL DEF StoreSpec

\* No operation moves a SAFE or BLOCKED release, whoever calls it and however
\* stale the caller's view of the release is.
THEOREM VerdictsAreFinal == StoreSpec => VerdictIsFinal
<1>1. StoreTypeOK /\ [StoreNext]_storeVars =>
        [release.status \in FinalStatuses => UNCHANGED release]_storeVars
  <2> SUFFICES ASSUME StoreTypeOK, StoreNext, release.status \in FinalStatuses
               PROVE  UNCHANGED release
    OBVIOUS
  <2>1. /\ release.status # NoStatus /\ release.status # "ERROR"
        /\ release.status \in Statuses
    BY DEF FinalStatuses, NoStatus, Statuses
  <2>2. \A to : ~IsValidTransition(release.status, to)
    BY <2>1, NextStatusIsAStatus
  <2> QED
    BY <2>1, <2>2, StoreStepCases
<1> QED
  BY <1>1, StoreTypeCorrect, PTL DEF StoreSpec, VerdictIsFinal

\* Only the retry of an ERROR release changes its attempt, and by one.
THEOREM AttemptsCountRetries == StoreSpec => AttemptsOnlyByRetry
<1> DEFINE AttemptStep == release'.attempt # release.attempt =>
                            /\ release.status = "ERROR" /\ release'.status = "QUEUED"
                            /\ release'.attempt = release.attempt + 1
<1>1. StoreTypeOK /\ [StoreNext]_storeVars => [AttemptStep]_storeVars
  <2> SUFFICES ASSUME StoreTypeOK, StoreNext PROVE AttemptStep
    OBVIOUS
  <2> QED
    BY StoreStepCases DEF StoreTypeOK
<1> QED
  BY <1>1, StoreTypeCorrect, PTL DEF StoreSpec, AttemptsOnlyByRetry

-----------------------------------------------------------------------------
(***************************************************************************)
(* The running system implements the store.  Its steps only have to call   *)
(* the operations with arguments the store allows: attempts that exist and *)
(* statuses a job may be in.  That is the invariant WellFormed.            *)
(***************************************************************************)
WorkersAreOnAttempts ==
  /\ DOMAIN worker = Workers
  /\ \A w \in Workers : "attempt" \in DOMAIN worker[w] /\ worker[w].attempt \in Attempts

JobIsForAttempt == HasJob => "attempt" \in DOMAIN job /\ job.attempt \in Attempts

WellFormed ==
  /\ StoreTypeOK
  /\ WorkersAreOnAttempts
  /\ JobIsForAttempt
  /\ proc \in [Procs -> ProcStates]

StoreStep == StoreNext \/ UNCHANGED storeVars

LEMMA ZeroIsAnAttempt == 0 \in Attempts
BY StoreAssumption DEF Attempts

\* The store's part of the invariant, for every step that is one of its own.
LEMMA StoreStepIsTyped ==
  ASSUME StoreTypeOK, StoreStep
  PROVE  StoreTypeOK'
<1> USE StoreAssumption DEF StoreTypeOK, Attempts
<1>1. CASE UNCHANGED storeVars
  BY <1>1 DEF storeVars
<1>2. CASE StoreNext
  <2>1. "DRAFT" \in Statuses /\ "QUEUED" \in Statuses
    BY DEF Statuses
  <2> QED
    BY <1>2, <2>1, StoreStepCases
<1> QED
  BY <1>1, <1>2 DEF StoreStep

-----------------------------------------------------------------------------
\* The two ways a processor goes on.
LEMMA WorkerGoesOn ==
  ASSUME WorkersAreOnAttempts, NEW w \in Workers, NEW pc, Continue(w, pc) \/ Leave(w, pc)
  PROVE  WorkersAreOnAttempts'
<1>1. CASE Continue(w, pc)
  BY <1>1 DEF WorkersAreOnAttempts, Continue
<1>2. CASE Leave(w, pc)
  BY <1>2, ZeroIsAnAttempt DEF WorkersAreOnAttempts, Leave, IdleWorker
<1> QED
  BY <1>1, <1>2

\* The gate has three answers.
LEMMA VerdictIsAVerdict ==
  ASSUME NEW w
  PROVE  Verdict(w) \in GateVerdicts
<1>1. ASSUME NEW input PROVE DecideReleaseGate(input) \in GateVerdicts
  BY DEF DecideReleaseGate, GateVerdicts
<1>2. \E input : Verdict(w) = DecideReleaseGate(input)
  BY DEF Verdict, GateOf
<1> QED
  BY <1>1, <1>2

\* A transition a processor asks for is one of the store's.
LEMMA TransitionIsAStoreStep ==
  ASSUME WellFormed, NEW w \in Workers, NEW from \in {"QUEUED", "TESTING", "ANALYZING"},
         NEW to \in Statuses, NEW pc, Transition(w, from, to, pc)
  PROVE  StoreStep /\ WorkersAreOnAttempts' /\ JobIsForAttempt'
<1>1. WorkersAreOnAttempts'
  BY WorkerGoesOn DEF Transition, WellFormed
<1>2. JobIsForAttempt'
  BY DEF Transition, WellFormed, JobIsForAttempt, HasJob, queueVars
<1>3. CASE UNCHANGED storeVars
  BY <1>1, <1>2, <1>3 DEF StoreStep
<1>4. CASE TransitionRelease(from, worker[w].attempt, to)
  <2>1. worker[w].attempt \in Attempts
    BY DEF WellFormed, WorkersAreOnAttempts
  <2>2. <<from, to>> \in TransitionArguments
    BY DEF TransitionArguments, Statuses
  <2>3. \E arguments \in TransitionArguments, attempt \in Attempts :
          TransitionRelease(arguments[1], attempt, arguments[2])
    <3>1. TransitionRelease(<<from, to>>[1], worker[w].attempt, <<from, to>>[2])
      BY <1>4
    <3> QED
      BY <2>1, <2>2, <3>1
  <2> QED
    BY <1>1, <1>2, <2>3 DEF StoreStep, StoreNext
<1> QED
  BY <1>3, <1>4 DEF Transition

\* Every step of a processor.
LEMMA ProcessStep ==
  ASSUME WellFormed, NEW w \in Workers, Process(w)
  PROVE  StoreStep /\ WorkersAreOnAttempts' /\ JobIsForAttempt'
<1> USE DEF WellFormed
<1>1. CASE FetchJob(w)
  BY <1>1 DEF FetchJob, Fetch, StoreStep, WorkersAreOnAttempts, JobIsForAttempt, HasJob,
              IdleWorker
<1>2. CASE Find(w) \/ Start(w) \/ Put(w) \/ CompleteError(w) \/ Complete(w) \/ Summary(w)
             \/ PrepareAndCheck(w)
  <2>1. UNCHANGED storeVars /\ UNCHANGED queueVars
    BY <1>2 DEF Find, Start, Put, CompleteError, Complete, Summary, PrepareAndCheck,
                storeVars, queueVars
  <2>2. JobIsForAttempt'
    BY <2>1 DEF JobIsForAttempt, HasJob, queueVars
  <2>3. WorkersAreOnAttempts'
    <3>1. CASE Find(w)
      BY <3>1, WorkerGoesOn DEF Find
    <3>2. CASE Start(w)
      BY <3>2 DEF Start, WorkersAreOnAttempts
    <3>3. CASE Put(w)
      BY <3>3, WorkerGoesOn DEF Put
    <3>4. CASE CompleteError(w)
      BY <3>4, WorkerGoesOn DEF CompleteError
    <3>5. CASE Complete(w)
      <4>1. CASE RunIsThere(w)
        BY <3>5, <4>1 DEF Complete, WorkersAreOnAttempts
      <4>2. CASE ~RunIsThere(w)
        BY <3>5, <4>2, WorkerGoesOn DEF Complete
      <4> QED
        BY <4>1, <4>2
    <3>6. CASE Summary(w)
      BY <3>6 DEF Summary, WorkersAreOnAttempts
    <3>7. CASE PrepareAndCheck(w)
      <4>1. CASE Leave(w, "throw")
        BY <4>1, WorkerGoesOn
      <4>2. ASSUME NEW results,
                   worker' = [worker EXCEPT ![w].pc = "start", ![w].next = 1,
                                            ![w].results = results]
            PROVE  WorkersAreOnAttempts'
        BY <4>2 DEF WorkersAreOnAttempts
      <4> QED
        BY <3>7, <4>1, <4>2 DEF PrepareAndCheck, RunChecks
    <3> QED
      BY <1>2, <3>1, <3>2, <3>3, <3>4, <3>5, <3>6, <3>7
  <2> QED
    BY <2>1, <2>2, <2>3 DEF StoreStep
<1>3. CASE ToTesting(w)
  BY <1>3, TransitionIsAStoreStep DEF ToTesting, Statuses
<1>4. CASE ToAnalyzing(w)
  BY <1>4, TransitionIsAStoreStep DEF ToAnalyzing, Statuses
<1>5. CASE ToGate(w)
  <2>1. Verdict(w) \in Statuses
    BY VerdictIsAVerdict DEF GateVerdicts, Statuses
  <2> QED
    BY <1>5, <2>1, TransitionIsAStoreStep DEF ToGate
<1>6. CASE Upsert(w)
  <2>1. [attempt |-> worker[w].attempt, outcome |-> Verdict(w)] \in Assessments
    BY ProcessorAssumption, VerdictIsAVerdict DEF WorkersAreOnAttempts
  <2>2. StoreStep
    BY <1>6, <2>1 DEF Upsert, StoreStep, StoreNext
  <2>3. WorkersAreOnAttempts' /\ JobIsForAttempt'
    BY <1>6, WorkerGoesOn DEF Upsert, JobIsForAttempt, HasJob, queueVars
  <2> QED
    BY <2>2, <2>3
<1> QED
  BY <1>1, <1>2, <1>3, <1>4, <1>5, <1>6 DEF Process

-----------------------------------------------------------------------------
\* What is left to show of a step outside the processors: it moves the store
\* as it may, gives the job no attempt that does not exist, and leaves the
\* calls in progress well-formed.
StepsWell == StoreStep /\ JobIsForAttempt' /\ proc' \in [Procs -> ProcStates]

\* A call in progress is always on one of the steps of its table, and ends by
\* way of the lock or at once.
LEMMA CallGoesOn ==
  ASSUME proc \in [Procs -> ProcStates], NEW p \in Procs, NEW pc \in ProcSteps,
         Goto(p, pc) \/ Finish(p) \/ End(p)
  PROVE  proc' \in [Procs -> ProcStates]
<1>1. IdleProc \in ProcStates
  BY ZeroIsAnAttempt DEF IdleProc, ProcStates, Calls, ProcSteps, ProcessingStatuses
<1>2. \A step \in ProcSteps : [proc[p] EXCEPT !.pc = step] \in ProcStates
  BY DEF ProcStates
<1>3. "release" \in ProcSteps
  BY DEF ProcSteps
<1> QED
  BY <1>1, <1>2, <1>3 DEF Goto, Finish, End

LEMMA CallIsWellFormed ==
  ASSUME NEW call \in Calls, NEW pc \in ProcSteps, NEW attempt \in Attempts,
         NEW status \in ProcessingStatuses
  PROVE  Call(call, pc, attempt, status) \in ProcStates
BY DEF Call, ProcStates

LEMMA CallBegins ==
  ASSUME proc \in [Procs -> ProcStates], NEW p \in Procs, NEW state \in ProcStates,
         Begin(p, state)
  PROVE  proc' \in [Procs -> ProcStates]
BY DEF Begin

\* Removing the job or moving it from state to state keeps its attempt.
LEMMA JobKeepsItsAttempt ==
  ASSUME JobIsForAttempt,
         \/ job' = job
         \/ job' = NoJob
         \/ /\ HasJob
            /\ DOMAIN job' = DOMAIN job /\ job'.attempt = job.attempt
  PROVE  JobIsForAttempt'
BY DEF JobIsForAttempt, HasJob

LEMMA EnqueuedForAttempt ==
  ASSUME JobIsForAttempt, NEW attempt \in Attempts, Enqueue(attempt)
  PROVE  JobIsForAttempt'
BY DEF JobIsForAttempt, HasJob, Enqueue, NewJob

-----------------------------------------------------------------------------
\* Submissions, retries and sweeps begin.
LEMMA BeginStep ==
  ASSUME WellFormed, NEW p \in Procs, Submit(p) \/ Retry(p) \/ Reconcile(p) \/ Recover(p)
  PROVE  StepsWell
<1> USE DEF WellFormed
<1>1. release.attempt \in Attempts
  BY DEF StoreTypeOK
<1>2. StoreStep
  BY DEF Submit, Retry, Reconcile, Recover, Sweep, StoreStep, StoreNext
<1>3. JobIsForAttempt'
  BY JobKeepsItsAttempt DEF Submit, Retry, Reconcile, Recover, Sweep, queueVars
<1>4. \E state \in ProcStates : Begin(p, state)
  <2>1. /\ Call("submit", "enqueue", 0, "QUEUED") \in ProcStates
        /\ Call("retry", "acquire", release.attempt, "QUEUED") \in ProcStates
        /\ Call("reconcile", "acquire", release.attempt, "QUEUED") \in ProcStates
        /\ Call("recover", "getJob", release.attempt, "TESTING") \in ProcStates
    BY <1>1, ZeroIsAnAttempt DEF Call, ProcStates, Calls, ProcSteps, ProcessingStatuses
  <2> QED
    BY <2>1 DEF Submit, Retry, Reconcile, Recover, Sweep
<1> QED
  BY <1>2, <1>3, <1>4, CallBegins DEF StepsWell

\* The steps that only talk to the queue or read the row.
LEMMA QueueStep ==
  ASSUME WellFormed, NEW p \in Procs,
         \/ Acquire(p) \/ AcquireTimesOut(p) \/ Release(p) \/ GetState(p)
         \/ RemoveGet(p) \/ RemoveState(p) \/ Remove(p)
  PROVE  StepsWell
<1> USE DEF WellFormed
<1>1. StoreStep
  BY DEF Acquire, AcquireTimesOut, Release, GetState, RemoveGet, RemoveState, Remove, StoreStep
<1>2. JobIsForAttempt'
  BY JobKeepsItsAttempt DEF Acquire, AcquireTimesOut, Release, GetState, RemoveGet,
     RemoveState, Remove, RemoveJob, AcquireLock, ReleaseLock, queueVars
<1>3. \E pc \in ProcSteps : Goto(p, pc) \/ Finish(p) \/ End(p)
  BY DEF Acquire, AcquireTimesOut, Release, GetState, RemoveGet, RemoveState, Remove,
         AfterRemoval, ProcSteps
<1> QED
  BY <1>1, <1>2, <1>3, CallGoesOn DEF StepsWell

LEMMA ReadStep ==
  ASSUME WellFormed, NEW p \in Procs, ReadRow(p) \/ GetJob(p)
  PROVE  StepsWell
<1> USE DEF WellFormed
<1>1. StoreStep
  BY DEF ReadRow, GetJob, StoreStep
<1>2. JobIsForAttempt'
  BY JobKeepsItsAttempt DEF ReadRow, GetJob, queueVars
<1>3. release.attempt \in Attempts /\ proc[p] \in ProcStates
  BY DEF StoreTypeOK
<1>4. CASE ReadRow(p)
  <2>1. CASE Begin(p, Call("retry", "removeGet", release.attempt, "QUEUED"))
    <3>1. Call("retry", "removeGet", release.attempt, "QUEUED") \in ProcStates
      BY <1>3 DEF Call, ProcStates, Calls, ProcSteps, ProcessingStatuses
    <3> QED
      BY <1>1, <1>2, <2>1, <3>1, CallBegins DEF StepsWell
  <2>2. CASE Goto(p, "getJob") \/ End(p)
    BY <1>1, <1>2, <2>2, CallGoesOn DEF StepsWell, ProcSteps
  <2>3. CASE \/ proc' = [proc EXCEPT ![p].pc = "removeGet"]
             \/ /\ release.status \in ProcessingStatuses
                /\ proc' = [proc EXCEPT ![p].pc = "fail", ![p].status = release.status]
    BY <1>1, <1>2, <1>3, <2>3 DEF StepsWell, ProcStates, ProcSteps
  <2> QED
    BY <1>4, <2>1, <2>2, <2>3 DEF ReadRow
<1>5. CASE GetJob(p)
  <2>1. CASE \E pc \in ProcSteps : Goto(p, pc)
    BY <1>1, <1>2, <2>1, CallGoesOn DEF StepsWell
  <2>2. CASE proc' = [proc EXCEPT ![p].pc = "enqueue"]
    BY <1>1, <1>2, <1>3, <2>2 DEF StepsWell, ProcStates, ProcSteps
  <2>3. CASE HasJob /\ proc' = [proc EXCEPT ![p].pc = "getState", ![p].target = job.attempt]
    BY <1>1, <1>2, <1>3, <2>3 DEF StepsWell, ProcStates, ProcSteps, JobIsForAttempt
  <2> QED
    BY <1>5, <2>1, <2>2, <2>3 DEF GetJob, ProcSteps
<1> QED
  BY <1>4, <1>5

\* failRelease, retryRelease and enqueue.
LEMMA FailStep ==
  ASSUME WellFormed, NEW p \in Procs, Fail(p)
  PROVE  StepsWell
<1> USE DEF WellFormed
<1>1. proc[p].attempt \in Attempts /\ proc[p].status \in ProcessingStatuses
  BY DEF ProcStates
<1>2. Failure(p) \in Assessments
  BY <1>1, ProcessorAssumption DEF Failure
<1>3. StoreStep
  BY <1>1, <1>2 DEF Fail, StoreStep, StoreNext
<1>4. JobIsForAttempt'
  BY JobKeepsItsAttempt DEF Fail, queueVars
<1>5. \E pc \in ProcSteps : Goto(p, pc) \/ End(p)
  BY DEF Fail, ProcSteps
<1> QED
  BY <1>3, <1>4, <1>5, CallGoesOn DEF StepsWell

LEMMA RetryStep ==
  ASSUME WellFormed, NEW p \in Procs, RetryRow(p)
  PROVE  StepsWell
<1> USE DEF WellFormed
<1>1. JobIsForAttempt'
  BY JobKeepsItsAttempt DEF RetryRow, queueVars
<1>2. CASE RetryRelease /\ Begin(p, Call("retry", "enqueue", release.attempt + 1, "QUEUED"))
  <2>1. release.attempt + 1 \in Attempts
    BY <1>2, StoreAssumption DEF RetryRelease, StoreTypeOK, Attempts
  <2>2. Call("retry", "enqueue", release.attempt + 1, "QUEUED") \in ProcStates
    BY <2>1 DEF Call, ProcStates, Calls, ProcSteps, ProcessingStatuses
  <2> QED
    BY <1>1, <1>2, <2>2, CallBegins DEF StepsWell, StoreStep, StoreNext
<1>3. CASE End(p) /\ UNCHANGED storeVars
  BY <1>1, <1>3, CallGoesOn DEF StepsWell, StoreStep, ProcSteps
<1> QED
  BY <1>2, <1>3 DEF RetryRow

LEMMA EnqueueStep ==
  ASSUME WellFormed, NEW p \in Procs, EnqueueJob(p) \/ EnqueueThrows(p)
  PROVE  StepsWell
<1> USE DEF WellFormed
<1>1. StoreStep
  BY DEF EnqueueJob, EnqueueThrows, StoreStep, storeVars, databaseVars
<1>2. proc[p].attempt \in Attempts
  BY DEF ProcStates
<1>3. JobIsForAttempt'
  BY <1>2, EnqueuedForAttempt, JobKeepsItsAttempt DEF EnqueueJob, EnqueueThrows, queueVars
<1>4. \E pc \in ProcSteps : Goto(p, pc) \/ End(p)
  BY DEF EnqueueJob, EnqueueThrows, ProcSteps
<1> QED
  BY <1>1, <1>3, <1>4, CallGoesOn DEF StepsWell

-----------------------------------------------------------------------------
\* The worker's events.
LEMMA HandlerStarts ==
  ASSUME WellFormed, HasJob, NEW w \in Workers, NEW made, FailedFor(w, made)
  PROVE  proc' \in [Procs -> ProcStates]
<1>1. job.attempt \in Attempts /\ <<"settle", w>> \in Procs
  BY DEF WellFormed, JobIsForAttempt, Procs
<1>2. Call("exhausted", "acquire", job.attempt, "QUEUED") \in ProcStates
  BY <1>1 DEF Call, ProcStates, Calls, ProcSteps, ProcessingStatuses
<1> QED
  BY <1>1, <1>2, CallBegins DEF FailedFor, WellFormed

LEMMA ReportStep ==
  ASSUME WellFormed, NEW w \in Workers, Report(w)
  PROVE  StepsWell
<1> USE DEF WellFormed
<1>1. StoreStep
  BY DEF Report, StoreStep
<1>2. JobIsForAttempt'
  <2>1. CASE Completed(w)
    BY <2>1, JobKeepsItsAttempt DEF Completed, CompleteJob, Owns, JobIsForAttempt
  <2>2. CASE Failed(w)
    BY <2>2, JobKeepsItsAttempt DEF Failed, FailJob, Owns, JobIsForAttempt
  <2>3. CASE Disowned(w)
    BY <2>3, JobKeepsItsAttempt DEF Disowned, queueVars
  <2> QED
    BY <2>1, <2>2, <2>3 DEF Report
<1>3. proc' \in [Procs -> ProcStates]
  <2>1. CASE Completed(w)
    <3>1. job.attempt \in Attempts /\ <<"settle", w>> \in Procs
      BY <2>1 DEF Completed, CompleteJob, Owns, JobIsForAttempt, Procs
    <3>2. Call("completed", "removeGet", job.attempt, "QUEUED") \in ProcStates
      BY <3>1 DEF Call, ProcStates, Calls, ProcSteps, ProcessingStatuses
    <3> QED
      BY <2>1, <3>1, <3>2, CallBegins DEF Completed
  <2>2. CASE Failed(w)
    BY <2>2, HandlerStarts DEF Failed, FailJob, Owns
  <2>3. CASE Disowned(w)
    BY <2>3 DEF Disowned
  <2> QED
    BY <2>1, <2>2, <2>3 DEF Report
<1> QED
  BY <1>1, <1>2, <1>3 DEF StepsWell

LEMMA StalledStep ==
  ASSUME WellFormed, NEW w \in Workers, CheckStalled(w)
  PROVE  StepsWell
<1> USE DEF WellFormed
<1>1. StoreStep
  BY DEF CheckStalled, StoreStep
<1>2. CASE RequeueStalled /\ UNCHANGED proc
  <2>1. JobIsForAttempt'
    BY <1>2, JobKeepsItsAttempt DEF RequeueStalled, Stalled
  <2> QED
    BY <1>1, <1>2, <2>1 DEF StepsWell
<1>3. ASSUME NEW counted \in {0, 1}, FailStalled(counted), FailedFor(w, job.made + counted)
      PROVE  StepsWell
  <2>1. JobIsForAttempt'
    BY <1>3, JobKeepsItsAttempt DEF FailStalled, Stalled
  <2>2. proc' \in [Procs -> ProcStates]
    BY <1>3, HandlerStarts DEF FailStalled, Stalled
  <2> QED
    BY <1>1, <2>1, <2>2 DEF StepsWell
<1> QED
  BY <1>2, <1>3 DEF CheckStalled

LEMMA TimerStep ==
  ASSUME WellFormed, Promote \/ ExpireOrphan
  PROVE  StepsWell
<1> USE DEF WellFormed
<1>1. CASE Promote
  BY <1>1, JobKeepsItsAttempt DEF Promote, PromoteDelayed, StepsWell, StoreStep
<1>2. CASE ExpireOrphan
  BY <1>2, JobKeepsItsAttempt DEF ExpireOrphan, ExpireOrphanedLock, StepsWell, StoreStep
<1> QED
  BY <1>1, <1>2

-----------------------------------------------------------------------------
\* The faults, but for those of a processor and of enqueue.
LEMMA FaultStep ==
  ASSUME WellFormed,
         \/ \E w \in Workers : CrashWorker(w) \/ LoseJobLock(w)
         \/ \E p \in Procs : CrashRequest(p) \/ CallThrows(p)
         \/ LoseReleaseLock \/ LoseRedis
  PROVE  StepsWell
<1> USE DEF WellFormed
<1>1. StoreStep
  BY DEF CrashWorker, LoseJobLock, CrashRequest, CallThrows, LoseReleaseLock, LoseRedis,
         StoreStep, storeVars, databaseVars
<1>2. JobIsForAttempt'
  <2>1. ASSUME NEW w \in Workers, CrashWorker(w) \/ LoseJobLock(w)
        PROVE  job' = job \/ (HasJob /\ job' = [job EXCEPT !.owner = NoWorker])
    BY <2>1 DEF CrashWorker, LoseJobLock, LoseJob, Owns
  <2>2. CASE job' = job \/ (HasJob /\ job' = [job EXCEPT !.owner = NoWorker])
    BY <2>2, JobKeepsItsAttempt DEF JobIsForAttempt
  <2>3. ASSUME NEW p \in Procs, CrashRequest(p) \/ CallThrows(p) PROVE job' = job
    BY <2>3 DEF CrashRequest, CallThrows
  <2>4. CASE LoseReleaseLock \/ LoseRedis
    BY <2>4, JobKeepsItsAttempt DEF LoseReleaseLock, ExpireHeldLock, LoseRedis
  <2> QED
    BY <2>1, <2>2, <2>3, <2>4
<1>3. proc' \in [Procs -> ProcStates]
  <2>1. ASSUME NEW w \in Workers, CrashWorker(w) PROVE proc' \in [Procs -> ProcStates]
    <3>1. IdleProc \in ProcStates
      BY ZeroIsAnAttempt DEF IdleProc, ProcStates, Calls, ProcSteps, ProcessingStatuses
    <3> QED
      BY <2>1, <3>1 DEF CrashWorker
  <2>2. ASSUME NEW p \in Procs, CrashRequest(p) \/ CallThrows(p)
        PROVE  proc' \in [Procs -> ProcStates]
    <3>1. Finish(p) \/ End(p)
      BY <2>2 DEF CrashRequest, CallThrows
    <3>2. "idle" \in ProcSteps
      BY DEF ProcSteps
    <3> QED
      BY <3>1, <3>2, CallGoesOn
  <2>3. CASE LoseReleaseLock \/ LoseRedis \/ \E w \in Workers : LoseJobLock(w)
    BY <2>3 DEF LoseReleaseLock, LoseRedis, LoseJobLock
  <2> QED
    BY <2>1, <2>2, <2>3
<1> QED
  BY <1>1, <1>2, <1>3 DEF StepsWell

\* Every step outside the processors leaves the workers alone, stops one or
\* lets one go on.
LEMMA WorkersStayOnAttempts ==
  ASSUME WellFormed,
         \/ UNCHANGED worker
         \/ \E w \in Workers, pc \in WorkerSteps : Continue(w, pc) \/ Leave(w, pc)
         \/ \E w \in Workers : worker' = [worker EXCEPT ![w] = IdleWorker]
  PROVE  WorkersAreOnAttempts'
<1> USE DEF WellFormed
<1>1. CASE UNCHANGED worker
  BY <1>1 DEF WorkersAreOnAttempts
<1>2. CASE \E w \in Workers, pc \in WorkerSteps : Continue(w, pc) \/ Leave(w, pc)
  BY <1>2, WorkerGoesOn
<1>3. CASE \E w \in Workers : worker' = [worker EXCEPT ![w] = IdleWorker]
  BY <1>3, ZeroIsAnAttempt DEF WorkersAreOnAttempts, IdleWorker
<1> QED
  BY <1>1, <1>2, <1>3

LEMMA WorkerThrowsStep ==
  ASSUME WellFormed, NEW w \in Workers, WorkerThrows(w)
  PROVE  StepsWell /\ WorkersAreOnAttempts'
<1> USE DEF WellFormed
<1>1. UNCHANGED <<storeVars, queueVars, proc>>
  BY DEF WorkerThrows, StepThrows, PutFails
<1>2. StepsWell
  BY <1>1, JobKeepsItsAttempt DEF StepsWell, StoreStep, queueVars
<1>3. WorkersAreOnAttempts'
  BY WorkerGoesOn DEF WorkerThrows, StepThrows, PutFails
<1> QED
  BY <1>2, <1>3

-----------------------------------------------------------------------------
\* Every step is one of the store's, or none of its business.
LEMMA NextStep ==
  ASSUME WellFormed, [Next]_vars
  PROVE  WellFormed' /\ StoreStep
<1> USE DEF WellFormed
<1>1. SUFFICES StoreStep /\ WorkersAreOnAttempts' /\ JobIsForAttempt'
               /\ proc' \in [Procs -> ProcStates]
  BY StoreStepIsTyped
<1>2. CASE UNCHANGED vars
  BY <1>2, JobKeepsItsAttempt DEF vars, StoreStep, storeVars, WorkersAreOnAttempts
<1>3. ASSUME NEW w \in Workers, Work(w)
      PROVE  StoreStep /\ WorkersAreOnAttempts' /\ JobIsForAttempt'
             /\ proc' \in [Procs -> ProcStates]
  <2>1. CASE Report(w)
    <3>1. WorkersAreOnAttempts'
      BY <2>1, WorkerGoesOn DEF Report
    <3> QED
      BY <2>1, <3>1, ReportStep DEF StepsWell
  <2>2. CASE Process(w) /\ UNCHANGED <<proc, budget>>
    BY <2>2, ProcessStep
  <2> QED
    BY <1>3, <2>1, <2>2 DEF Work
<1>4. ASSUME NEW p \in Procs, Submit(p) \/ Retry(p) \/ Advance(p) \/ EnqueueThrows(p)
      PROVE  StoreStep /\ WorkersAreOnAttempts' /\ JobIsForAttempt'
             /\ proc' \in [Procs -> ProcStates]
  <2>1. UNCHANGED worker
    BY <1>4 DEF Submit, Retry, Advance, EnqueueThrows, Reconcile, Recover, Sweep, Step,
       Acquire, AcquireTimesOut, Release, ReadRow, Fail, GetJob, GetState, RemoveGet,
       RemoveState, Remove, RetryRow, EnqueueJob, ElsewhereUnchanged
  <2>2. StepsWell
    BY <1>4, BeginStep, QueueStep, ReadStep, FailStep, RetryStep, EnqueueStep
    DEF Advance, Step
  <2> QED
    BY <2>1, <2>2, WorkersStayOnAttempts DEF StepsWell
<1>5. CASE BullMQ \/ ExpireOrphan
  <2>1. UNCHANGED worker
    BY <1>5 DEF BullMQ, ExpireOrphan, Promote, CheckStalled, ElsewhereUnchanged
  <2>2. StepsWell
    BY <1>5, TimerStep, StalledStep DEF BullMQ
  <2> QED
    BY <2>1, <2>2, WorkersStayOnAttempts DEF StepsWell
<1>6. CASE \/ \E w \in Workers : CrashWorker(w) \/ LoseJobLock(w)
           \/ \E p \in Procs : CrashRequest(p) \/ CallThrows(p)
           \/ LoseReleaseLock \/ LoseRedis
  <2>1. \/ UNCHANGED worker
        \/ \E w \in Workers : worker' = [worker EXCEPT ![w] = IdleWorker]
    BY <1>6 DEF CrashWorker, LoseJobLock, CrashRequest, CallThrows, LoseReleaseLock, LoseRedis
  <2>2. StepsWell
    BY <1>6, FaultStep
  <2> QED
    BY <2>1, <2>2, WorkersStayOnAttempts DEF StepsWell
<1>7. ASSUME NEW w \in Workers, WorkerThrows(w)
      PROVE  StoreStep /\ WorkersAreOnAttempts' /\ JobIsForAttempt'
             /\ proc' \in [Procs -> ProcStates]
  BY <1>7, WorkerThrowsStep DEF StepsWell
<1> QED
  BY <1>2, <1>3, <1>4, <1>5, <1>6, <1>7 DEF Next, Fault

\* The running system implements ReleaseStore: however requests, workers,
\* handlers and sweeps interleave, crash and repeat themselves, the release
\* and its assessment change only as the repositories allow.
THEOREM MeshImplementsStore == Spec => StoreSpec
<1>1. Init => StoreInit /\ WellFormed
  <2> SUFFICES ASSUME Init PROVE StoreInit /\ WellFormed
    OBVIOUS
  <2>1. StoreInit /\ StoreTypeOK
    BY ZeroIsAnAttempt DEF Init, StoreInit, StoreTypeOK
  <2>2. WorkersAreOnAttempts
    BY ZeroIsAnAttempt DEF Init, ProcessorInit, WorkersAreOnAttempts, IdleWorker
  <2>3. JobIsForAttempt
    BY DEF Init, QueueInit, JobIsForAttempt, HasJob
  <2>4. IdleProc \in ProcStates
    BY ZeroIsAnAttempt DEF IdleProc, ProcStates, Calls, ProcSteps, ProcessingStatuses
  <2> QED
    BY <2>1, <2>2, <2>3, <2>4 DEF WellFormed, Init
<1>2. WellFormed /\ [Next]_vars => WellFormed' /\ [StoreNext]_storeVars
  BY NextStep DEF StoreStep
<1> QED
  BY <1>1, <1>2, PTL DEF Spec, StoreSpec

\* In the running system, too, a verdict is final: no zombie worker, late
\* retry, sweep or repeated job ever moves a SAFE or BLOCKED release.
THEOREM MeshVerdictsAreFinal == Spec => VerdictIsFinal
BY MeshImplementsStore, VerdictsAreFinal, PTL

\* And the attempt counts the retries, whatever the queue repeats.
THEOREM MeshAttemptsCountRetries == Spec => AttemptsOnlyByRetry
BY MeshImplementsStore, AttemptsCountRetries, PTL

-----------------------------------------------------------------------------
(***************************************************************************)
(* Types.  A worker counts up to the result it persists, and only a job    *)
(* with attempts left is pending: without these two a row would be written *)
(* for no test, and a job would be tried more often than its option says.  *)
(***************************************************************************)
NeedsRow(w) == worker[w].pc \in {"start", "put", "complete", "completeError"}

WorkersAreTyped ==
  /\ worker \in [Workers -> WorkerStates]
  /\ \A w \in Workers : NeedsRow(w) => worker[w].next \in DOMAIN worker[w].results

RunsAreTyped == runs \in [Keys -> Runs \cup {NoRun}] /\ breaking \in BOOLEAN

JobIsTyped ==
  /\ job \in Jobs(Attempts) \cup {NoJob}
  /\ JobIsPending => job.made < JobAttempts

LockIsTyped == lock \in Procs \cup {Free, Orphan}

BudgetIsTyped == budget \in [FaultKinds -> Nat]

TypeInv ==
  /\ StoreTypeOK
  /\ RunsAreTyped /\ WorkersAreTyped
  /\ JobIsTyped /\ LockIsTyped
  /\ proc \in [Procs -> ProcStates]
  /\ BudgetIsTyped

LEMMA TypedIsWellFormed ==
  ASSUME TypeInv
  PROVE  WellFormed
<1>1. WorkersAreOnAttempts
  BY DEF TypeInv, WorkersAreTyped, WorkersAreOnAttempts, WorkerStates
<1>2. JobIsForAttempt
  BY DEF TypeInv, JobIsTyped, JobIsForAttempt, Jobs, HasJob
<1> QED
  BY <1>1, <1>2 DEF TypeInv, WellFormed

\* What the steps outside the processors do to the evidence and to the
\* workers: nothing, or they end a job, or make one report an ERROR run.
StopsWorker(w) ==
  \/ Leave(w, "idle")
  \/ worker[w].pc \notin {"idle", "throw"} /\ Leave(w, "throw")
  \/ At(w, "put") /\ Continue(w, "completeError")

Outside ==
  /\ UNCHANGED <<breaking, runs>>
  /\ UNCHANGED worker \/ \E w \in Workers : StopsWorker(w)

LEMMA StepsApart ==
  ASSUME [Next]_vars
  PROVE  \/ Outside
         \/ \E w \in Workers : Process(w) /\ UNCHANGED <<proc, budget>>
<1>1. CASE UNCHANGED vars
  BY <1>1 DEF vars, Outside
<1>2. ASSUME NEW w \in Workers, Report(w) PROVE Outside
  BY <1>2 DEF Report, Outside, StopsWorker, EvidenceUnchanged
<1>3. ASSUME NEW p \in Procs, Submit(p) \/ Retry(p) \/ Advance(p) \/ EnqueueThrows(p)
      PROVE  UNCHANGED <<breaking, runs, worker>>
  BY <1>3 DEF Submit, Retry, Advance, EnqueueThrows, Reconcile, Recover, Sweep, Step,
     Acquire, AcquireTimesOut, Release, ReadRow, Fail, GetJob, GetState, RemoveGet,
     RemoveState, Remove, RetryRow, EnqueueJob, ElsewhereUnchanged, databaseVars
<1>4. CASE BullMQ \/ ExpireOrphan
  BY <1>4 DEF BullMQ, ExpireOrphan, Promote, CheckStalled, ElsewhereUnchanged, Outside
<1>5. ASSUME NEW w \in Workers, CrashWorker(w) PROVE Outside
  BY <1>5 DEF CrashWorker, databaseVars, Outside, StopsWorker, Leave, IdleWorker
<1>6. ASSUME NEW w \in Workers, WorkerThrows(w) PROVE Outside
  BY <1>6 DEF WorkerThrows, StepThrows, PutFails, EvidenceUnchanged, Outside, StopsWorker
<1>7. CASE \/ \E w \in Workers : LoseJobLock(w)
           \/ \E p \in Procs : CrashRequest(p) \/ CallThrows(p)
           \/ LoseReleaseLock \/ LoseRedis
  BY <1>7 DEF LoseJobLock, CrashRequest, CallThrows, LoseReleaseLock, LoseRedis,
     databaseVars, Outside
<1> QED
  BY <1>1, <1>2, <1>3, <1>4, <1>5, <1>6, <1>7 DEF Next, Fault, Work, Outside

-----------------------------------------------------------------------------
\* The worker's record.
LEMMA IdleIsTyped == \A pc \in WorkerSteps : [IdleWorker EXCEPT !.pc = pc] \in WorkerStates
<1>1. <<>> \in Seq(Results)
  OBVIOUS
<1> QED
  BY <1>1, ZeroIsAnAttempt DEF IdleWorker, WorkerStates

LEMMA GoingOnIsTyped ==
  ASSUME WorkersAreTyped, NEW w \in Workers, NEW pc \in WorkerSteps,
         \/ Leave(w, pc) /\ pc \in {"idle", "return", "throw"}
         \/ Continue(w, pc) /\ (NeedsRow(w) \/ pc \notin {"start", "put", "complete", "completeError"})
  PROVE  WorkersAreTyped'
<1>1. CASE Leave(w, pc) /\ pc \in {"idle", "return", "throw"}
  <2>1. worker' = [worker EXCEPT ![w] = [IdleWorker EXCEPT !.pc = pc]]
    BY <1>1 DEF Leave
  <2>2. [IdleWorker EXCEPT !.pc = pc] \in WorkerStates
    BY IdleIsTyped
  <2>3. [IdleWorker EXCEPT !.pc = pc].pc = pc
    BY DEF IdleWorker
  <2> QED
    BY <1>1, <2>1, <2>2, <2>3 DEF WorkersAreTyped, NeedsRow
<1>2. CASE /\ Continue(w, pc)
           /\ NeedsRow(w) \/ pc \notin {"start", "put", "complete", "completeError"}
  BY <1>2 DEF Continue, WorkersAreTyped, WorkerStates, NeedsRow
<1> QED
  BY <1>1, <1>2

LEMMA OutsideIsTyped ==
  ASSUME WorkersAreTyped, RunsAreTyped, Outside
  PROVE  WorkersAreTyped' /\ RunsAreTyped'
<1>1. RunsAreTyped'
  BY DEF Outside, RunsAreTyped
<1>2. CASE UNCHANGED worker
  BY <1>1, <1>2 DEF WorkersAreTyped, NeedsRow
<1>3. ASSUME NEW w \in Workers, StopsWorker(w) PROVE WorkersAreTyped'
  <2>1. {"idle", "throw", "completeError"} \subseteq WorkerSteps
    BY DEF WorkerSteps
  <2>2. At(w, "put") => NeedsRow(w)
    BY DEF At, NeedsRow
  <2> QED
    BY <1>3, <2>1, <2>2, GoingOnIsTyped DEF StopsWorker
<1> QED
  BY <1>1, <1>2, <1>3 DEF Outside

-----------------------------------------------------------------------------
\* There is always an id that no row and no worker has.
LEMMA KeysAreFinite == IsFiniteSet(Keys) /\ IsFiniteSet(Workers)
<1>1. IsFiniteSet(Attempts)
  BY StoreAssumption, FS_Interval DEF Attempts
<1>2. IsFiniteSet(TestIds)
  BY RegistryAssumption, RangeIsFinite
<1> QED
  BY <1>1, <1>2, FS_Product, QueueAssumption DEF Keys

LEMMA ImageIsNoLarger ==
  ASSUME NEW S, IsFiniteSet(S), NEW f, DOMAIN f = S, f \in [S -> Range(f)]
  PROVE  IsFiniteSet(Range(f)) /\ Cardinality(Range(f)) <= Cardinality(S)
<1>1. \A y \in Range(f) : \E x \in S : f[x] = y
  BY DEF Range
<1>2. f \in Surjection(S, Range(f))
  BY <1>1 DEF Surjection
<1> QED
  BY <1>2, FS_Surjection

LEMMA FreshRunIsFresh ==
  ASSUME TypeInv, NEW key \in Keys, runs[key] = NoRun
  PROVE  FreshRun \in RunIds
<1> DEFINE held == {worker[w].run : w \in Workers}
           rows == {k \in Keys : runs[k] # NoRun}
           kept == {runs[k].id : k \in rows}
           fresh == RunIds \ (held \cup kept)
<1>1. IsFiniteSet(held) /\ Cardinality(held) <= Cardinality(Workers)
  <2> DEFINE f == [w \in Workers |-> worker[w].run]
  <2>1. Range(f) = held
    BY DEF Range
  <2>2. DOMAIN f = Workers /\ f \in [Workers -> Range(f)]
    BY DEF Range
  <2> QED
    BY <2>1, <2>2, KeysAreFinite, ImageIsNoLarger
<1>2. IsFiniteSet(rows) /\ Cardinality(rows) < Cardinality(Keys)
  <2>1. rows \in SUBSET Keys /\ rows # Keys
    OBVIOUS
  <2>2. /\ IsFiniteSet(rows) /\ Cardinality(rows) <= Cardinality(Keys)
        /\ Cardinality(rows) # Cardinality(Keys)
    BY <2>1, KeysAreFinite, FS_Subset
  <2>3. Cardinality(rows) \in Nat /\ Cardinality(Keys) \in Nat
    BY <2>2, KeysAreFinite, FS_CardinalityType
  <2> QED
    BY <2>2, <2>3
<1>3. IsFiniteSet(kept) /\ Cardinality(kept) <= Cardinality(rows)
  <2> DEFINE f == [k \in rows |-> runs[k].id]
  <2>1. Range(f) = kept
    BY DEF Range
  <2>2. DOMAIN f = rows /\ f \in [rows -> Range(f)]
    BY DEF Range
  <2> QED
    BY <1>2, <2>1, <2>2, ImageIsNoLarger
<1>4. /\ Cardinality(held) \in Nat /\ Cardinality(rows) \in Nat /\ Cardinality(kept) \in Nat
      /\ Cardinality(Workers) \in Nat /\ Cardinality(Keys) \in Nat
  BY <1>1, <1>2, <1>3, KeysAreFinite, FS_CardinalityType
<1> HIDE DEF held, kept
<1>5. IsFiniteSet(held \cup kept) /\ Cardinality(held \cup kept) \in Nat
      /\ Cardinality(held \cup kept) <= Cardinality(held) + Cardinality(kept)
  <2>1. IsFiniteSet(held \cup kept) /\ IsFiniteSet(held \cap kept)
    BY <1>1, <1>3, FS_Union, FS_Intersection
  <2>2. Cardinality(held \cup kept)
          = Cardinality(held) + Cardinality(kept) - Cardinality(held \cap kept)
    BY <1>1, <1>3, FS_Union
  <2>3. Cardinality(held \cap kept) \in Nat /\ Cardinality(held \cup kept) \in Nat
    BY <2>1, FS_CardinalityType
  <2> QED
    BY <1>4, <2>1, <2>2, <2>3
<1>6. IsFiniteSet(RunIds) /\ Cardinality(RunIds) = Cardinality(Keys) + Cardinality(Workers)
  BY <1>4, FirstNumbers DEF RunIds
<1>7. fresh # {}
  <2>1. SUFFICES ASSUME RunIds \subseteq held \cup kept PROVE FALSE
    OBVIOUS
  <2>2. Cardinality(RunIds) <= Cardinality(held \cup kept)
    BY <1>5, <2>1, FS_Subset
  <2> QED
    BY <1>1, <1>2, <1>3, <1>4, <1>5, <1>6, <2>2
<1>8. fresh \in SUBSET Nat
  BY <1>4 DEF RunIds
<1>9. \E id \in fresh : \A other \in fresh : id <= other
  <2> HIDE DEF fresh
  <2> QED
    BY <1>7, <1>8, LeastElement
<1>10. FreshRun = CHOOSE id \in fresh : \A other \in fresh : id <= other
  BY DEF FreshRun, held, kept
<1> HIDE DEF fresh
<1>11. FreshRun \in fresh
  BY <1>9, <1>10
<1> QED
  BY <1>11 DEF fresh

-----------------------------------------------------------------------------
\* A list of results, given by its length.
LEMMA ListOfResults ==
  ASSUME NEW n \in Nat, NEW results, DOMAIN results = 1 .. n,
         results = [i \in 1 .. n |-> results[i]],
         \A i \in 1 .. n : results[i] \in Results
  PROVE  results \in Seq(Results) /\ Len(results) = n
<1>1. results \in [1 .. n -> Results]
  OBVIOUS
<1> QED
  BY <1>1

LEMMA SummaryIsTyped ==
  ASSUME NEW attempt
  PROVE  AttemptSummary(attempt) \in Seq(Results)
<1> DEFINE ran == Among(Registry, {id \in TestIds : runs[<<attempt, id>>] # NoRun})
           found == [i \in DOMAIN ran |-> SummaryOf(ran[i], runs[<<attempt, ran[i]>>])]
<1>1. ran \in Seq(TestIds)
  BY AmongPlaces, RegistryAssumption
<1> HIDE DEF ran
<1>2. DOMAIN ran = 1 .. Len(ran) /\ Len(ran) \in Nat /\ \A i \in 1 .. Len(ran) : ran[i] \in TestIds
  BY <1>1
<1>3. ASSUME NEW i \in 1 .. Len(ran) PROVE found[i] \in Results
  <2>1. \A id \in TestIds : \A run : SummaryOf(id, run) \in Results
    BY DEF SummaryOf, Result, Results, TestStatuses
  <2> QED
    BY <1>2, <2>1
<1>4. DOMAIN found = 1 .. Len(ran) /\ found = [i \in 1 .. Len(ran) |-> found[i]]
  BY <1>2
<1>5. AttemptSummary(attempt) = found
  BY DEF AttemptSummary, ran
<1> HIDE DEF found
<1> QED
  BY <1>2, <1>3, <1>4, <1>5, ListOfResults

LEMMA OutcomesAreResults ==
  ASSUME breaking \in BOOLEAN, NEW id \in TestIds, NEW result \in Outcomes(id)
  PROVE  result \in Results /\ result.id = id /\ result.hasArtifact
<1>1. \A status \in TestStatuses, incompatible \in BOOLEAN :
        LET some == Result(id, status, TRUE, incompatible) IN
        some \in Results /\ some.id = id /\ some.hasArtifact
  BY DEF Result, Results
<1>2. \E status \in TestStatuses, incompatible \in BOOLEAN :
        result = Result(id, status, TRUE, incompatible)
  <2>1. CASE id = ContractTest
    <3>1. result = Result(id, IF breaking THEN "FAILED" ELSE "PASSED", TRUE, breaking)
      BY <2>1 DEF Outcomes, CheckOutcomes
    <3> QED
      BY <3>1 DEF TestStatuses
  <2>2. CASE id # ContractTest
    BY <2>2 DEF Outcomes, CheckOutcomes
  <2> QED
    BY <2>1, <2>2
<1> QED
  BY <1>1, <1>2

\* The checks give a result for every selected test, and there is one.
LEMMA ChecksAreTyped ==
  ASSUME breaking \in BOOLEAN, NEW answer, NEW results,
         DOMAIN results = DOMAIN SelectTrustedTests(answer),
         results = [i \in DOMAIN results |-> results[i]],
         \A i \in DOMAIN SelectTrustedTests(answer) :
           results[i] \in Outcomes(SelectTrustedTests(answer)[i])
  PROVE  /\ results \in Seq(Results)
         /\ DOMAIN results = 1 .. Len(results) /\ 1 \in DOMAIN results
         /\ \A i \in DOMAIN results :
              results[i].id = SelectTrustedTests(answer)[i] /\ results[i].hasArtifact
<1> DEFINE selection == SelectTrustedTests(answer)
<1>1. selection \in Seq(TestIds) /\ Mandatory \subseteq Range(selection)
  BY SelectionIsSound
<1>2. DOMAIN selection = 1 .. Len(selection) /\ Len(selection) \in Nat
      /\ \A i \in 1 .. Len(selection) : selection[i] \in TestIds
  BY <1>1
<1>3. 1 \in DOMAIN selection
  <2>1. \E i : i \in DOMAIN selection
    BY <1>1, RegistryAssumption DEF Range
  <2> QED
    BY <1>2, <2>1
<1> HIDE DEF selection
<1>4. \A i \in 1 .. Len(selection) :
        results[i] \in Results /\ results[i].id = selection[i] /\ results[i].hasArtifact
  BY <1>2, OutcomesAreResults DEF selection
<1>5. DOMAIN results = 1 .. Len(selection)
  BY <1>2 DEF selection
<1>6. results \in Seq(Results) /\ Len(results) = Len(selection)
  BY <1>2, <1>4, <1>5, ListOfResults
<1> QED
  BY <1>2, <1>3, <1>4, <1>5, <1>6 DEF selection

\* What a processor is about to persist.
LEMMA CurrentIsTyped ==
  ASSUME WorkersAreTyped, NEW w \in Workers, NeedsRow(w)
  PROVE  /\ worker[w].results \in Seq(Results)
         /\ worker[w].next \in 1 .. Len(worker[w].results)
         /\ worker[w].attempt \in Attempts
         /\ CurrentResult(w) \in Results
         /\ RunKey(w) \in Keys
<1>1. worker[w] \in WorkerStates /\ worker[w].next \in DOMAIN worker[w].results
  BY DEF WorkersAreTyped
<1>2. worker[w].results \in Seq(Results) /\ worker[w].attempt \in Attempts
  BY <1>1 DEF WorkerStates
<1>3. CurrentResult(w) \in Results
  BY <1>1, <1>2, ElementsOf DEF CurrentResult
<1>4. RunKey(w) \in Keys
  BY <1>2, <1>3 DEF RunKey, Keys, Results
<1> QED
  BY <1>1, <1>2, <1>3, <1>4

LEMMA ProcessIsTyped ==
  ASSUME TypeInv, NEW w \in Workers, Process(w)
  PROVE  WorkersAreTyped' /\ RunsAreTyped'
<1> USE DEF TypeInv
<1>1. worker \in [Workers -> WorkerStates] /\ worker[w] \in WorkerStates
  BY DEF WorkersAreTyped
<1>2. WorkerSteps = {"idle", "find", "toTesting", "prepare", "start", "put", "complete",
        "completeError", "toAnalyzing", "summary", "upsert", "toGate", "return", "throw"}
  BY DEF WorkerSteps
<1>3. CASE FetchJob(w)
  <2>1. job.attempt \in Attempts
    BY <1>3 DEF FetchJob, Fetch, HasJob, JobIsTyped, Jobs
  <2>2. [IdleWorker EXCEPT !.pc = "find", !.attempt = job.attempt] \in WorkerStates
    <3>1. [IdleWorker EXCEPT !.pc = "find"] \in WorkerStates
      BY IdleIsTyped, <1>2
    <3> QED
      BY <2>1, <3>1 DEF WorkerStates, IdleWorker
  <2> QED
    BY <1>3, <2>2 DEF FetchJob, IdleWorker, EvidenceUnchanged, RunsAreTyped, WorkersAreTyped,
       NeedsRow
<1>4. CASE Find(w)
  <2>1. \E pc \in {"toTesting", "prepare", "summary"} : Continue(w, pc) \/ Leave(w, "throw")
    BY <1>4 DEF Find, ProcessingStatuses
  <2> QED
    BY <1>2, <1>4, <2>1, GoingOnIsTyped DEF Find, EvidenceUnchanged, RunsAreTyped
<1>5. ASSUME NEW from, NEW to, NEW pc \in {"prepare", "upsert", "return"},
             Transition(w, from, to, pc)
      PROVE  WorkersAreTyped' /\ RunsAreTyped'
  <2>1. Leave(w, "return") \/ Leave(w, "throw") \/ (Continue(w, pc) /\ pc # "return")
    BY <1>5 DEF Transition
  <2> QED
    BY <1>2, <1>5, <2>1, GoingOnIsTyped DEF Transition, EvidenceUnchanged, RunsAreTyped
<1>6. CASE PrepareAndCheck(w)
  <2>1. RunsAreTyped'
    BY <1>6 DEF PrepareAndCheck, RunsAreTyped
  <2>2. CASE Leave(w, "throw")
    BY <1>2, <2>1, <2>2, GoingOnIsTyped
  <2>3. ASSUME NEW answer, NEW results \in [DOMAIN SelectTrustedTests(answer) ->
                                              UNION {Outcomes(id) : id \in TestIds}],
               \A i \in DOMAIN SelectTrustedTests(answer) :
                 results[i] \in Outcomes(SelectTrustedTests(answer)[i]),
               worker' = [worker EXCEPT ![w].pc = "start", ![w].next = 1,
                                        ![w].results = results]
        PROVE  WorkersAreTyped'
    <3>1. results \in Seq(Results) /\ 1 \in DOMAIN results
      <4>1. DOMAIN results = DOMAIN SelectTrustedTests(answer)
            /\ results = [i \in DOMAIN results |-> results[i]]
        OBVIOUS
      <4> QED
        BY <2>3, <4>1, ChecksAreTyped DEF RunsAreTyped
    <3> QED
      BY <1>1, <1>2, <2>3, <3>1 DEF WorkersAreTyped, WorkerStates, NeedsRow
  <2> QED
    BY <1>6, <2>1, <2>2, <2>3 DEF PrepareAndCheck, RunChecks
<1>7. CASE Start(w)
  <2>1. NeedsRow(w) /\ RunKey(w) \in Keys
    BY <1>7, CurrentIsTyped DEF Start, At, NeedsRow
  <2> DEFINE key == RunKey(w)
             id == IF runs[key] = NoRun THEN FreshRun ELSE runs[key].id
  <2>2. id \in RunIds
    BY <2>1, FreshRunIsFresh DEF RunsAreTyped, Runs
  <2>3. /\ runs' = [runs EXCEPT ![key] = [id |-> id, status |-> "RUNNING", artifact |-> "none"]]
        /\ worker' = [worker EXCEPT ![w].pc = "put", ![w].run = id]
        /\ breaking' = breaking
    BY <1>7 DEF Start
  <2> HIDE DEF id, key
  <2>4. RunsAreTyped'
    BY <2>2, <2>3 DEF RunsAreTyped, Runs
  <2>5. WorkersAreTyped'
    BY <1>1, <1>2, <2>1, <2>2, <2>3 DEF WorkersAreTyped, WorkerStates, NeedsRow
  <2> QED
    BY <2>4, <2>5
<1>8. CASE Put(w)
  <2>1. NeedsRow(w) /\ RunKey(w) \in Keys
    BY <1>8, CurrentIsTyped DEF Put, At, NeedsRow
  <2>2. RunsAreTyped'
    <3>1. ArtifactOf(CurrentResult(w)) \in {"none", "compatible", "incompatible"}
      BY DEF ArtifactOf
    <3> QED
      BY <1>8, <2>1, <3>1 DEF Put, RunIsThere, RunsAreTyped, Runs
  <2> QED
    BY <1>2, <1>8, <2>1, <2>2, GoingOnIsTyped DEF Put
<1>9. CASE CompleteError(w)
  <2>1. NeedsRow(w) /\ RunKey(w) \in Keys
    BY <1>9, CurrentIsTyped DEF CompleteError, At, NeedsRow
  <2>2. RunsAreTyped'
    BY <1>9, <2>1 DEF CompleteError, RunIsThere, RunsAreTyped, Runs
  <2> QED
    BY <1>2, <1>9, <2>2, GoingOnIsTyped DEF CompleteError
<1>10. CASE Complete(w)
  <2>1. /\ NeedsRow(w) /\ RunKey(w) \in Keys
        /\ CurrentResult(w) \in Results
        /\ worker[w].next \in 1 .. Len(worker[w].results)
        /\ worker[w].results \in Seq(Results)
    BY <1>10, CurrentIsTyped DEF Complete, At, NeedsRow
  <2>2. RunsAreTyped'
    <3>1. CurrentResult(w).status \in {"RUNNING", "PASSED", "FAILED", "ERROR"}
      BY <2>1 DEF Results, TestStatuses
    <3> QED
      BY <1>10, <2>1, <3>1 DEF Complete, RunIsThere, RunsAreTyped, Runs
  <2>3. CASE RunIsThere(w)
    <3> DEFINE pc == IF worker[w].next < Len(worker[w].results) THEN "start" ELSE "toAnalyzing"
    <3>1. worker' = [worker EXCEPT ![w].run = 0, ![w].next = worker[w].next + 1, ![w].pc = pc]
      BY <1>10, <2>3 DEF Complete
    <3>2. pc = "start" => worker[w].next + 1 \in DOMAIN worker[w].results
      BY <2>1
    <3>3. pc \in {"start", "toAnalyzing"} /\ worker[w].next \in Nat
      BY <2>1
    <3> HIDE DEF pc
    <3> QED
      BY <1>1, <1>2, <2>2, <3>1, <3>2, <3>3 DEF WorkersAreTyped, WorkerStates, NeedsRow
  <2>4. CASE ~RunIsThere(w)
    BY <1>2, <1>10, <2>2, <2>4, GoingOnIsTyped DEF Complete
  <2> QED
    BY <2>3, <2>4
<1>11. CASE Summary(w)
  <2>1. AttemptSummary(worker[w].attempt) \in Seq(Results)
    BY SummaryIsTyped
  <2>2. worker' = [worker EXCEPT ![w].pc = "upsert",
                                 ![w].results = AttemptSummary(worker[w].attempt)]
    BY <1>11 DEF Summary
  <2> DEFINE found == AttemptSummary(worker[w].attempt)
  <2> HIDE DEF found
  <2>3. WorkersAreTyped'
    BY <1>1, <1>2, <2>1, <2>2 DEF found, WorkersAreTyped, WorkerStates, NeedsRow
  <2> QED
    BY <1>11, <2>3 DEF Summary, EvidenceUnchanged, RunsAreTyped
<1>12. CASE Upsert(w)
  BY <1>2, <1>12, GoingOnIsTyped DEF Upsert, EvidenceUnchanged, RunsAreTyped
<1>13. CASE ToTesting(w) \/ ToAnalyzing(w) \/ ToGate(w)
  BY <1>5, <1>13 DEF ToTesting, ToAnalyzing, ToGate
<1> QED
  BY <1>3, <1>4, <1>6, <1>7, <1>8, <1>9, <1>10, <1>11, <1>12, <1>13 DEF Process

-----------------------------------------------------------------------------
\* The ways of the job, and of the worker that has it.
JobMoves ==
  \/ \E p \in Procs : AtStep(p, "enqueue") /\ ~HasJob /\ job' = NewJob(proc[p].attempt)
  \/ CanRemove /\ job' = NoJob
  \/ PromoteDelayed
  \/ RequeueStalled
  \/ \E counted \in {0, 1} : FailStalled(counted)

JobIsLost ==
  \/ Spend("redis") /\ job' = NoJob
  \/ Spend("lockLoss") /\ \E w \in Workers : LoseJob(w)

OthersWait(w) == \A v \in Workers : v # w => worker'[v] = worker[v]

JobStep ==
  \/ UNCHANGED <<worker, job>>
  \/ UNCHANGED worker /\ (JobMoves \/ JobIsLost)
  \/ \E w \in Workers : FetchJob(w)
  \/ \E w \in Workers : ~At(w, "idle") /\ UNCHANGED job /\ OthersWait(w)
  \/ \E w \in Workers : (CompleteJob(w) \/ FailJob(w)) /\ Leave(w, "idle")
  \/ \E w \in Workers :
       /\ Leave(w, "idle")
       /\ job' = IF Owns(w) THEN [job EXCEPT !.owner = NoWorker] ELSE job

LEMMA OneWorkerMoves ==
  ASSUME WorkersAreTyped, NEW w \in Workers,
         \/ \E pc : Continue(w, pc) \/ Leave(w, pc)
         \/ \E state : worker' = [worker EXCEPT ![w] = state]
  PROVE  OthersWait(w)
BY DEF Continue, Leave, OthersWait, WorkersAreTyped

LEMMA ProcessKeepsJob ==
  ASSUME WorkersAreTyped, NEW w \in Workers, Process(w)
  PROVE  FetchJob(w) \/ (~At(w, "idle") /\ UNCHANGED job /\ OthersWait(w))
<1>1. CASE Find(w)
  BY <1>1, OneWorkerMoves DEF Find, At, queueVars
<1>2. CASE ToTesting(w) \/ ToAnalyzing(w) \/ ToGate(w)
  <2>1. \E from, to, pc : Transition(w, from, to, pc)
    BY <1>2 DEF ToTesting, ToAnalyzing, ToGate
  <2> QED
    BY <1>2, <2>1, OneWorkerMoves DEF ToTesting, ToAnalyzing, ToGate, Transition, At, queueVars
<1>3. CASE PrepareAndCheck(w)
  <2>1. OthersWait(w)
    <3>1. CASE Leave(w, "throw")
      BY <3>1, OneWorkerMoves
    <3>2. ASSUME NEW results, worker' = [worker EXCEPT ![w].pc = "start", ![w].next = 1,
                                                       ![w].results = results]
          PROVE  OthersWait(w)
      BY <3>2 DEF OthersWait, WorkersAreTyped
    <3> QED
      BY <1>3, <3>1, <3>2 DEF PrepareAndCheck, RunChecks
  <2> QED
    BY <1>3, <2>1 DEF PrepareAndCheck, At, queueVars
<1>4. CASE Start(w)
  BY <1>4 DEF Start, At, queueVars, OthersWait, WorkersAreTyped
<1>5. CASE Put(w) \/ CompleteError(w) \/ Upsert(w)
  BY <1>5, OneWorkerMoves DEF Put, CompleteError, Upsert, At, queueVars
<1>6. CASE Complete(w)
  <2>1. CASE RunIsThere(w)
    BY <1>6, <2>1 DEF Complete, At, queueVars, OthersWait, WorkersAreTyped
  <2>2. CASE ~RunIsThere(w)
    BY <1>6, <2>2, OneWorkerMoves DEF Complete, At, queueVars
  <2> QED
    BY <2>1, <2>2
<1>7. CASE Summary(w)
  BY <1>7 DEF Summary, At, queueVars, OthersWait, WorkersAreTyped
<1> QED
  BY <1>1, <1>2, <1>3, <1>4, <1>5, <1>6, <1>7 DEF Process

LEMMA JobSteps ==
  ASSUME TypeInv, [Next]_vars
  PROVE  JobStep
<1> USE DEF TypeInv
<1>1. CASE UNCHANGED vars
  BY <1>1 DEF vars, JobStep
<1>2. ASSUME NEW w \in Workers, Process(w) PROVE JobStep
  BY <1>2, ProcessKeepsJob DEF JobStep
<1>3. ASSUME NEW w \in Workers, Report(w) PROVE JobStep
  <2>1. CASE Completed(w) \/ Failed(w)
    BY <1>3, <2>1 DEF Report, Completed, Failed, JobStep
  <2>2. CASE Disowned(w)
    BY <1>3, <2>2 DEF Report, Disowned, queueVars, JobStep
  <2> QED
    BY <1>3, <2>1, <2>2 DEF Report
<1>4. ASSUME NEW p \in Procs, Submit(p) \/ Retry(p) \/ Reconcile(p) \/ Recover(p)
      PROVE  JobStep
  BY <1>4 DEF Submit, Retry, Reconcile, Recover, Sweep, ElsewhereUnchanged, queueVars, JobStep
<1>5. ASSUME NEW p \in Procs, EnqueueJob(p) \/ EnqueueThrows(p) PROVE JobStep
  <2>1. Enqueue(proc[p].attempt) => UNCHANGED job \/ JobMoves
    BY <1>5 DEF Enqueue, JobMoves, EnqueueJob, EnqueueThrows
  <2> QED
    BY <1>5, <2>1 DEF EnqueueJob, EnqueueThrows, ElsewhereUnchanged, queueVars, JobStep
<1>6. ASSUME NEW p \in Procs, Remove(p) PROVE JobStep
  BY <1>6 DEF Remove, RemoveJob, ElsewhereUnchanged, queueVars, JobStep, JobMoves
<1>7. ASSUME NEW p \in Procs,
             \/ Acquire(p) \/ AcquireTimesOut(p) \/ Release(p) \/ ReadRow(p) \/ Fail(p)
             \/ GetJob(p) \/ GetState(p) \/ RemoveGet(p) \/ RemoveState(p) \/ RetryRow(p)
      PROVE  JobStep
  BY <1>7 DEF Acquire, AcquireTimesOut, Release, ReadRow, Fail, GetJob, GetState, RemoveGet,
     RemoveState, RetryRow, AcquireLock, ReleaseLock, ElsewhereUnchanged, queueVars, JobStep
<1>8. CASE BullMQ \/ ExpireOrphan
  BY <1>8 DEF BullMQ, Promote, CheckStalled, ExpireOrphan, ExpireOrphanedLock,
     ElsewhereUnchanged, JobStep, JobMoves
<1>9. ASSUME NEW w \in Workers, CrashWorker(w) PROVE JobStep
  <2>1. Leave(w, "idle")
    BY <1>9 DEF CrashWorker, Leave, IdleWorker
  <2> QED
    BY <1>9, <2>1 DEF CrashWorker, JobStep
<1>10. ASSUME NEW w \in Workers, WorkerThrows(w) PROVE JobStep
  BY <1>10, OneWorkerMoves DEF WorkerThrows, StepThrows, PutFails, At, queueVars, JobStep
<1>11. CASE \/ \E w \in Workers : LoseJobLock(w)
            \/ \E p \in Procs : CrashRequest(p) \/ CallThrows(p)
            \/ LoseReleaseLock \/ LoseRedis
  BY <1>11 DEF LoseJobLock, CrashRequest, CallThrows, LoseReleaseLock, ExpireHeldLock,
     LoseRedis, JobStep, JobIsLost
<1> QED
  BY <1>2, <1>1, <1>3, <1>4, <1>5, <1>6, <1>7, <1>8, <1>9, <1>10, <1>11
     DEF Next, Fault, Work, Advance, Step

\* An active job has an attempt left.
LEMMA ActiveHasTries ==
  ASSUME JobIsTyped, HasJob, job.state = "active"
  PROVE  /\ job \in Jobs(Attempts) /\ job.state \notin TerminalStates
         /\ job.made \in Nat /\ job.made < JobAttempts
         /\ job.made + 0 \in 0 .. JobAttempts /\ job.made + 1 \in 0 .. JobAttempts
<1>1. job \in Jobs(Attempts)
  BY DEF JobIsTyped, HasJob
<1>2. job.state \notin TerminalStates /\ job.state \in JobStates
  BY DEF TerminalStates, JobStates
<1>3. job.made < JobAttempts
  BY <1>2 DEF JobIsTyped, JobIsPending, PendingStates
<1>4. job.made \in Nat /\ JobAttempts \in Nat
  BY <1>1, QueueAssumption DEF Jobs
<1> QED
  BY <1>1, <1>2, <1>3, <1>4

LEMMA JobStepIsTyped ==
  ASSUME TypeInv, JobStep
  PROVE  JobIsTyped'
<1> USE DEF TypeInv, JobIsTyped
<1>1. /\ HasJob => /\ job \in Jobs(Attempts)
                   /\ job.state \notin TerminalStates => job.made < JobAttempts
      /\ NoJob \notin Jobs(Attempts) /\ JobAttempts \in Nat \ {0}
      /\ NoWorker \notin Workers
  BY ProcessorAssumption, QueueAssumption DEF HasJob, JobIsPending, PendingStates, Jobs
<1>2. \A w : Owns(w) => HasJob /\ job.state = "active"
  BY DEF Owns
<1>3. ASSUME HasJob, job' \in Jobs(Attempts), job'.made <= JobAttempts,
             job'.state \in TerminalStates \/ job'.made = job.made,
             job.state \notin TerminalStates
      PROVE  JobIsTyped'
  BY <1>1, <1>3 DEF JobIsPending, HasJob, PendingStates
<1>4. ASSUME NEW attempt \in Attempts, job' = NewJob(attempt) PROVE JobIsTyped'
  BY <1>1, <1>4 DEF NewJob, Jobs, JobStates, MaxStalls, JobIsPending
<1>5. CASE job' = NoJob
  BY <1>5 DEF JobIsPending, HasJob
<1>6. CASE UNCHANGED job
  BY <1>6 DEF JobIsPending, HasJob
<1>7. CASE PromoteDelayed \/ RequeueStalled \/ \E w \in Workers : Fetch(w)
  <2>0. HasJob /\ job.state \in {"waiting", "active", "delayed"}
    BY <1>7 DEF PromoteDelayed, RequeueStalled, Stalled, Fetch
  <2>1. /\ HasJob /\ job \in Jobs(Attempts) /\ job.state \notin TerminalStates
        /\ job.made < JobAttempts /\ job.made \in 0 .. JobAttempts
        /\ job.stalls \in 0 .. MaxStalls /\ job.owner \in Workers \cup {NoWorker}
    <3>1. job.state \notin TerminalStates
      BY <2>0 DEF TerminalStates
    <3>2. job \in Jobs(Attempts) /\ job.made < JobAttempts
      BY <1>1, <2>0, <3>1
    <3> QED
      BY <2>0, <3>1, <3>2 DEF Jobs
  <2>2. job' \in Jobs(Attempts) /\ job'.made = job.made
    <3>1. CASE PromoteDelayed
      <4>1. "waiting" \in JobStates /\ job' = [job EXCEPT !.state = "waiting"]
        BY <3>1 DEF PromoteDelayed, JobStates
      <4> QED
        BY <2>1, <4>1 DEF Jobs
    <3>2. CASE RequeueStalled
      <4>1. /\ "waiting" \in JobStates
            /\ job' = [job EXCEPT !.state = "waiting", !.stalls = job.stalls + 1]
            /\ job.stalls < MaxStalls
        BY <3>2 DEF RequeueStalled, JobStates
      <4>2. job.stalls + 1 \in 0 .. MaxStalls
        BY <2>1, <4>1 DEF MaxStalls
      <4> QED
        BY <2>1, <4>1, <4>2 DEF Jobs
    <3>3. ASSUME NEW w \in Workers, Fetch(w)
          PROVE  job' \in Jobs(Attempts) /\ job'.made = job.made
      <4>1. "active" \in JobStates /\ job' = [job EXCEPT !.state = "active", !.owner = w]
        BY <3>3 DEF Fetch, JobStates
      <4> QED
        BY <2>1, <4>1 DEF Jobs
    <3> QED
      BY <1>7, <3>1, <3>2, <3>3
  <2> QED
    BY <1>1, <1>3, <2>1, <2>2
<1>8. ASSUME NEW counted \in {0, 1}, FailStalled(counted) PROVE JobIsTyped'
  <2>1. HasJob /\ job.state = "active"
    BY <1>8 DEF FailStalled, Stalled
  <2>2. /\ job \in Jobs(Attempts) /\ job.state \notin TerminalStates
        /\ job.made + counted \in 0 .. JobAttempts
    BY <1>1, <2>1, ActiveHasTries
  <2>3. /\ job' = [job EXCEPT !.state = "failed", !.made = job.made + counted]
        /\ "failed" \in JobStates /\ "failed" \in TerminalStates
    BY <1>8 DEF FailStalled, JobStates, TerminalStates
  <2>4. /\ job' \in Jobs(Attempts) /\ job'.made = job.made + counted
        /\ job'.state = "failed"
    BY <2>2, <2>3 DEF Jobs
  <2> QED
    BY <1>1, <1>3, <2>1, <2>2, <2>3, <2>4
<1>9. ASSUME NEW w \in Workers, CompleteJob(w) \/ FailJob(w) PROVE JobIsTyped'
  <2>1. HasJob /\ job.state = "active"
    BY <1>2, <1>9 DEF CompleteJob, FailJob
  <2>2. /\ job \in Jobs(Attempts) /\ job.state \notin TerminalStates
        /\ job.made + 1 \in 0 .. JobAttempts /\ job.made \in Nat
    BY <1>1, <2>1, ActiveHasTries
  <2>3. {"completed", "failed", "delayed"} \subseteq JobStates
        /\ {"completed", "failed"} \subseteq TerminalStates
    BY DEF JobStates, TerminalStates
  <2>4. CASE CompleteJob(w)
    <3>1. job' = [job EXCEPT !.state = "completed", !.made = job.made + 1, !.owner = NoWorker]
      BY <2>4 DEF CompleteJob
    <3>2. job' \in Jobs(Attempts) /\ job'.state = "completed" /\ job'.made = job.made + 1
      BY <2>2, <2>3, <3>1 DEF Jobs
    <3> QED
      BY <1>1, <1>3, <2>1, <2>2, <2>3, <3>2
  <2>5. CASE FailJob(w)
    <3> DEFINE state == IF job.made + 1 < JobAttempts THEN "delayed" ELSE "failed"
    <3>1. job' = [job EXCEPT !.state = state, !.made = job.made + 1, !.owner = NoWorker]
      BY <2>5 DEF FailJob
    <3>2. state \in JobStates /\ (state \in TerminalStates \/ job.made + 1 < JobAttempts)
      BY <2>3
    <3> HIDE DEF state
    <3>3. job' \in Jobs(Attempts) /\ job'.state = state /\ job'.made = job.made + 1
      BY <2>2, <3>1, <3>2 DEF Jobs
    <3> QED
      BY <3>2, <3>3 DEF JobIsPending, PendingStates
  <2> QED
    BY <1>9, <2>4, <2>5
<1>10. ASSUME HasJob, job' = [job EXCEPT !.owner = NoWorker] PROVE JobIsTyped'
  BY <1>1, <1>10 DEF Jobs, JobIsPending, HasJob
<1>11. \A p \in Procs : proc[p].attempt \in Attempts
  BY DEF ProcStates
<1> QED
  BY <1>2, <1>4, <1>5, <1>6, <1>7, <1>8, <1>9, <1>10, <1>11
     DEF JobStep, JobMoves, JobIsLost, FetchJob, LoseJob

-----------------------------------------------------------------------------
LEMMA LockSteps ==
  ASSUME LockIsTyped, [Next]_vars
  PROVE  LockIsTyped'
<1>1. CASE UNCHANGED vars
  BY <1>1 DEF vars, LockIsTyped
<1>2. ASSUME NEW w \in Workers, Process(w) PROVE UNCHANGED lock
  BY <1>2 DEF Process, FetchJob, Fetch, Find, ToTesting, ToAnalyzing, ToGate, Transition,
     PrepareAndCheck, Start, Put, CompleteError, Complete, Summary, Upsert, queueVars
<1>3. ASSUME NEW w \in Workers, Report(w) PROVE UNCHANGED lock
  BY <1>3 DEF Report, Completed, Failed, Disowned, CompleteJob, FailJob, queueVars
<1>4. ASSUME NEW p \in Procs, Submit(p) \/ Retry(p) \/ Reconcile(p) \/ Recover(p) \/ EnqueueThrows(p)
      PROVE  UNCHANGED lock
  BY <1>4 DEF Submit, Retry, Reconcile, Recover, Sweep, EnqueueThrows, Enqueue, queueVars
<1>5. ASSUME NEW p \in Procs,
             \/ AcquireTimesOut(p) \/ ReadRow(p) \/ Fail(p) \/ GetJob(p) \/ GetState(p)
             \/ RemoveGet(p) \/ RemoveState(p) \/ Remove(p) \/ RetryRow(p) \/ EnqueueJob(p)
      PROVE  UNCHANGED lock
  BY <1>5 DEF AcquireTimesOut, ReadRow, Fail, GetJob, GetState, RemoveGet, RemoveState,
     Remove, RemoveJob, RetryRow, EnqueueJob, Enqueue, queueVars
<1>6. ASSUME NEW p \in Procs, Acquire(p) \/ Release(p) PROVE LockIsTyped'
  BY <1>6 DEF Acquire, Release, AcquireLock, ReleaseLock, LockIsTyped
<1>7. CASE BullMQ \/ ExpireOrphan \/ LoseReleaseLock \/ LoseRedis
  BY <1>7 DEF BullMQ, Promote, PromoteDelayed, CheckStalled, RequeueStalled, FailStalled,
     ExpireOrphan, ExpireOrphanedLock, LoseReleaseLock, ExpireHeldLock, LoseRedis, LockIsTyped
<1>8. ASSUME NEW w \in Workers, CrashWorker(w) \/ LoseJobLock(w) \/ WorkerThrows(w)
      PROVE  LockIsTyped'
  BY <1>8 DEF CrashWorker, Abandon, LoseJobLock, LoseJob, WorkerThrows, StepThrows, PutFails,
     queueVars, LockIsTyped
<1>9. ASSUME NEW p \in Procs, CrashRequest(p) \/ CallThrows(p) PROVE LockIsTyped'
  BY <1>9 DEF CrashRequest, CallThrows, Abandon, LockIsTyped
<1> QED
  BY <1>1, <1>2, <1>3, <1>4, <1>5, <1>6, <1>7, <1>8, <1>9
     DEF Next, Fault, Work, Advance, Step, LockIsTyped

\* Faults are spent one at a time.
LEMMA BudgetSteps ==
  ASSUME BudgetIsTyped, [Next]_vars
  PROVE  BudgetIsTyped' /\ \A kind \in FaultKinds : budget'[kind] <= budget[kind]
<1>1. \/ UNCHANGED budget
      \/ \E kind \in FaultKinds : Spend(kind)
  <2>1. {"crash", "apiCrash", "lockLoss", "lease", "call", "enqueue", "redis"} = FaultKinds
    BY DEF FaultKinds
  <2>2. CASE Fault
    BY <2>1, <2>2 DEF Fault, CrashWorker, LoseJobLock, WorkerThrows, CrashRequest, CallThrows,
       EnqueueThrows, LoseReleaseLock, LoseRedis
  <2>3. CASE [Next]_vars /\ ~Fault
    BY <2>3 DEF vars, Next, Work, Report, Submit, Retry, Advance, Step, Reconcile, Recover,
       Sweep, Acquire, AcquireTimesOut, Release, ReadRow, Fail, GetJob, GetState, RemoveGet,
       RemoveState, Remove, RetryRow, EnqueueJob, BullMQ, Promote, CheckStalled, ExpireOrphan,
       ElsewhereUnchanged
  <2> QED
    BY <2>2, <2>3
<1>2. \A kind \in FaultKinds : budget[kind] \in Nat
  BY DEF BudgetIsTyped
<1>3. CASE UNCHANGED budget
  BY <1>2, <1>3 DEF BudgetIsTyped
<1>4. ASSUME NEW kind \in FaultKinds, Spend(kind)
      PROVE  BudgetIsTyped' /\ \A other \in FaultKinds : budget'[other] <= budget[other]
  <2>1. budget' = [budget EXCEPT ![kind] = budget[kind] - 1] /\ budget[kind] > 0
    BY <1>4 DEF Spend
  <2>2. budget[kind] - 1 \in Nat
    BY <1>2, <2>1
  <2> QED
    BY <1>2, <2>1, <2>2 DEF BudgetIsTyped
<1> QED
  BY <1>1, <1>3, <1>4

LEMMA TypeInvIsPreserved ==
  ASSUME TypeInv, [Next]_vars
  PROVE  TypeInv'
<1>1. StoreTypeOK' /\ proc' \in [Procs -> ProcStates]
  BY NextStep, TypedIsWellFormed DEF WellFormed
<1>2. RunsAreTyped' /\ WorkersAreTyped'
  BY StepsApart, OutsideIsTyped, ProcessIsTyped DEF TypeInv
<1>3. JobIsTyped'
  BY JobSteps, JobStepIsTyped
<1>4. LockIsTyped' /\ BudgetIsTyped'
  BY LockSteps, BudgetSteps DEF TypeInv
<1> QED
  BY <1>1, <1>2, <1>3, <1>4 DEF TypeInv

LEMMA InitIsTyped ==
  ASSUME Init
  PROVE  TypeInv
<1>1. StoreTypeOK
  BY ZeroIsAnAttempt DEF Init, StoreInit, StoreTypeOK
<1>2. RunsAreTyped
  BY ProcessorAssumption DEF Init, ProcessorInit, RunsAreTyped
<1>3. WorkersAreTyped
  <2>1. IdleWorker \in WorkerStates /\ IdleWorker.pc = "idle"
    <3>1. [IdleWorker EXCEPT !.pc = "idle"] \in WorkerStates
      BY IdleIsTyped DEF WorkerSteps
    <3> QED
      BY <3>1 DEF IdleWorker
  <2> QED
    BY <2>1 DEF Init, ProcessorInit, WorkersAreTyped, NeedsRow
<1>4. JobIsTyped /\ LockIsTyped
  BY DEF Init, QueueInit, JobIsTyped, LockIsTyped, JobIsPending, HasJob
<1>5. proc \in [Procs -> ProcStates]
  <2>1. IdleProc \in ProcStates
    BY ZeroIsAnAttempt DEF IdleProc, ProcStates, Calls, ProcSteps, ProcessingStatuses
  <2> QED
    BY <2>1 DEF Init
<1>6. BudgetIsTyped
  BY MeshAssumption DEF Init, BudgetIsTyped
<1> QED
  BY <1>1, <1>2, <1>3, <1>4, <1>5, <1>6 DEF TypeInv

\* Whatever happens to requests, workers, sweeps and the queue, the release,
\* its evidence, the job and the lock keep their types: in particular no row
\* is ever written for a test outside the registry or for an attempt that
\* does not exist, a new row always finds an id nobody else has, and the job
\* is tried at most as often as enqueue asked for (release-queue.ts:100-112).
THEOREM MeshTypeCorrect == Spec => []MeshTypeOK
<1>1. Init => TypeInv
  BY InitIsTyped
<1>2. TypeInv /\ [Next]_vars => TypeInv'
  BY TypeInvIsPreserved
<1>3. TypeInv => MeshTypeOK
  BY DEF TypeInv, MeshTypeOK, RunsAreTyped, WorkersAreTyped, JobIsTyped, LockIsTyped,
     BudgetIsTyped, ProcessorTypeOK, QueueTypeOK
<1> QED
  BY <1>1, <1>2, <1>3, PTL DEF Spec

-----------------------------------------------------------------------------
(***************************************************************************)
(* While no worker that is alive loses its job and Redis keeps its data,   *)
(* a worker that is not idle owns the job.  The job has one owner, so the  *)
(* processors of a release are never two.                                  *)
(***************************************************************************)
NoLockIsLost == budget["lockLoss"] = 0 /\ budget["redis"] = 0

WorkersOwnTheirJob == \A w \in Workers : ~At(w, "idle") => Owns(w)

LEMMA AloneAtWork ==
  ASSUME WorkersOwnTheirJob, NEW w \in Workers, NEW v \in Workers,
         ~At(w, "idle"), ~At(v, "idle")
  PROVE  w = v
BY DEF WorkersOwnTheirJob, Owns

LEMMA OwnedJobStays ==
  ASSUME NEW w \in Workers, Owns(w), NoLockIsLost
  PROVE  ~JobMoves /\ ~JobIsLost /\ ~ \E v \in Workers : FetchJob(v)
<1>1. HasJob /\ job.state = "active" /\ job.owner = w /\ w # NoWorker
  BY QueueAssumption DEF Owns
<1>2. ~JobMoves
  BY <1>1 DEF JobMoves, CanRemove, PromoteDelayed, RequeueStalled, FailStalled, Stalled
<1>3. ~JobIsLost
  BY DEF JobIsLost, Spend, NoLockIsLost
<1>4. ~ \E v \in Workers : FetchJob(v)
  BY <1>1 DEF FetchJob, Fetch
<1> QED
  BY <1>2, <1>3, <1>4

LEMMA OwnershipIsPreserved ==
  ASSUME TypeInv, NoLockIsLost, WorkersOwnTheirJob, JobStep
  PROVE  WorkersOwnTheirJob'
<1> SUFFICES ASSUME NEW w \in Workers, ~At(w, "idle")' PROVE Owns(w)'
  BY DEF WorkersOwnTheirJob
<1>0. worker \in [Workers -> WorkerStates]
  BY DEF TypeInv, WorkersAreTyped
<1>1. CASE UNCHANGED <<worker, job>>
  BY <1>1 DEF WorkersOwnTheirJob, At, Owns, HasJob
<1>2. CASE UNCHANGED worker /\ (JobMoves \/ JobIsLost)
  BY <1>2, OwnedJobStays DEF WorkersOwnTheirJob, At
<1>3. ASSUME NEW v \in Workers, FetchJob(v) PROVE Owns(w)'
  <2>1. At(w, "idle")
    BY <1>3, OwnedJobStays DEF WorkersOwnTheirJob
  <2>2. w = v
    BY <1>0, <1>3, <2>1 DEF FetchJob, At
  <2>3. job \in Jobs(Attempts)
    BY <1>3 DEF FetchJob, Fetch, HasJob, TypeInv, JobIsTyped
  <2>4. job' = [job EXCEPT !.state = "active", !.owner = v]
    BY <1>3 DEF FetchJob, Fetch
  <2>5. job' \in Jobs(Attempts)
    BY <2>3, <2>4 DEF Jobs, JobStates
  <2>6. job'.state = "active" /\ job'.owner = v
    BY <2>3, <2>4 DEF Jobs
  <2> QED
    BY <2>2, <2>5, <2>6, ProcessorAssumption DEF Owns, HasJob
<1>4. ASSUME NEW v \in Workers, ~At(v, "idle"), UNCHANGED job, OthersWait(v) PROVE Owns(w)'
  BY <1>4 DEF OthersWait, WorkersOwnTheirJob, At, Owns, HasJob
<1>5. ASSUME NEW v \in Workers, CompleteJob(v) \/ FailJob(v), Leave(v, "idle") PROVE FALSE
  <2>1. w # v /\ worker'[w] = worker[w]
    BY <1>0, <1>5 DEF Leave, IdleWorker, At
  <2>2. Owns(w) /\ Owns(v)
    BY <1>5, <2>1 DEF CompleteJob, FailJob, WorkersOwnTheirJob, At
  <2> QED
    BY <2>1, <2>2 DEF Owns
<1>6. ASSUME NEW v \in Workers, Leave(v, "idle"),
             job' = IF Owns(v) THEN [job EXCEPT !.owner = NoWorker] ELSE job
      PROVE  Owns(w)'
  <2>1. w # v /\ worker'[w] = worker[w]
    BY <1>0, <1>6 DEF Leave, IdleWorker, At
  <2>2. Owns(w) /\ ~Owns(v)
    BY <2>1 DEF WorkersOwnTheirJob, At, Owns
  <2> QED
    BY <1>6, <2>2 DEF Owns, HasJob
<1> QED
  BY <1>1, <1>2, <1>3, <1>4, <1>5, <1>6 DEF JobStep

OwnInv == TypeInv /\ NoLockIsLost /\ WorkersOwnTheirJob

LEMMA OwnInvIsPreserved ==
  ASSUME OwnInv, [Next]_vars
  PROVE  OwnInv'
<1>1. TypeInv'
  BY TypeInvIsPreserved DEF OwnInv
<1>2. NoLockIsLost'
  <2>1. \A kind \in {"lockLoss", "redis"} :
          budget[kind] = 0 /\ budget'[kind] <= budget[kind] /\ budget'[kind] \in Nat
    BY <1>1, BudgetSteps DEF OwnInv, TypeInv, NoLockIsLost, FaultKinds, BudgetIsTyped
  <2> QED
    BY <2>1 DEF NoLockIsLost
<1>3. WorkersOwnTheirJob'
  BY JobSteps, OwnershipIsPreserved DEF OwnInv
<1> QED
  BY <1>1, <1>2, <1>3 DEF OwnInv

LEMMA InitIsOwned ==
  ASSUME Init, Budget["lockLoss"] = 0, Budget["redis"] = 0
  PROVE  OwnInv
<1>1. NoLockIsLost
  BY DEF Init, NoLockIsLost
<1>2. WorkersOwnTheirJob
  BY DEF Init, ProcessorInit, WorkersOwnTheirJob, At, IdleWorker
<1> QED
  BY <1>1, <1>2, InitIsTyped DEF OwnInv

\* As long as no worker that is alive loses its job's lock and Redis keeps
\* its data, the checks of a release never run twice at the same time, for
\* any number of workers, whatever crashes, throws, stalls, is retried or is
\* swept (release-queue.ts:100-112, test-run-repository.ts:6-18).
THEOREM ProcessorsAreAlone ==
  ASSUME Budget["lockLoss"] = 0, Budget["redis"] = 0
  PROVE  Spec => []OneProcessorAtATime
<1>1. Init => OwnInv
  BY InitIsOwned
<1>2. OwnInv /\ [Next]_vars => OwnInv'
  BY OwnInvIsPreserved
<1>3. OwnInv => OneProcessorAtATime
  BY AloneAtWork DEF OwnInv, OneProcessorAtATime, Processing, At
<1> QED
  BY <1>1, <1>2, <1>3, PTL DEF Spec

-----------------------------------------------------------------------------
(***************************************************************************)
(* What a verdict rests on.  A processor that is alone with the evidence   *)
(* of its attempt persists its results one by one, in the order of the     *)
(* registry; when it has come to the end, the results it holds are the     *)
(* ones a summary of the database would give, and its verdict is the one   *)
(* the assessment explains.                                                *)
(***************************************************************************)
RowOf(w, id) == runs[<<worker[w].attempt, id>>]

IdsOf(results) == [i \in DOMAIN results |-> results[i].id]

\* Results of checks: of some selection, in its order, each with an artifact.
IsSelected(results) ==
  /\ \E chosen \in SUBSET TestIds :
       Mandatory \subseteq chosen /\ IdsOf(results) = Among(Registry, chosen)
  /\ \A i \in DOMAIN results : results[i].hasArtifact

\* The rows of the attempt are those of the results up to the next one.
RowsUpTo(w) ==
  LET results == worker[w].results
      next == worker[w].next IN
  /\ \A i \in DOMAIN results : i < next =>
       /\ RowOf(w, results[i].id) # NoRun
       /\ RowOf(w, results[i].id).status = results[i].status
       /\ RowOf(w, results[i].id).artifact = ArtifactOf(results[i])
  /\ \A id \in TestIds : RowOf(w, id) # NoRun =>
       \E i \in DOMAIN results :
         /\ results[i].id = id
         /\ i < next \/ (i = next /\ worker[w].pc \in {"put", "complete"})
  /\ At(w, "complete") =>
       /\ RowOf(w, results[next].id) # NoRun
       /\ RowOf(w, results[next].id).artifact = ArtifactOf(results[next])
  /\ At(w, "toAnalyzing") => next = Len(results) + 1

EvidenceIsPersisted(w) ==
  /\ worker[w].pc \in {"start", "put", "complete", "toAnalyzing"} =>
       IsSelected(worker[w].results) /\ RowsUpTo(w)
  /\ worker[w].pc \in {"upsert", "toGate"} =>
       worker[w].results = AttemptSummary(worker[w].attempt)

VerdictIsExplained(w) ==
  At(w, "toGate") /\ release.status = "ANALYZING" /\ release.attempt = worker[w].attempt
    => assessment = [attempt |-> release.attempt, outcome |-> Verdict(w)]

FinalIsNotProcessed(w) == release.status \in FinalStatuses => ~Processing(w)

EvidenceInv ==
  /\ OwnInv
  /\ \A w \in Workers : EvidenceIsPersisted(w) /\ VerdictIsExplained(w) /\ FinalIsNotProcessed(w)
  /\ AssessmentExplainsVerdict
  /\ GateBackedByEvidence

LEMMA SelectedIds ==
  ASSUME NEW results \in Seq(Results), NEW chosen \in SUBSET TestIds,
         IdsOf(results) = Among(Registry, chosen)
  PROVE  /\ \A i, j \in DOMAIN results : results[i].id = results[j].id => i = j
         /\ \A id \in TestIds : id \in chosen <=> \E i \in DOMAIN results : results[i].id = id
<1>1. IsInjective(Registry) /\ Registry \in Seq(TestIds) /\ Range(Registry) = TestIds
  BY RegistryAssumption DEF IsInjective
<1>2. Range(IdsOf(results)) = TestIds \cap chosen /\ IsInjective(IdsOf(results))
  BY <1>1, AmongElements
<1>3. DOMAIN IdsOf(results) = DOMAIN results
      /\ \A i \in DOMAIN results : IdsOf(results)[i] = results[i].id
  BY DEF IdsOf
<1> QED
  BY <1>2, <1>3 DEF IsInjective, Range

\* The summary of an attempt whose results are all persisted is the results.
LEMMA PersistedIsSummary ==
  ASSUME WorkersAreTyped, NEW w \in Workers, At(w, "toAnalyzing"), EvidenceIsPersisted(w)
  PROVE  worker[w].results = AttemptSummary(worker[w].attempt)
<1> DEFINE results == worker[w].results
           attempt == worker[w].attempt
           there == {id \in TestIds : runs[<<attempt, id>>] # NoRun}
<1>1. results \in Seq(Results) /\ worker[w].next \in Nat
  BY DEF WorkersAreTyped, WorkerStates
<1>2. IsSelected(results) /\ RowsUpTo(w) /\ worker[w].next = Len(results) + 1
  BY DEF EvidenceIsPersisted, RowsUpTo, At
<1>3. PICK chosen \in SUBSET TestIds : IdsOf(results) = Among(Registry, chosen)
  BY <1>2 DEF IsSelected
<1>4. DOMAIN results = 1 .. Len(results) /\ Len(results) \in Nat
      /\ \A i \in DOMAIN results : results[i] \in Results
  BY <1>1
<1>5. \A i \in DOMAIN results : i < worker[w].next
  BY <1>2, <1>4
<1>6. \A i \in DOMAIN results :
        LET row == runs[<<attempt, results[i].id>>] IN
        /\ row # NoRun
        /\ row.status = results[i].status
        /\ row.artifact = ArtifactOf(results[i])
  BY <1>2, <1>5 DEF RowsUpTo, RowOf
<1>7. \A id \in there : \E i \in DOMAIN results : results[i].id = id
  BY <1>2 DEF RowsUpTo, RowOf
<1>8. there = chosen
  <2>1. \A id \in TestIds : id \in chosen <=> \E i \in DOMAIN results : results[i].id = id
    BY <1>1, <1>3, SelectedIds
  <2>2. \A id \in TestIds : id \in there <=> \E i \in DOMAIN results : results[i].id = id
    BY <1>6, <1>7
  <2> QED
    BY <2>1, <2>2
<1>9. AttemptSummary(attempt)
        = [i \in DOMAIN results |->
             SummaryOf(IdsOf(results)[i], runs[<<attempt, IdsOf(results)[i]>>])]
  <2>1. Among(Registry, there) = IdsOf(results)
    BY <1>3, <1>8
  <2>2. DOMAIN IdsOf(results) = DOMAIN results
    BY DEF IdsOf
  <2> QED
    BY <2>1, <2>2 DEF AttemptSummary
<1>10. ASSUME NEW i \in DOMAIN results
       PROVE  SummaryOf(results[i].id, runs[<<attempt, results[i].id>>]) = results[i]
  <2> DEFINE row == runs[<<attempt, results[i].id>>]
             result == results[i]
  <2>1. /\ row.status = result.status /\ row.artifact = ArtifactOf(result)
        /\ result \in Results /\ result.hasArtifact = TRUE
    BY <1>2, <1>4, <1>6 DEF IsSelected, Results
  <2> HIDE DEF row, result
  <2>2. result.status \in TestStatuses /\ result.incompatible \in BOOLEAN
    BY <2>1 DEF Results
  <2>3. result = Result(result.id, result.status, TRUE, result.incompatible)
    BY <2>1 DEF Results, Result
  <2>4. row.artifact # "none" /\ (row.artifact = "incompatible") = result.incompatible
    BY <2>1, <2>2 DEF ArtifactOf
  <2>5. SummaryOf(result.id, row) = Result(result.id, result.status, TRUE, result.incompatible)
    BY <2>1, <2>2, <2>4 DEF SummaryOf
  <2> QED
    BY <2>3, <2>5 DEF row, result
<1>11. results = [i \in DOMAIN results |-> results[i]]
  BY <1>1
<1>12. \A i \in DOMAIN results : IdsOf(results)[i] = results[i].id
  BY DEF IdsOf
<1> HIDE DEF results, attempt
<1>13. \A i \in DOMAIN results :
         SummaryOf(IdsOf(results)[i], runs[<<attempt, IdsOf(results)[i]>>]) = results[i]
  BY <1>10, <1>12
<1>14. AttemptSummary(attempt) = [i \in DOMAIN results |-> results[i]]
  BY <1>9, <1>13
<1> QED
  BY <1>11, <1>14 DEF results, attempt

-----------------------------------------------------------------------------
\* Outside the processors, a release is never given a verdict, never sent
\* to ANALYZING, and a verdict is left alone; only a retry moves the attempt.
ReleaseMoves ==
  \/ UNCHANGED storeVars
  \/ /\ release'.status \in {"QUEUED", "ERROR"}
     /\ release'.attempt = release.attempt \/ \E p \in Procs : RetryRow(p)

LEMMA OutsideLeavesVerdicts ==
  ASSUME StoreTypeOK, [Next]_vars
  PROVE  \/ Outside /\ ReleaseMoves
         \/ \E w \in Workers : Process(w) /\ UNCHANGED <<proc, budget>>
<1>1. ASSUME UNCHANGED vars PROVE ReleaseMoves
  BY <1>1 DEF vars, storeVars, ReleaseMoves
<1>2. ASSUME NEW w \in Workers, Report(w) PROVE ReleaseMoves
  BY <1>2 DEF Report, ReleaseMoves
<1>3. ASSUME NEW p \in Procs, Submit(p) PROVE ReleaseMoves
  BY <1>3 DEF Submit, CreateQueuedRelease, SetStatus, StoreTypeOK, ReleaseMoves
<1>4. ASSUME NEW p \in Procs, Fail(p) PROVE ReleaseMoves
  BY <1>4 DEF Fail, FailRelease, SetStatus, StoreTypeOK, ReleaseMoves
<1>5. ASSUME NEW p \in Procs, RetryRow(p) PROVE ReleaseMoves
  BY <1>5 DEF RetryRow, RetryRelease, ReleaseMoves
<1>6. ASSUME NEW p \in Procs,
             \/ Retry(p) \/ Reconcile(p) \/ Recover(p) \/ EnqueueThrows(p)
             \/ Acquire(p) \/ AcquireTimesOut(p) \/ Release(p) \/ ReadRow(p)
             \/ GetJob(p) \/ GetState(p) \/ RemoveGet(p) \/ RemoveState(p) \/ Remove(p)
             \/ EnqueueJob(p)
      PROVE  ReleaseMoves
  BY <1>6 DEF Retry, Reconcile, Recover, Sweep, EnqueueThrows, Acquire, AcquireTimesOut,
     Release, ReadRow, GetJob, GetState, RemoveGet, RemoveState, Remove, EnqueueJob,
     storeVars, databaseVars, ReleaseMoves
<1>7. ASSUME BullMQ \/ ExpireOrphan PROVE ReleaseMoves
  BY <1>7 DEF BullMQ, Promote, CheckStalled, ExpireOrphan, ReleaseMoves
<1>8. ASSUME \/ \E w \in Workers : CrashWorker(w) \/ LoseJobLock(w) \/ WorkerThrows(w)
             \/ \E p \in Procs : CrashRequest(p) \/ CallThrows(p)
             \/ LoseReleaseLock \/ LoseRedis
      PROVE  ReleaseMoves
  BY <1>8 DEF CrashWorker, LoseJobLock, WorkerThrows, StepThrows, PutFails, CrashRequest,
     CallThrows, LoseReleaseLock, LoseRedis, storeVars, databaseVars, ReleaseMoves
<1> QED
  BY <1>1, <1>2, <1>3, <1>4, <1>5, <1>6, <1>7, <1>8, StepsApart
     DEF Next, Fault, Work, Advance, Step

LEMMA OutsideKeepsEvidence ==
  ASSUME EvidenceInv, OwnInv', Outside, ReleaseMoves
  PROVE  EvidenceInv'
<1>0. worker \in [Workers -> WorkerStates]
  BY DEF EvidenceInv, OwnInv, TypeInv, WorkersAreTyped
<1>1. release'.status \in FinalStatuses \cup {"ANALYZING"} => UNCHANGED <<release, assessment>>
  BY DEF ReleaseMoves, storeVars, FinalStatuses
<1>2. \A w \in Workers :
        \/ worker'[w] = worker[w]
        \/ worker'[w].pc \in {"idle", "throw"}
        \/ worker'[w].pc = "completeError" /\ worker[w].pc = "put"
  BY <1>0 DEF Outside, StopsWorker, Leave, Continue, IdleWorker, At, WorkerStates
<1>3. runs' = runs
  BY DEF Outside
<1>4. ASSUME NEW w \in Workers PROVE EvidenceIsPersisted(w)'
  <2>1. CASE worker'[w] = worker[w]
    <3>1. IsSelected(worker[w].results)' <=> IsSelected(worker[w].results)
      BY <2>1 DEF IsSelected, IdsOf
    <3>2. RowsUpTo(w)' <=> RowsUpTo(w)
      BY <1>3, <2>1 DEF RowsUpTo, RowOf, At
    <3>3. AttemptSummary(worker[w].attempt)' = AttemptSummary(worker[w].attempt)
      BY <1>3, <2>1 DEF AttemptSummary
    <3> QED
      BY <2>1, <3>1, <3>2, <3>3 DEF EvidenceInv, EvidenceIsPersisted
  <2>2. CASE worker'[w].pc \in {"idle", "throw", "completeError"}
    BY <2>2 DEF EvidenceIsPersisted
  <2> QED
    BY <1>2, <2>1, <2>2
<1>5. ASSUME NEW w \in Workers PROVE VerdictIsExplained(w)'
  <2>1. CASE worker'[w] = worker[w]
    BY <1>1, <2>1 DEF EvidenceInv, VerdictIsExplained, At, Verdict
  <2>2. CASE worker'[w].pc \in {"idle", "throw", "completeError"}
    BY <2>2 DEF VerdictIsExplained, At
  <2> QED
    BY <1>2, <2>1, <2>2
<1>6. ASSUME NEW w \in Workers PROVE FinalIsNotProcessed(w)'
  BY <1>1, <1>2 DEF EvidenceInv, FinalIsNotProcessed, Processing
<1>7. AssessmentExplainsVerdict'
  BY <1>1 DEF EvidenceInv, AssessmentExplainsVerdict
<1>8. GateBackedByEvidence'
  BY <1>1, <1>3 DEF EvidenceInv, GateBackedByEvidence, AttemptSummary
<1> QED
  BY <1>4, <1>5, <1>6, <1>7, <1>8 DEF EvidenceInv

-----------------------------------------------------------------------------
\* A processor at work is the only worker that is not idle.
LEMMA OthersAreIdle ==
  ASSUME OwnInv, NEW w \in Workers, Process(w), NEW v \in Workers, v # w
  PROVE  worker'[v].pc = "idle"
<1>0. worker \in [Workers -> WorkerStates]
  BY DEF OwnInv, TypeInv, WorkersAreTyped
<1>1. CASE FetchJob(w)
  <2>1. At(v, "idle")
    BY <1>1, OwnedJobStays DEF OwnInv, WorkersOwnTheirJob
  <2> QED
    BY <1>0, <1>1, <2>1 DEF FetchJob, At
<1>2. CASE ~At(w, "idle") /\ OthersWait(w)
  BY <1>2, AloneAtWork DEF OwnInv, OthersWait, At
<1> QED
  BY <1>1, <1>2, ProcessKeepsJob DEF OwnInv, TypeInv

WorkIsBacked(w) == EvidenceIsPersisted(w) /\ VerdictIsExplained(w) /\ FinalIsNotProcessed(w)

LEMMA EnoughForProcess ==
  ASSUME EvidenceInv, OwnInv', NEW w \in Workers, Process(w),
         WorkIsBacked(w)', AssessmentExplainsVerdict', GateBackedByEvidence'
  PROVE  EvidenceInv'
<1>1. ASSUME NEW v \in Workers PROVE WorkIsBacked(v)'
  <2>1. CASE v # w
    <3>1. worker'[v].pc = "idle"
      BY <2>1, OthersAreIdle DEF EvidenceInv
    <3> QED
      BY <3>1 DEF WorkIsBacked, EvidenceIsPersisted, VerdictIsExplained, FinalIsNotProcessed,
         Processing, At
  <2> QED
    BY <2>1
<1> QED
  BY <1>1 DEF EvidenceInv, WorkIsBacked

\* Before the verdict, only the evidence of the processor itself is at stake.
LEMMA EnoughBeforeVerdict ==
  ASSUME EvidenceInv, OwnInv', NEW w \in Workers, Process(w),
         EvidenceIsPersisted(w)', ~At(w, "toGate")', release'.status \notin FinalStatuses
  PROVE  EvidenceInv'
<1>1. WorkIsBacked(w)' /\ AssessmentExplainsVerdict' /\ GateBackedByEvidence'
  BY DEF WorkIsBacked, VerdictIsExplained, FinalIsNotProcessed, AssessmentExplainsVerdict,
     GateBackedByEvidence
<1> QED
  BY <1>1, EnoughForProcess

-----------------------------------------------------------------------------
\* The job is taken, and the release looked at.
LEMMA FirstSteps ==
  ASSUME EvidenceInv, OwnInv', NEW w \in Workers, FetchJob(w) \/ Find(w)
  PROVE  EvidenceInv'
<1>0. worker \in [Workers -> WorkerStates]
  BY DEF EvidenceInv, OwnInv, TypeInv, WorkersAreTyped
<1>1. UNCHANGED <<release, assessment, runs>>
  BY DEF FetchJob, Find, storeVars, EvidenceUnchanged
<1>2. \/ worker'[w].pc \in {"find", "throw"}
      \/ /\ worker'[w].pc \in {"toTesting", "prepare", "summary"}
         /\ release.status \in ProcessingStatuses
  <2>1. CASE FetchJob(w)
    BY <1>0, <2>1 DEF FetchJob, IdleWorker
  <2>2. ASSUME Find(w), release.status \in ProcessingStatuses,
               NEW pc \in {"toTesting", "prepare", "summary"}, Continue(w, pc)
        PROVE  worker'[w].pc = pc
    BY <1>0, <2>2 DEF Continue, WorkerStates
  <2>3. CASE Leave(w, "throw")
    BY <1>0, <2>3 DEF Leave, IdleWorker
  <2>4. CASE Find(w)
    <3>1. \/ Leave(w, "throw")
          \/ /\ release.status \in ProcessingStatuses
             /\ \E pc \in {"toTesting", "prepare", "summary"} : Continue(w, pc)
      BY <2>4 DEF Find, ProcessingStatuses
    <3> QED
      BY <2>2, <2>3, <2>4, <3>1
  <2> QED
    BY <2>1, <2>4
<1>3. WorkIsBacked(w)'
  BY <1>1, <1>2 DEF WorkIsBacked, EvidenceIsPersisted, VerdictIsExplained,
     FinalIsNotProcessed, Processing, At, ProcessingStatuses, FinalStatuses
<1>4. AssessmentExplainsVerdict' /\ GateBackedByEvidence'
  BY <1>1 DEF EvidenceInv, AssessmentExplainsVerdict, GateBackedByEvidence, AttemptSummary
<1> QED
  BY <1>3, <1>4, EnoughForProcess DEF Process

\* The attempt's rows are deleted and the checks run.
LEMMA ChecksAreSelected ==
  ASSUME breaking \in BOOLEAN, NEW answer,
         NEW results \in [DOMAIN SelectTrustedTests(answer) ->
                            UNION {Outcomes(id) : id \in TestIds}],
         \A i \in DOMAIN SelectTrustedTests(answer) :
           results[i] \in Outcomes(SelectTrustedTests(answer)[i])
  PROVE  IsSelected(results)
<1> DEFINE selection == SelectTrustedTests(answer)
<1>1. DOMAIN results = DOMAIN selection /\ results = [i \in DOMAIN results |-> results[i]]
  OBVIOUS
<1>2. \A i \in DOMAIN results : results[i].id = selection[i] /\ results[i].hasArtifact
  BY <1>1, ChecksAreTyped
<1>3. \E chosen \in SUBSET TestIds :
        Mandatory \subseteq chosen /\ selection = Among(Registry, chosen)
  <2>1. \E tests : selection = Among(Registry, Mandatory \cup Range(tests))
                   /\ Range(tests) \subseteq TestIds
    <3>1. Range(<<>>) = {}
      BY DEF Range
    <3> QED
      BY <3>1 DEF SelectTrustedTests, ResolveTrustedTests, IsTrusted
  <2> QED
    BY <2>1, RegistryAssumption
<1>4. selection \in Seq(TestIds)
  BY SelectionIsSound
<1> HIDE DEF selection
<1>5. IdsOf(results) = selection
  <2>1. selection = [i \in DOMAIN selection |-> selection[i]]
    BY <1>4
  <2> QED
    BY <1>1, <1>2, <2>1 DEF IdsOf
<1> QED
  BY <1>2, <1>3, <1>5 DEF IsSelected

LEMMA PrepareStep ==
  ASSUME EvidenceInv, OwnInv', NEW w \in Workers, PrepareAndCheck(w)
  PROVE  EvidenceInv'
<1>0. worker \in [Workers -> WorkerStates] /\ worker[w].attempt \in Attempts
  BY DEF EvidenceInv, OwnInv, TypeInv, WorkersAreTyped, WorkerStates
<1>1. release'.status \notin FinalStatuses
  BY DEF PrepareAndCheck, EvidenceInv, FinalIsNotProcessed, Processing, At, storeVars
<1>2. CASE Leave(w, "throw")
  <2>1. worker'[w].pc = "throw"
    BY <1>0, <1>2 DEF Leave, IdleWorker
  <2> QED
    BY <1>1, <2>1, EnoughBeforeVerdict DEF EvidenceIsPersisted, At, Process
<1>3. ASSUME NEW answer, NEW results \in [DOMAIN SelectTrustedTests(answer) ->
                                            UNION {Outcomes(id) : id \in TestIds}],
             \A i \in DOMAIN SelectTrustedTests(answer) :
               results[i] \in Outcomes(SelectTrustedTests(answer)[i]),
             worker' = [worker EXCEPT ![w].pc = "start", ![w].next = 1,
                                      ![w].results = results]
      PROVE  EvidenceInv'
  <2>1. IsSelected(results)
    BY <1>3, ChecksAreSelected DEF EvidenceInv, OwnInv, TypeInv, RunsAreTyped
  <2>2. /\ worker'[w].pc = "start" /\ worker'[w].next = 1 /\ worker'[w].results = results
        /\ worker'[w].attempt = worker[w].attempt
    BY <1>0, <1>3 DEF WorkerStates
  <2>3. \A id \in TestIds : RowOf(w, id)' = NoRun
    BY <1>0, <2>2 DEF PrepareAndCheck, RowOf, Keys
  <2>4. \A i \in DOMAIN results : ~ (i < 1)
    <3>1. worker'[w].results \in Seq(Results)
      BY DEF OwnInv, TypeInv, WorkersAreTyped, WorkerStates
    <3> QED
      BY <2>2, <3>1
  <2>5. RowsUpTo(w)'
    BY <2>2, <2>3, <2>4 DEF RowsUpTo, At
  <2>6. IsSelected(worker[w].results)'
    BY <2>1, <2>2 DEF IsSelected, IdsOf
  <2>7. EvidenceIsPersisted(w)' /\ ~At(w, "toGate")'
    BY <2>2, <2>5, <2>6 DEF EvidenceIsPersisted, At
  <2> QED
    BY <1>1, <2>7, EnoughBeforeVerdict DEF Process
<1> QED
  BY <1>2, <1>3 DEF PrepareAndCheck, RunChecks

-----------------------------------------------------------------------------
\* The row of the next result is the only one a processor writes.
LEMMA OneRowChanges ==
  ASSUME OwnInv, NEW w \in Workers, NeedsRow(w), IsSelected(worker[w].results),
         NEW row, runs' = [runs EXCEPT ![RunKey(w)] = row],
         worker'[w].attempt = worker[w].attempt
  PROVE  /\ \A i \in DOMAIN worker[w].results :
              /\ worker[w].results[i].id \in TestIds
              /\ i # worker[w].next => worker[w].results[i].id # CurrentResult(w).id
         /\ \A id \in TestIds :
              RowOf(w, id)' = IF id = CurrentResult(w).id THEN row ELSE RowOf(w, id)
<1> DEFINE results == worker[w].results
           next == worker[w].next
<1>1. results \in Seq(Results) /\ next \in 1 .. Len(results) /\ RunKey(w) \in Keys
  BY CurrentIsTyped DEF OwnInv, TypeInv
<1>2. /\ next \in DOMAIN results /\ CurrentResult(w) = results[next]
      /\ RunKey(w) = <<worker[w].attempt, results[next].id>>
  <2>1. DOMAIN results = 1 .. Len(results)
    BY <1>1
  <2> QED
    BY <1>1, <2>1 DEF RunKey, CurrentResult
<1>3. ASSUME NEW i \in DOMAIN results PROVE results[i].id \in TestIds
  <2>1. results[i] \in Results
    BY <1>1, ElementsOf
  <2> QED
    BY <2>1 DEF Results
<1>4. PICK chosen \in SUBSET TestIds : IdsOf(results) = Among(Registry, chosen)
  BY DEF IsSelected
<1>5. \A i \in DOMAIN results : i # next => results[i].id # results[next].id
  BY <1>1, <1>2, <1>4, SelectedIds
<1>6. runs \in [Keys -> Runs \cup {NoRun}] /\ worker[w].attempt \in Attempts
  BY CurrentIsTyped DEF OwnInv, TypeInv, RunsAreTyped
<1> HIDE DEF results, next
<1>7. \A id \in TestIds :
        RowOf(w, id)' = IF id = results[next].id THEN row ELSE RowOf(w, id)
  BY <1>1, <1>2, <1>6 DEF RowOf, Keys
<1> QED
  BY <1>2, <1>3, <1>5, <1>7 DEF results, next

\* The facts about a processor that persists its results.
Persisting(w) ==
  /\ w \in Workers /\ NeedsRow(w)
  /\ worker[w] \in WorkerStates
  /\ worker[w].next \in 1 .. Len(worker[w].results)
  /\ DOMAIN worker[w].results = 1 .. Len(worker[w].results)
  /\ CurrentResult(w) \in Results
  /\ RunKey(w) = <<worker[w].attempt, CurrentResult(w).id>>
  /\ RunKey(w) \in Keys
  /\ release.status \notin FinalStatuses
  /\ At(w, "completeError") \/ (IsSelected(worker[w].results) /\ RowsUpTo(w))

LEMMA PersistingFacts ==
  ASSUME EvidenceInv, NEW w \in Workers, NeedsRow(w)
  PROVE  Persisting(w) /\ worker \in [Workers -> WorkerStates]
<1>1. worker \in [Workers -> WorkerStates]
  BY DEF EvidenceInv, OwnInv, TypeInv, WorkersAreTyped
<1>2. /\ worker[w].results \in Seq(Results)
      /\ worker[w].next \in 1 .. Len(worker[w].results)
      /\ CurrentResult(w) \in Results /\ RunKey(w) \in Keys
  BY CurrentIsTyped DEF EvidenceInv, OwnInv, TypeInv
<1>3. release.status \notin FinalStatuses
  BY DEF EvidenceInv, FinalIsNotProcessed, Processing, NeedsRow
<1>4. At(w, "completeError") \/ (IsSelected(worker[w].results) /\ RowsUpTo(w))
  BY DEF EvidenceInv, EvidenceIsPersisted, NeedsRow, At
<1>5. DOMAIN worker[w].results = 1 .. Len(worker[w].results)
  BY <1>2
<1> QED
  BY <1>1, <1>2, <1>3, <1>4, <1>5 DEF Persisting, RunKey

LEMMA StartStep ==
  ASSUME EvidenceInv, OwnInv', NEW w \in Workers, Start(w)
  PROVE  EvidenceInv'
<1>1. NeedsRow(w) /\ worker[w].pc = "start"
  BY DEF Start, At, NeedsRow
<1>2. Persisting(w) /\ worker \in [Workers -> WorkerStates]
  BY <1>1, PersistingFacts
<1> DEFINE id == IF runs[RunKey(w)] = NoRun THEN FreshRun ELSE runs[RunKey(w)].id
           row == [id |-> id, status |-> "RUNNING", artifact |-> "none"]
<1>3. /\ runs' = [runs EXCEPT ![RunKey(w)] = row]
      /\ worker' = [worker EXCEPT ![w].pc = "put", ![w].run = id]
      /\ release' = release
  BY DEF Start, storeVars
<1> HIDE DEF row, id
<1>4. /\ worker'[w].pc = "put" /\ worker'[w].attempt = worker[w].attempt
      /\ worker'[w].results = worker[w].results /\ worker'[w].next = worker[w].next
  BY <1>2, <1>3 DEF WorkerStates
<1>5. IsSelected(worker[w].results) /\ RowsUpTo(w)
  BY <1>1, <1>2 DEF Persisting, At
<1>6. /\ \A i \in DOMAIN worker[w].results : i # worker[w].next =>
           RowOf(w, worker[w].results[i].id)' = RowOf(w, worker[w].results[i].id)
      /\ \A test \in TestIds \ {CurrentResult(w).id} : RowOf(w, test)' = RowOf(w, test)
  BY <1>1, <1>3, <1>4, <1>5, OneRowChanges DEF EvidenceInv
<1>7. worker[w].next \in DOMAIN worker[w].results /\ worker[w].next \in Int
      /\ \A i \in DOMAIN worker[w].results : i \in Int
  BY <1>2 DEF Persisting
<1>8. RowsUpTo(w)'
  <2>1. ASSUME NEW i \in DOMAIN worker[w].results, i < worker[w].next
        PROVE  LET result == worker[w].results[i] IN
               /\ RowOf(w, result.id)' # NoRun
               /\ RowOf(w, result.id)'.status = result.status
               /\ RowOf(w, result.id)'.artifact = ArtifactOf(result)
    <3>1. i # worker[w].next
      BY <1>7, <2>1
    <3> QED
      BY <1>5, <1>6, <2>1, <3>1 DEF RowsUpTo
  <2>2. ASSUME NEW test \in TestIds, RowOf(w, test)' # NoRun
        PROVE  \E i \in DOMAIN worker[w].results :
                 worker[w].results[i].id = test /\ (i < worker[w].next \/ i = worker[w].next)
    <3>1. CASE test = CurrentResult(w).id
      BY <1>7, <3>1 DEF CurrentResult
    <3>2. CASE test # CurrentResult(w).id
      BY <1>1, <1>5, <1>6, <2>2, <3>2 DEF RowsUpTo
    <3> QED
      BY <3>1, <3>2
  <2> QED
    BY <1>4, <2>1, <2>2 DEF RowsUpTo, At
<1>9. EvidenceIsPersisted(w)' /\ ~At(w, "toGate")'
  BY <1>4, <1>5, <1>8 DEF EvidenceIsPersisted, At, IsSelected, IdsOf
<1> QED
  BY <1>2, <1>3, <1>9, EnoughBeforeVerdict DEF Process, Persisting

LEMMA PutStep ==
  ASSUME EvidenceInv, OwnInv', NEW w \in Workers, Put(w)
  PROVE  EvidenceInv'
<1>1. NeedsRow(w) /\ worker[w].pc = "put" /\ release' = release
  BY DEF Put, At, NeedsRow, storeVars
<1>2. Persisting(w) /\ worker \in [Workers -> WorkerStates]
  BY <1>1, PersistingFacts
<1>3. CASE Continue(w, "completeError")
  <2>1. worker'[w].pc = "completeError"
    BY <1>2, <1>3 DEF Continue, WorkerStates
  <2> QED
    BY <1>1, <1>2, <2>1, EnoughBeforeVerdict DEF Process, Persisting, EvidenceIsPersisted, At
<1>4. CASE RunIsThere(w)
  <2> DEFINE row == [runs[RunKey(w)] EXCEPT !.artifact = ArtifactOf(CurrentResult(w))]
  <2>1. /\ runs' = [runs EXCEPT ![RunKey(w)] = row]
        /\ Continue(w, "complete")
    BY <1>4 DEF Put
  <2>2. row # NoRun /\ row.artifact = ArtifactOf(CurrentResult(w))
    <3>1. runs[RunKey(w)] \in Runs
      BY <1>2, <1>4 DEF RunIsThere, Persisting, EvidenceInv, OwnInv, TypeInv, RunsAreTyped
    <3>2. row \in Runs /\ row.artifact = ArtifactOf(CurrentResult(w))
      BY <3>1 DEF Runs, ArtifactOf
    <3> QED
      BY <3>2, ProcessorAssumption
  <2> HIDE DEF row
  <2>3. /\ worker'[w].pc = "complete" /\ worker'[w].attempt = worker[w].attempt
        /\ worker'[w].results = worker[w].results /\ worker'[w].next = worker[w].next
    BY <1>2, <2>1 DEF Continue, WorkerStates
  <2>4. IsSelected(worker[w].results) /\ RowsUpTo(w)
    BY <1>1, <1>2 DEF Persisting, At
  <2>5. /\ \A i \in DOMAIN worker[w].results : i # worker[w].next =>
             RowOf(w, worker[w].results[i].id)' = RowOf(w, worker[w].results[i].id)
        /\ RowOf(w, CurrentResult(w).id)' = row
        /\ \A test \in TestIds \ {CurrentResult(w).id} : RowOf(w, test)' = RowOf(w, test)
    <3>1. /\ \A i \in DOMAIN worker[w].results :
               /\ worker[w].results[i].id \in TestIds
               /\ i # worker[w].next => worker[w].results[i].id # CurrentResult(w).id
          /\ \A id \in TestIds :
               RowOf(w, id)' = IF id = CurrentResult(w).id THEN row ELSE RowOf(w, id)
      BY <1>1, <2>1, <2>3, <2>4, OneRowChanges DEF EvidenceInv
    <3>2. CurrentResult(w).id \in TestIds /\ CurrentResult(w)' = CurrentResult(w)
      BY <1>2, <2>3 DEF Persisting, Results, CurrentResult
    <3>3. RowOf(w, CurrentResult(w).id)' = row
      BY <3>1, <3>2
    <3> QED
      BY <2>3, <3>1, <3>3
  <2>6. worker[w].next \in DOMAIN worker[w].results /\ worker[w].next \in Int
        /\ \A i \in DOMAIN worker[w].results : i \in Int
    BY <1>2 DEF Persisting
  <2>7. RowsUpTo(w)'
    <3>1. ASSUME NEW i \in DOMAIN worker[w].results, i < worker[w].next
          PROVE  LET result == worker[w].results[i] IN
                 /\ RowOf(w, result.id)' # NoRun
                 /\ RowOf(w, result.id)'.status = result.status
                 /\ RowOf(w, result.id)'.artifact = ArtifactOf(result)
      <4>1. i # worker[w].next
        BY <2>6, <3>1
      <4> QED
        BY <2>4, <2>5, <3>1, <4>1 DEF RowsUpTo
    <3>2. ASSUME NEW test \in TestIds, RowOf(w, test)' # NoRun
          PROVE  \E i \in DOMAIN worker[w].results :
                   worker[w].results[i].id = test /\ (i < worker[w].next \/ i = worker[w].next)
      <4>1. CASE test = CurrentResult(w).id
        BY <2>6, <4>1 DEF CurrentResult
      <4>2. CASE test # CurrentResult(w).id
        BY <2>4, <2>5, <3>2, <4>2 DEF RowsUpTo
      <4> QED
        BY <4>1, <4>2
    <3> QED
      BY <2>2, <2>3, <2>5, <3>1, <3>2 DEF RowsUpTo, At, CurrentResult
  <2>8. EvidenceIsPersisted(w)' /\ ~At(w, "toGate")'
    BY <2>3, <2>4, <2>7 DEF EvidenceIsPersisted, At, IsSelected, IdsOf
  <2> QED
    BY <1>1, <1>2, <2>8, EnoughBeforeVerdict DEF Process, Persisting
<1> QED
  BY <1>3, <1>4 DEF Put

LEMMA CompleteErrorStep ==
  ASSUME EvidenceInv, OwnInv', NEW w \in Workers, CompleteError(w)
  PROVE  EvidenceInv'
<1>1. NeedsRow(w) /\ release' = release
  BY DEF CompleteError, At, NeedsRow, storeVars
<1>2. Persisting(w) /\ worker \in [Workers -> WorkerStates]
  BY <1>1, PersistingFacts
<1>3. worker'[w].pc = "throw"
  BY <1>2 DEF CompleteError, Leave, IdleWorker
<1> QED
  BY <1>1, <1>2, <1>3, EnoughBeforeVerdict DEF Process, Persisting, EvidenceIsPersisted, At

\* The result is persisted, and the next one is to be started.
LEMMA CompleteStep ==
  ASSUME EvidenceInv, OwnInv', NEW w \in Workers, Complete(w)
  PROVE  EvidenceInv'
<1>1. NeedsRow(w) /\ worker[w].pc = "complete" /\ release' = release
  BY DEF Complete, At, NeedsRow, storeVars
<1>2. Persisting(w) /\ worker \in [Workers -> WorkerStates]
  BY <1>1, PersistingFacts
<1>3. CASE Leave(w, "throw")
  <2>1. worker'[w].pc = "throw"
    BY <1>2, <1>3 DEF Leave, IdleWorker
  <2> QED
    BY <1>1, <1>2, <2>1, EnoughBeforeVerdict DEF Process, Persisting, EvidenceIsPersisted, At
<1>4. CASE RunIsThere(w)
  <2> DEFINE row == [runs[RunKey(w)] EXCEPT !.status = CurrentResult(w).status]
             results == worker[w].results
             next == worker[w].next
             pc == IF next < Len(results) THEN "start" ELSE "toAnalyzing"
  <2>1. /\ runs' = [runs EXCEPT ![RunKey(w)] = row]
        /\ worker' = [worker EXCEPT ![w].run = 0, ![w].next = next + 1, ![w].pc = pc]
    BY <1>4 DEF Complete
  <2>2. /\ row # NoRun /\ row.status = CurrentResult(w).status
        /\ row.artifact = runs[RunKey(w)].artifact
    <3>1. runs[RunKey(w)] \in Runs
      BY <1>2, <1>4 DEF RunIsThere, Persisting, EvidenceInv, OwnInv, TypeInv, RunsAreTyped
    <3>2. CurrentResult(w).status \in {"PASSED", "FAILED"}
      BY <1>2 DEF Persisting, Results, TestStatuses
    <3>3. /\ row \in Runs /\ row.status = CurrentResult(w).status
          /\ row.artifact = runs[RunKey(w)].artifact
      BY <3>1, <3>2 DEF Runs
    <3> QED
      BY <3>3, ProcessorAssumption
  <2> HIDE DEF row
  <2>3. /\ worker'[w].pc = pc /\ worker'[w].attempt = worker[w].attempt
        /\ worker'[w].results = results /\ worker'[w].next = next + 1
    BY <1>2, <2>1 DEF WorkerStates
  <2>4. IsSelected(results) /\ RowsUpTo(w)
    BY <1>1, <1>2 DEF Persisting, At
  <2>5. /\ \A i \in DOMAIN results :
             /\ results[i].id \in TestIds
             /\ i # next => results[i].id # CurrentResult(w).id
        /\ \A id \in TestIds :
             RowOf(w, id)' = IF id = CurrentResult(w).id THEN row ELSE RowOf(w, id)
    BY <1>1, <2>1, <2>3, <2>4, OneRowChanges DEF EvidenceInv
  <2>6. /\ next \in DOMAIN results /\ next \in Int
        /\ CurrentResult(w) = results[next] /\ CurrentResult(w).id \in TestIds
        /\ DOMAIN results = 1 .. Len(results)
    BY <1>2 DEF Persisting, CurrentResult, Results
  <2>7. row.artifact = ArtifactOf(results[next])
    BY <1>1, <1>2, <2>2, <2>4 DEF RowsUpTo, At, RowOf, Persisting, CurrentResult
  <2>8. ASSUME NEW i \in DOMAIN results, i < next + 1
        PROVE  /\ runs'[<<worker[w].attempt, results[i].id>>] # NoRun
               /\ runs'[<<worker[w].attempt, results[i].id>>].status = results[i].status
               /\ runs'[<<worker[w].attempt, results[i].id>>].artifact = ArtifactOf(results[i])
    <3>1. CASE i = next
      <4>1. runs'[<<worker[w].attempt, results[i].id>>] = row
        BY <2>3, <2>5, <2>6, <3>1 DEF RowOf
      <4> QED
        BY <2>2, <2>6, <2>7, <3>1, <4>1
    <3>2. CASE i # next
      <4>1. i < next
        BY <2>6, <2>8, <3>2
      <4>2. runs'[<<worker[w].attempt, results[i].id>>] = RowOf(w, results[i].id)
        BY <2>3, <2>5, <3>2 DEF RowOf
      <4> QED
        BY <2>4, <4>1, <4>2 DEF RowsUpTo
    <3> QED
      BY <3>1, <3>2
  <2>9. ASSUME NEW test \in TestIds, RowOf(w, test)' # NoRun
        PROVE  \E i \in DOMAIN results : results[i].id = test /\ i < next + 1
    <3>1. CASE test = CurrentResult(w).id
      BY <2>6, <3>1
    <3>2. CASE test # CurrentResult(w).id
      <4>1. RowOf(w, test) # NoRun
        BY <2>5, <2>9, <3>2
      <4>2. PICK i \in DOMAIN results : results[i].id = test /\ (i < next \/ i = next)
        BY <2>4, <4>1 DEF RowsUpTo
      <4> QED
        BY <2>6, <4>2
    <3> QED
      BY <3>1, <3>2
  <2>10. pc \in {"start", "toAnalyzing"} /\ (pc = "toAnalyzing" => next + 1 = Len(results) + 1)
    <3>1. next \in 1 .. Len(results)
      BY <1>2 DEF Persisting
    <3> QED
      BY <3>1
  <2> HIDE DEF pc
  <2>11. RowsUpTo(w)'
    <3>1. ~At(w, "complete")' /\ (At(w, "toAnalyzing")' => next + 1 = Len(results) + 1)
      BY <2>3, <2>10 DEF At
    <3>2. \A i \in DOMAIN worker'[w].results : i < worker'[w].next =>
            /\ runs'[<<worker'[w].attempt, worker'[w].results[i].id>>] # NoRun
            /\ runs'[<<worker'[w].attempt, worker'[w].results[i].id>>].status
                 = worker'[w].results[i].status
            /\ runs'[<<worker'[w].attempt, worker'[w].results[i].id>>].artifact
                 = ArtifactOf(worker'[w].results[i])
      BY <2>3, <2>8
    <3>3. \A test \in TestIds : RowOf(w, test)' # NoRun =>
            \E i \in DOMAIN worker'[w].results :
              worker'[w].results[i].id = test /\ i < worker'[w].next
      BY <2>3, <2>9
    <3> QED
      BY <2>3, <3>1, <3>2, <3>3 DEF RowsUpTo, RowOf
  <2>12. EvidenceIsPersisted(w)' /\ ~At(w, "toGate")'
    BY <2>3, <2>4, <2>10, <2>11 DEF EvidenceIsPersisted, At, IsSelected, IdsOf
  <2> QED
    BY <1>1, <1>2, <2>12, EnoughBeforeVerdict DEF Process, Persisting
<1> QED
  BY <1>3, <1>4 DEF Complete

\* A call that is turned down, like one that fails, ends the attempt.
LEMMA LeavingStep ==
  ASSUME EvidenceInv, OwnInv', NEW w \in Workers, Process(w), ~At(w, "idle"), ~At(w, "find"),
         ~At(w, "return"), ~At(w, "throw"), Leave(w, "throw"), release' = release
  PROVE  EvidenceInv'
<1>1. worker \in [Workers -> WorkerStates] /\ release.status \notin FinalStatuses
  BY DEF EvidenceInv, OwnInv, TypeInv, WorkersAreTyped, FinalIsNotProcessed, Processing, At
<1>2. worker'[w].pc = "throw"
  BY <1>1 DEF Leave, IdleWorker
<1> QED
  BY <1>1, <1>2, EnoughBeforeVerdict DEF EvidenceIsPersisted, At

LEMMA ToTestingStep ==
  ASSUME EvidenceInv, OwnInv', NEW w \in Workers, ToTesting(w)
  PROVE  EvidenceInv'
<1>1. worker \in [Workers -> WorkerStates] /\ StoreTypeOK
  BY DEF EvidenceInv, OwnInv, TypeInv, WorkersAreTyped
<1>2. CASE Leave(w, "throw") /\ UNCHANGED storeVars
  BY <1>2, LeavingStep DEF ToTesting, Process, At, storeVars
<1>3. CASE Continue(w, "prepare") /\ SetStatus("TESTING")
  <2>1. worker'[w].pc = "prepare"
    BY <1>1, <1>3 DEF Continue, WorkerStates
  <2>2. release'.status = "TESTING"
    BY <1>1, <1>3 DEF SetStatus, StoreTypeOK
  <2>3. release'.status \notin FinalStatuses
    BY <2>2 DEF FinalStatuses
  <2> QED
    BY <2>1, <2>3, EnoughBeforeVerdict DEF EvidenceIsPersisted, At, Process
<1> QED
  BY <1>2, <1>3 DEF ToTesting, Transition, TransitionRelease

LEMMA ToAnalyzingStep ==
  ASSUME EvidenceInv, OwnInv', NEW w \in Workers, ToAnalyzing(w)
  PROVE  EvidenceInv'
<1>1. worker \in [Workers -> WorkerStates] /\ StoreTypeOK
  BY DEF EvidenceInv, OwnInv, TypeInv, WorkersAreTyped
<1>2. CASE Leave(w, "throw") /\ UNCHANGED storeVars
  BY <1>2, LeavingStep DEF ToAnalyzing, Process, At, storeVars
<1>3. CASE Continue(w, "upsert") /\ SetStatus("ANALYZING")
  <2>1. /\ worker'[w].pc = "upsert" /\ worker'[w].results = worker[w].results
        /\ worker'[w].attempt = worker[w].attempt
    BY <1>1, <1>3 DEF Continue, WorkerStates
  <2>2. release'.status \notin FinalStatuses
    <3>1. release'.status = "ANALYZING"
      BY <1>1, <1>3 DEF SetStatus, StoreTypeOK
    <3> QED
      BY <3>1 DEF FinalStatuses
  <2>3. worker[w].results = AttemptSummary(worker[w].attempt)
    BY PersistedIsSummary DEF ToAnalyzing, EvidenceInv, OwnInv, TypeInv
  <2>4. runs' = runs
    BY DEF ToAnalyzing, Transition, EvidenceUnchanged
  <2>5. AttemptSummary(worker[w].attempt)' = AttemptSummary(worker[w].attempt)
    BY <2>1, <2>4 DEF AttemptSummary
  <2>6. EvidenceIsPersisted(w)' /\ ~At(w, "toGate")'
    BY <2>1, <2>3, <2>5 DEF EvidenceIsPersisted, At
  <2> QED
    BY <2>2, <2>6, EnoughBeforeVerdict DEF Process
<1> QED
  BY <1>2, <1>3 DEF ToAnalyzing, Transition, TransitionRelease

LEMMA SummaryStep ==
  ASSUME EvidenceInv, OwnInv', NEW w \in Workers, Summary(w)
  PROVE  EvidenceInv'
<1>1. worker \in [Workers -> WorkerStates] /\ release' = release /\ runs' = runs
  BY DEF EvidenceInv, OwnInv, TypeInv, WorkersAreTyped, Summary, storeVars, EvidenceUnchanged
<1>2. release'.status \notin FinalStatuses
  BY <1>1 DEF Summary, EvidenceInv, FinalIsNotProcessed, Processing, At
<1>3. /\ worker'[w].pc = "upsert" /\ worker'[w].attempt = worker[w].attempt
      /\ worker'[w].results = AttemptSummary(worker[w].attempt)
  BY <1>1 DEF Summary, WorkerStates
<1>4. AttemptSummary(worker[w].attempt)' = AttemptSummary(worker[w].attempt)
  BY <1>1, <1>3 DEF AttemptSummary
<1>5. EvidenceIsPersisted(w)' /\ ~At(w, "toGate")'
  BY <1>3, <1>4 DEF EvidenceIsPersisted, At
<1> QED
  BY <1>2, <1>5, EnoughBeforeVerdict DEF Process

\* The assessment explains the verdict the gate is about to be asked for.
LEMMA UpsertStep ==
  ASSUME EvidenceInv, OwnInv', NEW w \in Workers, Upsert(w)
  PROVE  EvidenceInv'
<1>1. /\ worker \in [Workers -> WorkerStates] /\ release' = release /\ runs' = runs
      /\ assessment' = [attempt |-> worker[w].attempt, outcome |-> Verdict(w)]
      /\ Continue(w, "toGate")
  BY DEF EvidenceInv, OwnInv, TypeInv, WorkersAreTyped, Upsert, UpsertAssessment,
     EvidenceUnchanged
<1>2. release'.status \notin FinalStatuses
  BY <1>1 DEF Upsert, EvidenceInv, FinalIsNotProcessed, Processing, At
<1>3. /\ worker'[w].pc = "toGate" /\ worker'[w].attempt = worker[w].attempt
      /\ worker'[w].results = worker[w].results
  BY <1>1 DEF Continue, WorkerStates
<1>4. AttemptSummary(worker[w].attempt)' = AttemptSummary(worker[w].attempt)
  BY <1>1, <1>3 DEF AttemptSummary
<1>5. worker[w].results = AttemptSummary(worker[w].attempt)
  BY DEF Upsert, EvidenceInv, EvidenceIsPersisted, At
<1>6. EvidenceIsPersisted(w)'
  BY <1>3, <1>4, <1>5 DEF EvidenceIsPersisted
<1>7. VerdictIsExplained(w)'
  <2>1. Verdict(w)' = Verdict(w)
    BY <1>3 DEF Verdict
  <2> QED
    BY <1>1, <1>3, <2>1 DEF VerdictIsExplained
<1>8. WorkIsBacked(w)' /\ AssessmentExplainsVerdict' /\ GateBackedByEvidence'
  BY <1>2, <1>6, <1>7 DEF WorkIsBacked, FinalIsNotProcessed, AssessmentExplainsVerdict,
     GateBackedByEvidence
<1> QED
  BY <1>8, EnoughForProcess DEF Process

\* The release takes the verdict.
LEMMA ToGateStep ==
  ASSUME EvidenceInv, OwnInv', NEW w \in Workers, ToGate(w)
  PROVE  EvidenceInv'
<1>1. worker \in [Workers -> WorkerStates] /\ StoreTypeOK /\ runs' = runs
  BY DEF EvidenceInv, OwnInv, TypeInv, WorkersAreTyped, ToGate, Transition, EvidenceUnchanged
<1>2. CASE Leave(w, "throw") /\ UNCHANGED storeVars
  BY <1>2, LeavingStep DEF ToGate, Process, At, storeVars
<1>3. CASE /\ CanTransition("ANALYZING", worker[w].attempt, Verdict(w))
           /\ SetStatus(Verdict(w)) /\ UNCHANGED assessment /\ Leave(w, "return")
  <2>1. worker'[w].pc = "return"
    BY <1>1, <1>3 DEF Leave, IdleWorker
  <2>2. /\ release'.status = Verdict(w) /\ release'.attempt = worker[w].attempt
        /\ release.attempt = worker[w].attempt /\ release.status = "ANALYZING"
    BY <1>1, <1>3 DEF SetStatus, StoreTypeOK, CanTransition
  <2>3. assessment' = [attempt |-> release'.attempt, outcome |-> release'.status]
    BY <1>3, <2>2 DEF ToGate, EvidenceInv, VerdictIsExplained
  <2>4. worker[w].results = AttemptSummary(worker[w].attempt)
    BY DEF ToGate, EvidenceInv, EvidenceIsPersisted, At
  <2>5. AttemptSummary(release.attempt)' = AttemptSummary(worker[w].attempt)
    BY <1>1, <2>2 DEF AttemptSummary
  <2>6. GateBackedByEvidence'
    BY <2>2, <2>4, <2>5 DEF GateBackedByEvidence, Verdict
  <2>7. WorkIsBacked(w)'
    BY <2>1 DEF WorkIsBacked, EvidenceIsPersisted, VerdictIsExplained, FinalIsNotProcessed,
       Processing, At
  <2> QED
    BY <2>3, <2>6, <2>7, EnoughForProcess DEF Process, AssessmentExplainsVerdict
<1> QED
  BY <1>2, <1>3 DEF ToGate, Transition, TransitionRelease

-----------------------------------------------------------------------------
LEMMA EvidenceInvIsPreserved ==
  ASSUME EvidenceInv, [Next]_vars
  PROVE  EvidenceInv'
<1>1. OwnInv' /\ StoreTypeOK
  BY OwnInvIsPreserved DEF EvidenceInv, OwnInv, TypeInv
<1>2. CASE Outside /\ ReleaseMoves
  BY <1>1, <1>2, OutsideKeepsEvidence
<1>3. ASSUME NEW w \in Workers, Process(w) PROVE EvidenceInv'
  BY <1>1, <1>3, FirstSteps, PrepareStep, StartStep, PutStep, CompleteErrorStep, CompleteStep,
     ToTestingStep, ToAnalyzingStep, SummaryStep, UpsertStep, ToGateStep DEF Process
<1> QED
  BY <1>1, <1>2, <1>3, OutsideLeavesVerdicts

LEMMA InitIsBacked ==
  ASSUME Init, Budget["lockLoss"] = 0, Budget["redis"] = 0
  PROVE  EvidenceInv
<1>1. \A w \in Workers : worker[w].pc = "idle"
  BY DEF Init, ProcessorInit, IdleWorker
<1>2. release.status \notin FinalStatuses
  BY DEF Init, StoreInit, NoStatus, FinalStatuses
<1> QED
  BY <1>1, <1>2, InitIsOwned DEF EvidenceInv, EvidenceIsPersisted, VerdictIsExplained,
     FinalIsNotProcessed, Processing, At, AssessmentExplainsVerdict, GateBackedByEvidence

\* As long as no worker that is alive loses its job's lock and Redis keeps its
\* data, SAFE and BLOCKED are what the gate makes of the durable evidence of
\* the release's attempt, for any registry, any number of retries and workers,
\* and whatever crashes, throws, stalls or is swept (release-processor.ts:142-212).
THEOREM VerdictsAreBacked ==
  ASSUME Budget["lockLoss"] = 0, Budget["redis"] = 0
  PROVE  Spec => []GateBackedByEvidence
<1>1. Init => EvidenceInv
  BY InitIsBacked
<1>2. EvidenceInv /\ [Next]_vars => EvidenceInv'
  BY EvidenceInvIsPreserved
<1>3. EvidenceInv => GateBackedByEvidence
  BY DEF EvidenceInv
<1> QED
  BY <1>1, <1>2, <1>3, PTL DEF Spec

\* Under the same conditions the assessment that is shown with a verdict is of
\* the release's attempt and explains that verdict, not one of another attempt
\* or an earlier failure (risk-assessment-repository.ts, release-processor.ts).
THEOREM AssessmentsExplainVerdicts ==
  ASSUME Budget["lockLoss"] = 0, Budget["redis"] = 0
  PROVE  Spec => []AssessmentExplainsVerdict
<1>1. Init => EvidenceInv
  BY InitIsBacked
<1>2. EvidenceInv /\ [Next]_vars => EvidenceInv'
  BY EvidenceInvIsPreserved
<1>3. EvidenceInv => AssessmentExplainsVerdict
  BY DEF EvidenceInv
<1> QED
  BY <1>1, <1>2, <1>3, PTL DEF Spec

-----------------------------------------------------------------------------
(***************************************************************************)
(* SAFE is never said of a candidate that breaks a consumer, whatever      *)
(* fails: also when two workers delete and write each other's evidence, a  *)
(* contract check that passed is one of a compatible candidate, in the     *)
(* database and in the memory of any worker.                               *)
(***************************************************************************)
IsSound(id, status) == id = ContractTest /\ status = "PASSED" => ~breaking

ResultsAreSound(results) == \A i \in DOMAIN results : IsSound(results[i].id, results[i].status)

RowsAreSound == \A key \in Keys : runs[key] # NoRun => IsSound(key[2], runs[key].status)

PassedIsCompatible ==
  /\ \A w \in Workers : ResultsAreSound(worker[w].results)
  /\ RowsAreSound

SafeInv == TypeInv /\ PassedIsCompatible /\ SafeIsCompatible

\* A gate that says SAFE has seen the contract check pass.
LEMMA SafeIsSound ==
  ASSUME NEW results \in Seq(Results), ResultsAreSound(results), GateOf(results) = "SAFE"
  PROVE  ~breaking
<1>1. /\ \A id \in Mandatory : ProvenBy(results, id)
      /\ CleanBy(results)
  <2>1. \A result \in Results : result.status \in TestStatuses
    BY DEF Results
  <2>2. GateOf(results) = IF ~(\A id \in Mandatory : ProvenBy(results, id)) THEN "ERROR"
                          ELSE IF CleanBy(results) THEN "SAFE"
                          ELSE "BLOCKED"
    BY <2>1, GateIsJustified
  <2> QED
    BY <2>2
<1>2. \E i \in DOMAIN results : results[i].id = ContractTest
  <2>1. Cardinality(ResultsOf(results, ContractTest)) = 1
    BY <1>1, ProcessorAssumption DEF ProvenBy
  <2>2. ResultsOf(results, ContractTest) # {}
    <3>1. Cardinality({}) = 0
      BY FS_EmptySet
    <3>2. Cardinality({}) # Cardinality(ResultsOf(results, ContractTest))
      BY <2>1, <3>1
    <3> QED
      BY <3>2, Zenon
  <2> QED
    BY <2>2 DEF ResultsOf
<1>3. PICK i \in DOMAIN results : results[i].id = ContractTest
  BY <1>2
<1>4. results[i].status = "PASSED"
  BY <1>1, <1>3, ProcessorAssumption DEF CleanBy
<1> QED
  BY <1>3, <1>4 DEF ResultsAreSound, IsSound

\* The summary makes no result pass that the database does not say passed.
LEMMA SummaryIsSound ==
  ASSUME RowsAreSound, NEW attempt \in Attempts
  PROVE  ResultsAreSound(AttemptSummary(attempt))
<1> DEFINE ran == Among(Registry, {id \in TestIds : runs[<<attempt, id>>] # NoRun})
<1>1. /\ ran \in Seq(TestIds)
      /\ Range(ran) = TestIds \cap {id \in TestIds : runs[<<attempt, id>>] # NoRun}
  BY RegistryAssumption, AmongPlaces, AmongElements
<1> HIDE DEF ran
<1>2. \A i \in DOMAIN ran : ran[i] \in TestIds /\ runs[<<attempt, ran[i]>>] # NoRun
  BY <1>1 DEF Range
<1>3. ASSUME NEW i \in DOMAIN ran
      PROVE  LET result == SummaryOf(ran[i], runs[<<attempt, ran[i]>>]) IN
             IsSound(result.id, result.status)
  <2> DEFINE row == runs[<<attempt, ran[i]>>]
             result == SummaryOf(ran[i], row)
  <2>1. result.id = ran[i] /\ (result.status = "PASSED" => row.status = "PASSED")
    BY DEF SummaryOf, Result
  <2>2. IsSound(ran[i], row.status)
    <3>1. <<attempt, ran[i]>> \in Keys
      BY <1>2 DEF Keys
    <3>2. <<attempt, ran[i]>>[2] = ran[i]
      OBVIOUS
    <3> QED
      BY <1>2, <3>1, <3>2 DEF RowsAreSound
  <2> HIDE DEF row, result
  <2>3. IsSound(result.id, result.status)
    BY <2>1, <2>2 DEF IsSound
  <2> QED
    BY <2>3 DEF result, row
<1>4. AttemptSummary(attempt) = [i \in DOMAIN ran |-> SummaryOf(ran[i], runs[<<attempt, ran[i]>>])]
  BY DEF AttemptSummary, ran
<1> QED
  BY <1>3, <1>4 DEF ResultsAreSound

\* The contract check passes compatible candidates only.
LEMMA ChecksAreSound ==
  ASSUME breaking \in BOOLEAN, NEW answer, NEW results,
         DOMAIN results = DOMAIN SelectTrustedTests(answer),
         \A i \in DOMAIN SelectTrustedTests(answer) :
           results[i] \in Outcomes(SelectTrustedTests(answer)[i])
  PROVE  ResultsAreSound(results)
<1>1. \A id : \A result \in Outcomes(id) : IsSound(result.id, result.status)
  BY DEF Outcomes, CheckOutcomes, Result, IsSound
<1> QED
  BY <1>1 DEF ResultsAreSound

\* It is enough to look at the worker and at the row it writes.
LEMMA SoundWorker ==
  ASSUME WorkersAreTyped, PassedIsCompatible, NEW w \in Workers, UNCHANGED breaking,
         OthersWait(w), ResultsAreSound(worker'[w].results), RowsAreSound'
  PROVE  PassedIsCompatible'
<1> SUFFICES ASSUME NEW v \in Workers PROVE ResultsAreSound(worker'[v].results)
  BY DEF PassedIsCompatible, ResultsAreSound, IsSound
<1> QED
  BY DEF OthersWait, PassedIsCompatible

LEMMA SoundRow ==
  ASSUME RunsAreTyped, RowsAreSound, UNCHANGED breaking,
         NEW key \in Keys, NEW row, runs' = [runs EXCEPT ![key] = row],
         IsSound(key[2], row.status)
  PROVE  RowsAreSound'
BY DEF RunsAreTyped, RowsAreSound, IsSound

LEMMA LeavingIsSound ==
  ASSUME WorkersAreTyped, PassedIsCompatible, UNCHANGED breaking, RowsAreSound',
         NEW w \in Workers, \E pc : Continue(w, pc) \/ Leave(w, pc)
  PROVE  PassedIsCompatible'
<1>1. worker'[w].results \in {worker[w].results, <<>>}
  BY DEF WorkersAreTyped, WorkerStates, Continue, Leave, IdleWorker
<1>2. ResultsAreSound(<<>>)
  BY DEF ResultsAreSound
<1>3. ResultsAreSound(worker'[w].results)
  BY <1>1, <1>2 DEF PassedIsCompatible
<1>4. OthersWait(w)
  BY OneWorkerMoves
<1> QED
  BY <1>3, <1>4, SoundWorker

LEMMA ProcessIsSound ==
  ASSUME TypeInv, TypeInv', PassedIsCompatible, NEW w \in Workers, Process(w)
  PROVE  PassedIsCompatible'
<1> USE DEF TypeInv
<1>0. /\ worker \in [Workers -> WorkerStates] /\ RowsAreSound
      /\ ResultsAreSound(worker[w].results) /\ worker[w].attempt \in Attempts
  BY DEF WorkersAreTyped, WorkerStates, PassedIsCompatible
<1>1. CASE /\ UNCHANGED <<breaking, runs>> /\ \E pc : Continue(w, pc) \/ Leave(w, pc)
  BY <1>0, <1>1, LeavingIsSound DEF RowsAreSound, IsSound
<1>2. CASE FetchJob(w)
  <2>1. /\ worker' = [worker EXCEPT ![w] = [IdleWorker EXCEPT !.pc = "find", !.attempt = job.attempt]]
        /\ UNCHANGED <<breaking, runs>>
    BY <1>2 DEF FetchJob, EvidenceUnchanged
  <2>2. worker'[w].results = <<>>
    BY <1>0, <2>1 DEF IdleWorker
  <2>3. ResultsAreSound(worker'[w].results)
    BY <2>2 DEF ResultsAreSound
  <2>4. OthersWait(w) /\ RowsAreSound'
    BY <1>0, <2>1, OneWorkerMoves DEF RowsAreSound, IsSound
  <2> QED
    BY <2>1, <2>3, <2>4, SoundWorker
<1>3. CASE PrepareAndCheck(w)
  <2>1. RowsAreSound' /\ UNCHANGED breaking
    <3>1. \A key \in Keys : runs'[key] \in {NoRun, runs[key]}
      BY <1>3 DEF PrepareAndCheck
    <3>2. UNCHANGED breaking
      BY <1>3 DEF PrepareAndCheck
    <3> QED
      BY <1>0, <3>1, <3>2 DEF RowsAreSound, IsSound
  <2>2. CASE Leave(w, "throw")
    BY <2>1, <2>2, LeavingIsSound
  <2>3. ASSUME NEW answer, NEW results,
               DOMAIN results = DOMAIN SelectTrustedTests(answer),
               \A i \in DOMAIN SelectTrustedTests(answer) :
                 results[i] \in Outcomes(SelectTrustedTests(answer)[i]),
               worker' = [worker EXCEPT ![w].pc = "start", ![w].next = 1,
                                        ![w].results = results]
        PROVE  PassedIsCompatible'
    <3>1. ResultsAreSound(results)
      BY <2>3, ChecksAreSound DEF RunsAreTyped
    <3>2. worker'[w].results = results /\ OthersWait(w)
      BY <1>0, <2>3 DEF WorkerStates, OthersWait
    <3> QED
      BY <2>1, <3>1, <3>2, SoundWorker
  <2> QED
    BY <1>3, <2>2, <2>3 DEF PrepareAndCheck, RunChecks
<1>4. CASE Start(w) \/ Put(w) \/ CompleteError(w) \/ Complete(w)
  <2>1. NeedsRow(w) /\ UNCHANGED breaking
    BY <1>4 DEF Start, Put, CompleteError, Complete, At, NeedsRow
  <2>2. /\ RunKey(w) \in Keys /\ CurrentResult(w) \in Results
        /\ RunKey(w)[2] = CurrentResult(w).id
        /\ IsSound(CurrentResult(w).id, CurrentResult(w).status)
    <3>1. /\ RunKey(w) \in Keys /\ CurrentResult(w) \in Results
          /\ worker[w].next \in DOMAIN worker[w].results
      BY <2>1, CurrentIsTyped DEF WorkersAreTyped
    <3> QED
      BY <1>0, <3>1 DEF RunKey, CurrentResult, ResultsAreSound
  <2>3. OthersWait(w) /\ worker'[w].results \in {worker[w].results, <<>>}
    <3>1. CASE \E pc : Continue(w, pc) \/ Leave(w, pc)
      BY <1>0, <3>1, OneWorkerMoves DEF Continue, Leave, IdleWorker, WorkerStates
    <3>2. CASE Start(w)
      <4>1. \E id : worker' = [worker EXCEPT ![w].pc = "put", ![w].run = id]
        BY <3>2 DEF Start
      <4> QED
        BY <1>0, <4>1 DEF OthersWait, WorkerStates
    <3>3. ASSUME NEW next, NEW pc,
                 worker' = [worker EXCEPT ![w].run = 0, ![w].next = next, ![w].pc = pc]
          PROVE  OthersWait(w) /\ worker'[w].results = worker[w].results
      BY <1>0, <3>3 DEF OthersWait, WorkerStates
    <3> QED
      BY <1>4, <3>1, <3>2, <3>3 DEF Put, CompleteError, Complete
  <2>4. ResultsAreSound(worker'[w].results)
    BY <1>0, <2>3 DEF ResultsAreSound
  <2>5. RowsAreSound'
    <3>1. CASE runs' = runs
      BY <1>0, <2>1, <3>1 DEF RowsAreSound, IsSound
    <3>2. ASSUME NEW row, runs' = [runs EXCEPT ![RunKey(w)] = row],
                 IsSound(CurrentResult(w).id, row.status)
          PROVE  RowsAreSound'
      BY <1>0, <2>1, <2>2, <3>2, SoundRow
    <3>3. CASE Start(w)
      <4>1. \E id : runs' = [runs EXCEPT ![RunKey(w)] =
                               [id |-> id, status |-> "RUNNING", artifact |-> "none"]]
        BY <3>3 DEF Start
      <4> QED
        BY <3>2, <4>1 DEF IsSound
    <3>4. ASSUME RunIsThere(w)
          PROVE  /\ runs[RunKey(w)] \in Runs
                 /\ IsSound(CurrentResult(w).id, runs[RunKey(w)].status)
      BY <1>0, <2>2, <3>4 DEF RunIsThere, RunsAreTyped, RowsAreSound
    <3>5. ASSUME RunIsThere(w), NEW row \in Runs, row.status = runs[RunKey(w)].status,
                 runs' = [runs EXCEPT ![RunKey(w)] = row]
          PROVE  RowsAreSound'
      BY <3>2, <3>4, <3>5
    <3>6. CASE Put(w) /\ RunIsThere(w)
      <4> DEFINE row == [runs[RunKey(w)] EXCEPT !.artifact = ArtifactOf(CurrentResult(w))]
      <4>1. row \in Runs /\ row.status = runs[RunKey(w)].status
        BY <3>4, <3>6 DEF Runs, ArtifactOf
      <4>2. runs' = [runs EXCEPT ![RunKey(w)] = row]
        BY <3>6 DEF Put
      <4> QED
        BY <3>5, <3>6, <4>1, <4>2
    <3>7. ASSUME RunIsThere(w), NEW status \in {"ERROR", CurrentResult(w).status},
                 runs' = [runs EXCEPT ![RunKey(w)].status = status]
          PROVE  RowsAreSound'
      <4> DEFINE row == [runs[RunKey(w)] EXCEPT !.status = status]
      <4>1. row.status = status
        BY <3>4, <3>7 DEF Runs
      <4>2. IsSound(CurrentResult(w).id, status)
        BY <2>2, <3>7 DEF IsSound
      <4>3. runs' = [runs EXCEPT ![RunKey(w)] = row]
        BY <3>7
      <4> QED
        BY <3>2, <4>1, <4>2, <4>3
    <3> QED
      BY <1>4, <3>1, <3>3, <3>6, <3>7 DEF Put, CompleteError, Complete
  <2> QED
    BY <2>1, <2>3, <2>4, <2>5, SoundWorker
<1>5. CASE Summary(w)
  <2>1. ResultsAreSound(AttemptSummary(worker[w].attempt))
    BY <1>0, SummaryIsSound
  <2>2. worker'[w].results = AttemptSummary(worker[w].attempt) /\ OthersWait(w)
    BY <1>0, <1>5 DEF Summary, WorkerStates, OthersWait
  <2>3. RowsAreSound' /\ UNCHANGED breaking
    BY <1>0, <1>5 DEF Summary, EvidenceUnchanged, RowsAreSound, IsSound
  <2> QED
    BY <2>1, <2>2, <2>3, SoundWorker
<1>6. CASE Find(w)
  BY <1>1, <1>6 DEF Find, EvidenceUnchanged
<1>7. CASE Upsert(w)
  BY <1>1, <1>7 DEF Upsert, EvidenceUnchanged
<1>8. CASE ToTesting(w) \/ ToAnalyzing(w) \/ ToGate(w)
  <2>1. \E from, to, pc : Transition(w, from, to, pc)
    BY <1>8 DEF ToTesting, ToAnalyzing, ToGate
  <2> QED
    BY <1>1, <2>1 DEF Transition, EvidenceUnchanged
<1> QED
  BY <1>2, <1>3, <1>4, <1>5, <1>6, <1>7, <1>8 DEF Process

\* Only the gate makes a release SAFE.
LEMMA ProcessIsSafe ==
  ASSUME TypeInv, PassedIsCompatible, SafeIsCompatible, NEW w \in Workers, Process(w)
  PROVE  SafeIsCompatible'
<1>1. UNCHANGED breaking
  BY DEF Process, FetchJob, Find, ToTesting, PrepareAndCheck, Start, Put, CompleteError,
     Complete, ToAnalyzing, Summary, Upsert, ToGate, Transition, EvidenceUnchanged
<1>2. CASE release' = release
  BY <1>1, <1>2 DEF SafeIsCompatible
<1>3. CASE ToTesting(w) \/ ToAnalyzing(w)
  <2>1. release' = release \/ release'.status \in {"TESTING", "ANALYZING"}
    BY <1>3 DEF ToTesting, ToAnalyzing, Transition, TransitionRelease, SetStatus, storeVars,
       TypeInv, StoreTypeOK
  <2> QED
    BY <1>2, <2>1 DEF SafeIsCompatible
<1>4. CASE ToGate(w)
  <2>1. CASE SetStatus(Verdict(w))
    <3>1. release'.status = GateOf(worker[w].results)
      BY <2>1 DEF SetStatus, Verdict, TypeInv, StoreTypeOK
    <3>2. worker[w].results \in Seq(Results) /\ ResultsAreSound(worker[w].results)
      BY DEF TypeInv, WorkersAreTyped, WorkerStates, PassedIsCompatible
    <3> QED
      BY <1>1, <3>1, <3>2, SafeIsSound DEF SafeIsCompatible
  <2> QED
    BY <1>2, <1>4, <2>1 DEF ToGate, Transition, TransitionRelease, storeVars
<1>5. CASE ~(ToTesting(w) \/ ToAnalyzing(w) \/ ToGate(w))
  <2>1. release' = release
    BY <1>5 DEF Process, FetchJob, Find, PrepareAndCheck, Start, Put, CompleteError, Complete,
       Summary, Upsert, UpsertAssessment, storeVars
  <2> QED
    BY <1>2, <2>1
<1> QED
  BY <1>3, <1>4, <1>5

LEMMA SafeInvIsPreserved ==
  ASSUME SafeInv, [Next]_vars
  PROVE  SafeInv'
<1> USE DEF SafeInv
<1>1. TypeInv' /\ StoreTypeOK
  BY TypeInvIsPreserved DEF TypeInv
<1>2. ASSUME Outside, ReleaseMoves PROVE PassedIsCompatible' /\ SafeIsCompatible'
  <2>1. UNCHANGED <<breaking, runs>>
    BY <1>2 DEF Outside
  <2>2. RowsAreSound'
    BY <2>1 DEF PassedIsCompatible, RowsAreSound, IsSound
  <2>3. ASSUME UNCHANGED worker PROVE PassedIsCompatible'
    BY <2>1, <2>2, <2>3 DEF PassedIsCompatible, ResultsAreSound, IsSound
  <2>4. ASSUME NEW w \in Workers, StopsWorker(w) PROVE PassedIsCompatible'
    BY <2>1, <2>2, <2>4, LeavingIsSound DEF StopsWorker, TypeInv
  <2>5. SafeIsCompatible'
    BY <1>2, <2>1 DEF ReleaseMoves, storeVars, SafeIsCompatible
  <2> QED
    BY <1>2, <2>3, <2>4, <2>5 DEF Outside
<1>3. ASSUME NEW w \in Workers, Process(w) PROVE PassedIsCompatible' /\ SafeIsCompatible'
  BY <1>1, <1>3, ProcessIsSound, ProcessIsSafe
<1> QED
  BY <1>1, <1>2, <1>3, OutsideLeavesVerdicts

\* Whatever fails - workers that lose their job and go on, a Redis that
\* forgets the queue, leases that expire - a candidate whose contract breaks a
\* consumer is never called SAFE, for any registry in which the contract check
\* is mandatory (test-registry.ts:9-44, contract-check.ts, release-gate.ts:16-47).
THEOREM SafeIsNeverBreaking == Spec => []SafeIsCompatible
<1>1. Init => SafeInv
  <2> SUFFICES ASSUME Init PROVE SafeInv
    OBVIOUS
  <2>1. \A w \in Workers : worker[w].results = <<>>
    BY DEF Init, ProcessorInit, IdleWorker
  <2>2. PassedIsCompatible
    BY <2>1 DEF Init, ProcessorInit, PassedIsCompatible, ResultsAreSound, RowsAreSound
  <2>3. SafeIsCompatible
    BY DEF Init, StoreInit, NoStatus, SafeIsCompatible
  <2> QED
    BY <2>2, <2>3, InitIsTyped DEF SafeInv
<1>2. SafeInv /\ [Next]_vars => SafeInv'
  BY SafeInvIsPreserved
<1>3. SafeInv => SafeIsCompatible
  BY DEF SafeInv
<1> QED
  BY <1>1, <1>2, <1>3, PTL DEF Spec

-----------------------------------------------------------------------------
(***************************************************************************)
(* What a clean-up may take away.  Attempts share the id of their job, and *)
(* removeTerminalJob looks at the job in three steps before it removes     *)
(* whatever has the id by then.  While no lease is lost, a retry and the   *)
(* handler of an exhausted job do this under the lock, so the release they *)
(* have seen settled stays so; the handler of a completed job does it      *)
(* without the lock, for a release that has its verdict.                   *)
(***************************************************************************)
NoLeaseIsLost == budget["lease"] = 0 /\ budget["redis"] = 0

InLock(p) == proc[p].call \in LockedCalls /\ proc[p].pc \notin {"idle", "acquire"}

LockIsHeld == \A p \in Procs : InLock(p) => lock = p

\* The steps of each call.
KeepsToItsSteps(p) ==
  \/ Is(p, "none") /\ ~Busy(p)
  \/ Is(p, "submit") /\ proc[p].pc \in {"enqueue", "fail"} /\ proc[p].attempt = 0
  \/ Is(p, "completed") /\ proc[p].pc \in {"removeGet", "removeState", "remove"}
  \/ Is(p, "recover") /\ proc[p].pc \in {"getJob", "getState", "fail"}
  \/ /\ Is(p, "retry")
     /\ proc[p].pc \in {"acquire", "read", "removeGet", "removeState", "remove", "retry",
                        "enqueue", "fail", "release"}
  \/ /\ Is(p, "exhausted")
     /\ proc[p].pc \in {"acquire", "read", "fail", "removeGet", "removeState", "remove",
                        "release"}
     /\ proc[p].target = proc[p].attempt
  \/ /\ Is(p, "reconcile")
     /\ proc[p].pc \in {"acquire", "read", "getJob", "getState", "removeGet", "removeState",
                        "remove", "enqueue", "release"}

\* No call and no job is of an attempt the release has not come to.
IsStarted == release.status \in ProcessingStatuses \cup SettledStatuses
CallIsNotAhead(p) == Busy(p) => IsStarted /\ proc[p].attempt <= release.attempt
JobIsNotAhead == HasJob => IsStarted /\ job.attempt <= release.attempt

RetryIsOfError(p) ==
  Is(p, "retry") /\ proc[p].pc \in {"removeGet", "removeState", "remove", "retry"}
    => release.status = "ERROR"

ExhaustedIsOver(p) ==
  Is(p, "exhausted") /\ proc[p].pc \in {"removeGet", "removeState", "remove"} =>
    \/ release.status \in SettledStatuses
    \/ /\ proc[p].target < release.attempt
       /\ proc[p].pc # "removeGet" /\ HasJob => job.attempt < release.attempt

CallIsInOrder(p) ==
  KeepsToItsSteps(p) /\ CallIsNotAhead(p) /\ RetryIsOfError(p) /\ ExhaustedIsOver(p)

CallInv ==
  /\ TypeInv /\ NoLeaseIsLost /\ LockIsHeld
  /\ release.status = NoStatus \/ IsStarted
  /\ JobIsNotAhead
  /\ \A p \in Procs : CallIsInOrder(p)

-----------------------------------------------------------------------------
\* What the moves of a call make of it.
LEMMA ProcValues ==
  ASSUME proc \in [Procs -> ProcStates], NEW p \in Procs
  PROVE  /\ \A pc : Goto(p, pc) => proc'[p] = [proc[p] EXCEPT !.pc = pc]
         /\ \A state : Begin(p, state) => proc'[p] = state
         /\ Finish(p) => proc'[p] = IdleProc
         /\ End(p) => \/ proc'[p] = IdleProc
                      \/ /\ proc[p].call \in LockedCalls
                         /\ proc'[p] = [proc[p] EXCEPT !.pc = "release"]
         /\ proc[p] = [call |-> proc[p].call, pc |-> proc[p].pc, attempt |-> proc[p].attempt,
                       status |-> proc[p].status, target |-> proc[p].target]
         /\ proc[p].attempt \in Nat /\ proc[p].target \in Nat
BY StoreAssumption DEF Goto, Begin, Finish, End, ProcStates, Attempts

BeginsHandler(p) ==
  /\ ~Busy(p) /\ HasJob /\ UNCHANGED <<lock, storeVars>>
  /\ \/ /\ proc'[p] = Call("completed", "removeGet", job.attempt, "QUEUED")
        /\ \E w \in Workers : At(w, "return")
     \/ proc'[p] = Call("exhausted", "acquire", job.attempt, "QUEUED")

CallMoves(p) ==
  \/ Submit(p) \/ Retry(p) \/ Reconcile(p) \/ Recover(p) \/ BeginsHandler(p)
  \/ Step(p) \/ EnqueueThrows(p) \/ CallThrows(p)

LEMMA ProcMoves ==
  ASSUME proc \in [Procs -> ProcStates], [Next]_vars, NEW p \in Procs
  PROVE  proc'[p] = proc[p] \/ proc'[p] = IdleProc \/ CallMoves(p)
<1> DEFINE Goal == proc'[p] = proc[p] \/ proc'[p] = IdleProc \/ CallMoves(p)
<1>1. ASSUME UNCHANGED proc PROVE Goal
  BY <1>1
<1>2. ASSUME NEW q \in Procs,
             \/ Submit(q) \/ Retry(q) \/ Reconcile(q) \/ Recover(q)
             \/ Step(q) \/ EnqueueThrows(q) \/ CallThrows(q)
      PROVE  Goal
  <2>1. q # p => proc'[p] = proc[p]
    BY <1>2 DEF Submit, Retry, Reconcile, Recover, Sweep, Step, EnqueueThrows, CallThrows,
       Acquire, AcquireTimesOut, Release, ReadRow, Fail, GetJob, GetState, RemoveGet,
       RemoveState, Remove, RetryRow, EnqueueJob, AfterRemoval, Goto, Begin, Finish, End
  <2> QED
    BY <1>2, <2>1 DEF CallMoves
<1>3. ASSUME NEW w \in Workers, Completed(w), UNCHANGED storeVars PROVE Goal
  <2>1. CASE p = <<"settle", w>>
    <3>1. BeginsHandler(p)
      BY <1>3, <2>1 DEF Completed, CompleteJob, Owns, Begin, BeginsHandler
    <3> QED
      BY <3>1 DEF CallMoves
  <2>2. CASE p # <<"settle", w>>
    BY <1>3, <2>2 DEF Completed, Begin
  <2> QED
    BY <2>1, <2>2
<1>4. ASSUME NEW w \in Workers, NEW made, FailedFor(w, made), HasJob,
             UNCHANGED <<storeVars, lock>>
      PROVE  Goal
  <2>1. CASE UNCHANGED proc
    BY <2>1
  <2>2. CASE /\ ~Busy(<<"settle", w>>)
             /\ Begin(<<"settle", w>>, Call("exhausted", "acquire", job.attempt, "QUEUED"))
    <3>1. CASE p = <<"settle", w>>
      <4>1. BeginsHandler(p)
        BY <1>4, <2>2, <3>1 DEF Begin, BeginsHandler
      <4> QED
        BY <4>1 DEF CallMoves
    <3>2. CASE p # <<"settle", w>>
      BY <2>2, <3>2 DEF Begin
    <3> QED
      BY <3>1, <3>2
  <2> QED
    BY <1>4, <2>1, <2>2 DEF FailedFor
<1>5. ASSUME NEW w \in Workers, Report(w) PROVE Goal
  <2>1. CASE Completed(w)
    BY <1>3, <1>5, <2>1 DEF Report
  <2>2. CASE Failed(w)
    BY <1>4, <1>5, <2>2 DEF Report, Failed, FailJob, Owns
  <2>3. CASE Disowned(w)
    BY <1>1, <2>3 DEF Disowned
  <2> QED
    BY <1>5, <2>1, <2>2, <2>3 DEF Report
<1>6. ASSUME NEW w \in Workers, CheckStalled(w) PROVE Goal
  BY <1>1, <1>4, <1>6 DEF CheckStalled, FailStalled, Stalled
<1>7. ASSUME NEW w \in Workers, CrashWorker(w) PROVE Goal
  BY <1>7 DEF CrashWorker
<1>8. ASSUME NEW q \in Procs, CrashRequest(q) PROVE Goal
  BY <1>8 DEF CrashRequest, Finish
<1>9. ASSUME \/ \E w \in Workers : (Process(w) /\ UNCHANGED <<proc, budget>>)
                \/ LoseJobLock(w) \/ WorkerThrows(w)
             \/ Promote \/ ExpireOrphan \/ LoseReleaseLock \/ LoseRedis
      PROVE  UNCHANGED proc
  BY <1>9 DEF LoseJobLock, WorkerThrows, Promote, ExpireOrphan, LoseReleaseLock, LoseRedis
<1> HIDE DEF Goal
<1>10. ASSUME Next PROVE Goal
  BY <1>1, <1>2, <1>5, <1>6, <1>7, <1>8, <1>9, <1>10 DEF Next, Work, Advance, BullMQ, Fault
<1> QED
  BY <1>1, <1>10 DEF vars, Goal

\* The lock stays with its holder until the call is over.
LEMMA LockStays ==
  ASSUME TypeInv, NoLeaseIsLost, [Next]_vars, NEW p \in Procs, lock = p
  PROVE  lock' = p \/ proc'[p] = IdleProc
<1>0. lock \notin {Free, Orphan} /\ proc \in [Procs -> ProcStates]
  BY MeshAssumption DEF TypeInv
<1>1. CASE UNCHANGED lock
  BY <1>1
<1>2. ASSUME NEW q \in Procs, Acquire(q) \/ Release(q) \/ CallThrows(q) \/ CrashRequest(q)
      PROVE  lock' = p \/ proc'[p] = IdleProc
  <2>1. CASE Acquire(q)
    BY <1>0, <2>1 DEF Acquire, AcquireLock
  <2>2. CASE Release(q)
    BY <1>0, <2>2 DEF Release, ReleaseLock, Finish
  <2>3. CASE CallThrows(q) \/ CrashRequest(q)
    BY <1>0, <2>3 DEF CallThrows, CrashRequest, Finish, Abandon
  <2> QED
    BY <1>2, <2>1, <2>2, <2>3
<1>3. ASSUME NEW w \in Workers, CrashWorker(w)
      PROVE  lock' = p \/ proc'[p] = IdleProc
  BY <1>3 DEF CrashWorker, Abandon
<1>4. ~(ExpireOrphan \/ LoseReleaseLock \/ LoseRedis)
  BY <1>0 DEF ExpireOrphan, ExpireOrphanedLock, LoseReleaseLock, LoseRedis, Spend,
     NoLeaseIsLost
<1>5. ASSUME NEW q \in Procs,
             \/ Submit(q) \/ Retry(q) \/ Reconcile(q) \/ Recover(q) \/ EnqueueThrows(q)
             \/ AcquireTimesOut(q) \/ ReadRow(q) \/ Fail(q) \/ GetJob(q) \/ GetState(q)
             \/ RemoveGet(q) \/ RemoveState(q) \/ Remove(q) \/ RetryRow(q) \/ EnqueueJob(q)
      PROVE  UNCHANGED lock
  BY <1>5 DEF Submit, Retry, Reconcile, Recover, Sweep, EnqueueThrows, AcquireTimesOut,
     ReadRow, Fail, GetJob, GetState, RemoveGet, RemoveState, Remove, RemoveJob, RetryRow,
     EnqueueJob, Enqueue, queueVars
<1>6. ASSUME NEW w \in Workers,
             Report(w) \/ CheckStalled(w) \/ LoseJobLock(w) \/ WorkerThrows(w)
      PROVE  UNCHANGED lock
  BY <1>6 DEF Report, Completed, CompleteJob, Failed, FailJob, Disowned, CheckStalled,
     RequeueStalled, FailStalled, LoseJobLock, LoseJob, WorkerThrows, StepThrows, PutFails,
     queueVars
<1>7. CASE Promote
  BY <1>1, <1>7 DEF Promote, PromoteDelayed
<1>8. ASSUME NEW w \in Workers, Process(w) PROVE UNCHANGED lock
  BY <1>8 DEF Process, FetchJob, Fetch, Find, ToTesting, PrepareAndCheck, Start, Put,
     CompleteError, Complete, ToAnalyzing, Summary, Upsert, ToGate, Transition, queueVars
<1>9. CASE Next
  BY <1>1, <1>2, <1>3, <1>4, <1>5, <1>6, <1>7, <1>8, <1>9
     DEF Next, Work, Advance, Step, BullMQ, Fault
<1> QED
  BY <1>1, <1>9 DEF vars

\* A call that is in the lock got there by acquiring it.
LEMMA LockIsTaken ==
  ASSUME TypeInv, [Next]_vars, NEW p \in Procs, KeepsToItsSteps(p), InLock(p)', ~InLock(p)
  PROVE  lock' = p
<1>0. proc \in [Procs -> ProcStates]
  BY DEF TypeInv
<1>1. CallMoves(p)
  <2>1. proc'[p] # proc[p] /\ proc'[p] # IdleProc
    BY DEF InLock, IdleProc
  <2> QED
    BY <1>0, <2>1, ProcMoves
<1>2. ~(Submit(p) \/ Retry(p) \/ Reconcile(p) \/ Recover(p) \/ BeginsHandler(p))
  <2>1. \A attempt, status : \A call \in {"submit", "completed", "recover"} :
          \A pc : proc'[p] = Call(call, pc, attempt, status) => ~InLock(p)'
    BY DEF Call, InLock, LockedCalls
  <2>2. \A call, attempt, status : proc'[p] = Call(call, "acquire", attempt, status) => ~InLock(p)'
    BY DEF Call, InLock
  <2>3. \A state : Begin(p, state) => proc'[p] = state
    BY <1>0, ProcValues
  <2> QED
    BY <2>1, <2>2, <2>3 DEF Submit, Retry, Reconcile, Recover, Sweep, BeginsHandler
<1>3. ASSUME NEW pc, Goto(p, pc), ~AtStep(p, "acquire"), ~AtStep(p, "idle") PROVE FALSE
  <2>1. proc'[p].call = proc[p].call
    BY <1>0, <1>3 DEF Goto, ProcStates
  <2> QED
    BY <1>3, <2>1 DEF InLock, AtStep, LockedCalls
<1>4. ~Finish(p)
  <2>1. Finish(p) => proc'[p] = IdleProc
    BY <1>0, ProcValues
  <2>2. proc'[p] # IdleProc
    BY DEF InLock, IdleProc
  <2> QED
    BY <2>1, <2>2
<1>5. ASSUME End(p), ~AtStep(p, "acquire"), ~AtStep(p, "idle") PROVE FALSE
  BY <1>3, <1>4, <1>5 DEF End
<1>6. CASE EnqueueThrows(p) \/ CallThrows(p)
  BY <1>3, <1>4, <1>5, <1>6 DEF EnqueueThrows, CallThrows, Busy, AtStep
<1>7. CASE Acquire(p)
  BY <1>7 DEF Acquire, AcquireLock
<1>8. ~(\/ AcquireTimesOut(p) \/ Release(p) \/ Fail(p) \/ GetState(p) \/ RemoveGet(p)
        \/ RemoveState(p) \/ Remove(p) \/ EnqueueJob(p))
  BY <1>3, <1>4, <1>5 DEF AcquireTimesOut, Release, Fail, GetState, RemoveGet, AfterRemoval,
     RemoveState, Remove, EnqueueJob, AtStep
<1>9. ASSUME ReadRow(p) \/ GetJob(p) \/ RetryRow(p) PROVE FALSE
  <2>1. proc[p].pc \in {"read", "getJob", "retry"}
    BY <1>9 DEF ReadRow, GetJob, RetryRow, AtStep
  <2>2. proc[p].call \notin LockedCalls
    BY <2>1 DEF InLock
  <2>3. GetJob(p) /\ Is(p, "recover")
    <3>1. ~ReadRow(p)
      BY <2>2 DEF LockedCalls, ReadRow, Is
    <3>2. ~RetryRow(p)
      BY <2>2 DEF LockedCalls, RetryRow, KeepsToItsSteps, Is, AtStep, Busy
    <3> QED
      BY <1>9, <2>2, <3>1, <3>2 DEF LockedCalls, GetJob, Is
  <2> QED
    BY <1>3, <2>1, <2>3 DEF GetJob, Is, AtStep
<1> QED
  BY <1>1, <1>2, <1>6, <1>7, <1>8, <1>9 DEF CallMoves, Step

LEMMA LockIsHeldStill ==
  ASSUME CallInv, [Next]_vars
  PROVE  LockIsHeld'
<1> SUFFICES ASSUME NEW p \in Procs, InLock(p)' PROVE lock' = p
  BY DEF LockIsHeld
<1>1. CASE InLock(p)
  <2>1. proc'[p] # IdleProc
    BY DEF InLock, IdleProc
  <2> QED
    BY <1>1, <2>1, LockStays DEF CallInv, LockIsHeld
<1>2. CASE ~InLock(p)
  BY <1>2, LockIsTaken DEF CallInv, CallIsInOrder
<1> QED
  BY <1>1, <1>2

\* Two calls are not in the lock together.
LEMMA InLockAlone ==
  ASSUME LockIsHeld, NEW p \in Procs, NEW q \in Procs, InLock(p), InLock(q)
  PROVE  p = q
BY DEF LockIsHeld

-----------------------------------------------------------------------------
\* Where the release goes.
LEMMA ReleaseSteps ==
  ASSUME WellFormed, [Next]_vars
  PROVE  \/ UNCHANGED release
         \/ release'.attempt = release.attempt /\ IsStarted'
         \/ \E p \in Procs : RetryRow(p) /\ RetryRelease
<1> USE DEF WellFormed
<1>1. CASE Outside /\ ReleaseMoves
  <2>1. release'.status \in {"QUEUED", "ERROR"} => IsStarted'
    BY DEF IsStarted, ProcessingStatuses, SettledStatuses
  <2>2. ASSUME NEW p \in Procs, RetryRow(p) PROVE UNCHANGED release \/ RetryRelease
    BY <2>2 DEF RetryRow, storeVars
  <2> QED
    BY <1>1, <2>1, <2>2 DEF ReleaseMoves, storeVars
<1>2. ASSUME NEW w \in Workers, Process(w)
      PROVE  UNCHANGED release \/ (release'.attempt = release.attempt /\ IsStarted')
  <2>1. CASE ToTesting(w) \/ ToAnalyzing(w) \/ ToGate(w)
    <3>1. ASSUME NEW status \in ProcessingStatuses \cup GateVerdicts, SetStatus(status)
          PROVE  release'.attempt = release.attempt /\ IsStarted'
      BY <3>1 DEF SetStatus, StoreTypeOK, IsStarted, GateVerdicts, SettledStatuses,
         FinalStatuses
    <3>2. Verdict(w) \in GateVerdicts
      BY VerdictIsAVerdict
    <3>3. \/ UNCHANGED storeVars
          \/ SetStatus("TESTING") \/ SetStatus("ANALYZING") \/ SetStatus(Verdict(w))
      BY <2>1 DEF ToTesting, ToAnalyzing, ToGate, Transition, TransitionRelease
    <3> QED
      BY <3>1, <3>2, <3>3 DEF ProcessingStatuses, storeVars
  <2>2. CASE ~(ToTesting(w) \/ ToAnalyzing(w) \/ ToGate(w))
    BY <1>2, <2>2 DEF Process, FetchJob, Find, PrepareAndCheck, Start, Put, CompleteError,
       Complete, Summary, Upsert, UpsertAssessment, storeVars
  <2> QED
    BY <2>1, <2>2
<1> QED
  BY <1>1, <1>2, OutsideLeavesVerdicts

\* A settled release leaves its status only by a retry in the lock.
LEMMA SettledStays ==
  ASSUME WellFormed, [Next]_vars, release.status \in SettledStatuses
  PROVE  \/ UNCHANGED release
         \/ \E p \in Procs : RetryRow(p) /\ RetryRelease
<1>1. StoreTypeOK /\ StoreStep
  BY NextStep DEF WellFormed
<1>2. release.status \in {"SAFE", "BLOCKED", "ERROR"}
  BY DEF SettledStatuses, FinalStatuses
<1>3. CASE UNCHANGED storeVars
  BY <1>3 DEF storeVars
<1>4. CASE StoreNext
  <2>1. ~CreateRelease /\ ~CreateQueuedRelease
    BY <1>2 DEF CreateRelease, CreateQueuedRelease, NoStatus
  <2>2. \A arguments \in TransitionArguments, attempt \in Attempts :
          ~TransitionRelease(arguments[1], attempt, arguments[2])
    <3> SUFFICES ASSUME NEW arguments \in TransitionArguments, NEW attempt \in Attempts,
                        TransitionRelease(arguments[1], attempt, arguments[2])
                 PROVE  FALSE
      OBVIOUS
    <3>1. /\ release.status = arguments[1] /\ arguments[2] \in AllowedTransitions[arguments[1]]
          /\ arguments = <<arguments[1], arguments[2]>> /\ arguments # <<"ERROR", "QUEUED">>
      BY DEF TransitionRelease, CanTransition, IsValidTransition, TransitionArguments
    <3>2. arguments[1] = "ERROR" /\ arguments[2] = "QUEUED"
      BY <1>2, <3>1 DEF AllowedTransitions, Statuses, NoStatus
    <3> QED
      BY <3>1, <3>2
  <2>3. \A status \in ProcessingStatuses, attempt \in Attempts, content \in Assessments :
          ~FailRelease(status, attempt, content)
    BY <1>2 DEF FailRelease, CanTransition, ProcessingStatuses
  <2>4. RetryRelease \/ UNCHANGED release
    BY <1>4, <2>1, <2>2, <2>3 DEF StoreNext, UpsertAssessment
  <2>5. RetryRelease => release'.attempt # release.attempt
    BY <1>1 DEF RetryRelease, StoreTypeOK, Attempts
  <2> QED
    BY <2>4, <2>5, ReleaseSteps
<1> QED
  BY <1>1, <1>3, <1>4 DEF StoreStep

\* The job is of the attempt it was of, or of the one that is being queued.
LEMMA JobOfAttempt ==
  ASSUME TypeInv, [Next]_vars, HasJob'
  PROVE  \/ HasJob /\ job'.attempt = job.attempt
         \/ /\ ~HasJob
            /\ \E p \in Procs : AtStep(p, "enqueue") /\ job'.attempt = proc[p].attempt
<1>1. JobStep
  BY JobSteps
<1>2. HasJob => "attempt" \in DOMAIN job
  BY DEF TypeInv, JobIsTyped, HasJob, Jobs
<1>3. CASE UNCHANGED job
  BY <1>3 DEF HasJob
<1>4. ASSUME HasJob, DOMAIN job' = DOMAIN job, job'.attempt = job.attempt
      PROVE  HasJob /\ job'.attempt = job.attempt
  BY <1>4
<1>5. CASE \/ PromoteDelayed \/ RequeueStalled \/ \E counted \in {0, 1} : FailStalled(counted)
           \/ \E w \in Workers : Fetch(w) \/ CompleteJob(w) \/ FailJob(w) \/ LoseJob(w)
  <2>1. HasJob /\ job \in Jobs(Attempts)
    BY <1>5 DEF PromoteDelayed, RequeueStalled, FailStalled, Stalled, Fetch, CompleteJob,
       FailJob, LoseJob, Owns, TypeInv, JobIsTyped, HasJob
  <2>2. job'.attempt = job.attempt
    BY <1>5, <2>1 DEF PromoteDelayed, RequeueStalled, FailStalled, Fetch, CompleteJob,
       FailJob, LoseJob, Jobs
  <2> QED
    BY <2>1, <2>2
<1>6. CASE job' = NoJob
  BY <1>6 DEF HasJob
<1>7. ASSUME NEW w, job' = IF Owns(w) THEN [job EXCEPT !.owner = NoWorker] ELSE job
      PROVE  HasJob /\ job'.attempt = job.attempt
  <2>1. HasJob
    BY <1>7 DEF HasJob, Owns
  <2> QED
    BY <1>2, <1>7, <2>1
<1>8. ASSUME NEW p \in Procs, AtStep(p, "enqueue"), job' = NewJob(proc[p].attempt)
      PROVE  \E q \in Procs : AtStep(q, "enqueue") /\ job'.attempt = proc[q].attempt
  BY <1>8 DEF NewJob
<1> QED
  BY <1>1, <1>3, <1>5, <1>6, <1>7, <1>8 DEF JobStep, JobMoves, JobIsLost, FetchJob

LEMMA ReleaseOnlyAdvances ==
  ASSUME CallInv, [Next]_vars
  PROVE  /\ release.attempt \in Nat /\ release'.attempt \in Nat
         /\ release.attempt <= release'.attempt
         /\ IsStarted => IsStarted'
         /\ release'.status = NoStatus \/ IsStarted'
<1>1. WellFormed /\ StoreTypeOK /\ StoreTypeOK'
  BY TypeInvIsPreserved, TypedIsWellFormed DEF CallInv, TypeInv
<1>2. release.attempt \in Nat /\ release'.attempt \in Nat
  BY <1>1, StoreAssumption DEF StoreTypeOK, Attempts
<1>3. RetryRelease => release'.attempt = release.attempt + 1 /\ IsStarted'
  BY DEF RetryRelease, IsStarted, ProcessingStatuses
<1>4. UNCHANGED release => (IsStarted' <=> IsStarted)
  BY DEF IsStarted
<1> QED
  BY <1>1, <1>2, <1>3, <1>4, ReleaseSteps DEF CallInv

\* Who enqueues, and who retries.
LEMMA QueuersAreKnown ==
  ASSUME CallInv, NEW p \in Procs
  PROVE  /\ AtStep(p, "enqueue") => InLock(p) \/ proc[p].attempt = 0
         /\ AtStep(p, "retry") => InLock(p) /\ Is(p, "retry")
<1>1. KeepsToItsSteps(p)
  BY DEF CallInv, CallIsInOrder
<1> QED
  BY <1>1 DEF KeepsToItsSteps, Is, AtStep, Busy, InLock, LockedCalls

LEMMA JobIsNotAheadStill ==
  ASSUME CallInv, [Next]_vars
  PROVE  JobIsNotAhead'
<1> SUFFICES ASSUME HasJob' PROVE IsStarted' /\ job'.attempt <= release'.attempt
  BY DEF JobIsNotAhead
<1>1. /\ release.attempt \in Nat /\ release'.attempt \in Nat
      /\ release.attempt <= release'.attempt /\ (IsStarted => IsStarted')
  BY ReleaseOnlyAdvances
<1>2. CASE HasJob /\ job'.attempt = job.attempt
  <2>1. job.attempt \in Nat /\ job.attempt <= release.attempt /\ IsStarted
    BY <1>2, StoreAssumption DEF CallInv, JobIsNotAhead, TypeInv, JobIsTyped, HasJob, Jobs, Attempts
  <2> QED
    BY <1>1, <1>2, <2>1
<1>3. ASSUME NEW p \in Procs, AtStep(p, "enqueue"), job'.attempt = proc[p].attempt
      PROVE  IsStarted' /\ job'.attempt <= release'.attempt
  <2>1. proc[p].attempt \in Nat
    BY ProcValues DEF CallInv, TypeInv
  <2>2. IsStarted /\ proc[p].attempt <= release.attempt
    BY <1>3 DEF CallInv, CallIsInOrder, CallIsNotAhead, Busy, AtStep
  <2> QED
    BY <1>1, <1>3, <2>1, <2>2
<1> QED
  BY <1>2, <1>3, JobOfAttempt DEF CallInv

\* The steps of a call keep to its table.
LEMMA CallKeepsToSteps ==
  ASSUME CallInv, NEW p \in Procs, CallMoves(p)
  PROVE  KeepsToItsSteps(p)'
<1>0. proc \in [Procs -> ProcStates] /\ KeepsToItsSteps(p)
  BY DEF CallInv, CallIsInOrder, TypeInv
<1>1. ASSUME proc'[p] = IdleProc PROVE KeepsToItsSteps(p)'
  BY <1>1 DEF KeepsToItsSteps, Is, Busy, IdleProc
<1>2. ASSUME NEW call, NEW pc, NEW attempt, NEW status, Begin(p, Call(call, pc, attempt, status))
      PROVE  /\ proc'[p].call = call /\ proc'[p].pc = pc /\ proc'[p].attempt = attempt
             /\ proc'[p].target = attempt
  <2>1. proc'[p] = Call(call, pc, attempt, status)
    BY <1>0, <1>2, ProcValues
  <2> QED
    BY <2>1 DEF Call
<1>3. ASSUME NEW pc, Goto(p, pc)
      PROVE  /\ proc'[p].call = proc[p].call /\ proc'[p].pc = pc
             /\ proc'[p].attempt = proc[p].attempt /\ proc'[p].target = proc[p].target
  BY <1>0, <1>3 DEF Goto, ProcStates
<1>4. ASSUME Finish(p) PROVE KeepsToItsSteps(p)'
  <2>1. proc'[p] = IdleProc
    BY <1>0, <1>4, ProcValues
  <2> QED
    BY <1>1, <2>1
<1>5. ASSUME End(p), Busy(p) PROVE KeepsToItsSteps(p)'
  <2>1. CASE proc[p].call \in LockedCalls
    <3>1. Goto(p, "release")
      BY <1>5, <2>1 DEF End
    <3>2. /\ proc'[p].call = proc[p].call /\ proc'[p].pc = "release"
          /\ proc'[p].target = proc[p].target /\ proc'[p].attempt = proc[p].attempt
      BY <1>3, <3>1
    <3> QED
      BY <1>0, <2>1, <3>2 DEF KeepsToItsSteps, Is, LockedCalls, Busy
  <2>2. CASE proc[p].call \notin LockedCalls
    BY <1>4, <1>5, <2>2 DEF End
  <2> QED
    BY <2>1, <2>2
<1>6. CASE Submit(p) \/ Retry(p) \/ Reconcile(p) \/ Recover(p)
  BY <1>2, <1>6 DEF Submit, Retry, Reconcile, Recover, Sweep, KeepsToItsSteps, Is, Busy
<1>7. CASE BeginsHandler(p)
  BY <1>7 DEF BeginsHandler, KeepsToItsSteps, Is, Busy, Call
<1>8. CASE EnqueueThrows(p) \/ CallThrows(p)
  <2>1. Busy(p)
    BY <1>8 DEF EnqueueThrows, CallThrows, AtStep, Busy
  <2>2. CASE Goto(p, "fail") /\ proc[p].call \in {"submit", "retry"}
    <3>1. /\ proc'[p].call = proc[p].call /\ proc'[p].pc = "fail"
          /\ proc'[p].attempt = proc[p].attempt
      BY <1>3, <2>2
    <3> QED
      BY <1>0, <2>2, <3>1 DEF KeepsToItsSteps, Is
  <2> QED
    BY <1>4, <1>5, <1>8, <2>1, <2>2 DEF EnqueueThrows, CallThrows
<1>9. CASE Acquire(p) \/ AcquireTimesOut(p) \/ Release(p)
  <2>1. ASSUME Acquire(p) PROVE KeepsToItsSteps(p)'
    <3>1. AtStep(p, "acquire") /\ Goto(p, "read")
      BY <2>1 DEF Acquire
    <3>2. /\ proc'[p].call = proc[p].call /\ proc'[p].pc = "read"
          /\ proc'[p].attempt = proc[p].attempt /\ proc'[p].target = proc[p].target
      BY <1>3, <3>1
    <3> QED
      BY <1>0, <3>1, <3>2 DEF KeepsToItsSteps, Is, AtStep, Busy
  <2> QED
    BY <1>4, <1>9, <2>1 DEF AcquireTimesOut, Release
<1>10. CASE ReadRow(p)
  <2>1. AtStep(p, "read") /\ Busy(p)
    BY <1>10 DEF ReadRow, AtStep, Busy
  <2>2. CASE Begin(p, Call("retry", "removeGet", release.attempt, "QUEUED"))
    BY <1>2, <2>2 DEF KeepsToItsSteps, Is
  <2>3. CASE /\ Is(p, "exhausted")
             /\ proc' \in {[proc EXCEPT ![p].pc = "fail", ![p].status = release.status],
                           [proc EXCEPT ![p].pc = "removeGet"]}
    <3>1. /\ proc'[p].call = proc[p].call /\ proc'[p].pc \in {"fail", "removeGet"}
          /\ proc'[p].attempt = proc[p].attempt /\ proc'[p].target = proc[p].target
      BY <1>0, <2>3 DEF ProcStates
    <3> QED
      BY <1>0, <2>3, <3>1 DEF KeepsToItsSteps, Is
  <2>4. CASE Is(p, "reconcile") /\ Goto(p, "getJob")
    <3>1. proc'[p].call = proc[p].call /\ proc'[p].pc = "getJob"
      BY <1>3, <2>4
    <3> QED
      BY <2>4, <3>1 DEF KeepsToItsSteps, Is
  <2> QED
    BY <1>5, <1>10, <2>1, <2>2, <2>3, <2>4 DEF ReadRow
<1>11. CASE GetJob(p)
  <2>1. \/ /\ Is(p, "reconcile") /\ proc'[p].call = proc[p].call
           /\ proc'[p].pc \in {"getState", "enqueue"}
        \/ Is(p, "recover") /\ (Goto(p, "getState") \/ Goto(p, "fail"))
    BY <1>0, <1>11 DEF GetJob, ProcStates
  <2>2. \/ /\ Is(p, "reconcile") /\ proc'[p].call = proc[p].call
           /\ proc'[p].pc \in {"getState", "enqueue"}
        \/ /\ Is(p, "recover") /\ proc'[p].call = proc[p].call
           /\ proc'[p].pc \in {"getState", "fail"}
    BY <1>3, <2>1
  <2> QED
    BY <2>2 DEF KeepsToItsSteps, Is
<1>12. ASSUME Goto(p, "removeState") \/ Goto(p, "remove"),
              proc[p].pc \in {"removeGet", "removeState"}
       PROVE  KeepsToItsSteps(p)'
  <2>1. /\ proc'[p].call = proc[p].call /\ proc'[p].pc \in {"removeState", "remove"}
        /\ proc'[p].attempt = proc[p].attempt /\ proc'[p].target = proc[p].target
    BY <1>3, <1>12
  <2> QED
    BY <1>0, <1>12, <2>1 DEF KeepsToItsSteps, Is, Busy
<1>13. ASSUME AfterRemoval(p), Busy(p) PROVE KeepsToItsSteps(p)'
  <2>1. CASE (Is(p, "retry") /\ Goto(p, "retry")) \/ (Is(p, "reconcile") /\ Goto(p, "enqueue"))
    <3>1. /\ proc'[p].call = proc[p].call
          /\ \/ Is(p, "retry") /\ proc'[p].pc = "retry"
             \/ Is(p, "reconcile") /\ proc'[p].pc = "enqueue"
      BY <1>3, <2>1
    <3> QED
      BY <3>1 DEF KeepsToItsSteps, Is
  <2> QED
    BY <1>5, <1>13, <2>1 DEF AfterRemoval
<1>14. CASE RemoveGet(p) \/ RemoveState(p) \/ Remove(p)
  BY <1>5, <1>12, <1>13, <1>14 DEF RemoveGet, RemoveState, Remove, AtStep, Busy
<1>15. CASE GetState(p)
  <2>1. ASSUME \/ Is(p, "reconcile") /\ Goto(p, "removeGet")
               \/ Is(p, "recover") /\ Goto(p, "fail")
        PROVE  KeepsToItsSteps(p)'
    <3>1. /\ proc'[p].call = proc[p].call
          /\ \/ Is(p, "reconcile") /\ proc'[p].pc = "removeGet"
             \/ Is(p, "recover") /\ proc'[p].pc = "fail"
      BY <1>3, <2>1
    <3> QED
      BY <3>1 DEF KeepsToItsSteps, Is
  <2>2. Busy(p)
    BY <1>15 DEF GetState, AtStep, Busy
  <2>3. CASE Is(p, "reconcile") /\ (Goto(p, "removeGet") \/ End(p))
    BY <1>5, <2>1, <2>2, <2>3
  <2>4. CASE Is(p, "recover") /\ (Goto(p, "fail") \/ End(p))
    BY <1>5, <2>1, <2>2, <2>4
  <2> QED
    BY <1>15, <2>3, <2>4 DEF GetState
<1>16. CASE Fail(p)
  <2>1. ASSUME Is(p, "exhausted"), Goto(p, "removeGet") PROVE KeepsToItsSteps(p)'
    <3>1. /\ proc'[p].call = proc[p].call /\ proc'[p].pc = "removeGet"
          /\ proc'[p].attempt = proc[p].attempt /\ proc'[p].target = proc[p].target
      BY <1>3, <2>1
    <3> QED
      BY <1>0, <2>1, <3>1 DEF KeepsToItsSteps, Is
  <2> QED
    BY <1>5, <1>16, <2>1 DEF Fail, AtStep, Busy
<1>17. CASE RetryRow(p)
  <2>1. CASE Begin(p, Call("retry", "enqueue", release.attempt + 1, "QUEUED"))
    BY <1>2, <2>1 DEF KeepsToItsSteps, Is
  <2> QED
    BY <1>5, <1>17, <2>1 DEF RetryRow, AtStep, Busy
<1>18. CASE EnqueueJob(p)
  BY <1>5, <1>18 DEF EnqueueJob, AtStep, Busy
<1> QED
  BY <1>6, <1>7, <1>8, <1>9, <1>10, <1>11, <1>14, <1>15, <1>16, <1>17, <1>18
     DEF CallMoves, Step

\* Most moves of a call keep to what it was begun for.
SameCall(p) ==
  /\ proc'[p].call = proc[p].call /\ proc'[p].attempt = proc[p].attempt
  /\ proc'[p].target = proc[p].target

LEMMA CallStaysTheSame ==
  ASSUME proc \in [Procs -> ProcStates], NEW p \in Procs
  PROVE  /\ \A pc : Goto(p, pc) => SameCall(p) /\ proc'[p].pc = pc
         /\ End(p) => proc'[p] = IdleProc \/ (SameCall(p) /\ proc'[p].pc = "release")
         /\ Finish(p) => proc'[p] = IdleProc
<1>1. \A pc : Goto(p, pc) => SameCall(p) /\ proc'[p].pc = pc
  BY DEF Goto, ProcStates, SameCall
<1>2. Finish(p) => proc'[p] = IdleProc
  BY ProcValues
<1> QED
  BY <1>1, <1>2 DEF End

\* The attempt a call is for.
LEMMA AttemptOfCall ==
  ASSUME CallInv, NEW p \in Procs, CallMoves(p)
  PROVE  \/ proc'[p] = IdleProc
         \/ Busy(p) /\ proc'[p].attempt = proc[p].attempt
         \/ IsStarted' /\ proc'[p].attempt \in {0, release'.attempt}
         \/ HasJob /\ proc'[p].attempt = job.attempt /\ UNCHANGED release
<1> DEFINE Goal == \/ proc'[p] = IdleProc
                   \/ Busy(p) /\ proc'[p].attempt = proc[p].attempt
                   \/ IsStarted' /\ proc'[p].attempt \in {0, release'.attempt}
                   \/ HasJob /\ proc'[p].attempt = job.attempt /\ UNCHANGED release
<1>0. proc \in [Procs -> ProcStates] /\ StoreTypeOK
  BY DEF CallInv, TypeInv
<1>1. ASSUME Busy(p), Finish(p) \/ End(p) \/ \E pc : Goto(p, pc) PROVE Goal
  BY <1>0, <1>1, CallStaysTheSame DEF SameCall
<1>2. \A call, pc, attempt, status :
        Begin(p, Call(call, pc, attempt, status)) => proc'[p].attempt = attempt
  <2>1. \A state : Begin(p, state) => proc'[p] = state
    BY <1>0, ProcValues
  <2> QED
    BY <2>1 DEF Call
<1>3. CASE Submit(p)
  <2>1. release'.status = "QUEUED"
    BY <1>0, <1>3 DEF Submit, CreateQueuedRelease, SetStatus, StoreTypeOK
  <2> QED
    BY <1>2, <1>3, <2>1 DEF Submit, IsStarted, ProcessingStatuses
<1>4. CASE Retry(p) \/ Reconcile(p) \/ Recover(p)
  <2>1. release.status \in {"ERROR", "QUEUED", "TESTING"} /\ UNCHANGED release
    BY <1>4 DEF Retry, Reconcile, Recover, Sweep, storeVars
  <2>2. proc'[p].attempt = release.attempt
    BY <1>2, <1>4 DEF Retry, Reconcile, Recover, Sweep
  <2> QED
    BY <2>1, <2>2 DEF IsStarted, ProcessingStatuses, SettledStatuses
<1>5. CASE BeginsHandler(p)
  BY <1>5 DEF BeginsHandler, Call, storeVars
<1>6. CASE EnqueueThrows(p) \/ CallThrows(p)
  BY <1>1, <1>6 DEF EnqueueThrows, CallThrows, AtStep, Busy
<1>7. CASE /\ Busy(p)
           /\ \/ Acquire(p) \/ AcquireTimesOut(p) \/ Release(p) \/ Fail(p) \/ GetState(p)
              \/ RemoveGet(p) \/ RemoveState(p) \/ Remove(p) \/ EnqueueJob(p)
  BY <1>1, <1>7 DEF Acquire, AcquireTimesOut, Release, Fail, GetState, RemoveGet, RemoveState,
     Remove, AfterRemoval, EnqueueJob
<1>8. CASE ReadRow(p) /\ Busy(p)
  <2>1. CASE release.status = "ERROR" /\ Begin(p, Call("retry", "removeGet", release.attempt, "QUEUED"))
    <3>1. proc'[p].attempt = release.attempt
      BY <1>2, <2>1
    <3> QED
      BY <1>8, <2>1, <3>1 DEF ReadRow, storeVars, IsStarted, SettledStatuses
  <2>2. CASE proc' \in {[proc EXCEPT ![p].pc = "fail", ![p].status = release.status],
                        [proc EXCEPT ![p].pc = "removeGet"]}
    BY <1>0, <1>8, <2>2 DEF ProcStates
  <2> QED
    BY <1>1, <1>8, <2>1, <2>2 DEF ReadRow
<1>9. CASE GetJob(p) /\ Busy(p)
  <2>1. CASE proc' \in {[proc EXCEPT ![p].pc = "getState", ![p].target = job.attempt],
                        [proc EXCEPT ![p].pc = "enqueue"]}
    BY <1>0, <1>9, <2>1 DEF ProcStates
  <2> QED
    BY <1>1, <1>9, <2>1 DEF GetJob
<1>10. CASE RetryRow(p) /\ Busy(p)
  <2>1. CASE RetryRelease /\ Begin(p, Call("retry", "enqueue", release.attempt + 1, "QUEUED"))
    <3>1. proc'[p].attempt = release.attempt + 1
      BY <1>2, <2>1
    <3> QED
      BY <2>1, <3>1 DEF RetryRelease, IsStarted, ProcessingStatuses
  <2> QED
    BY <1>1, <1>10, <2>1 DEF RetryRow
<1> QED
  BY <1>3, <1>4, <1>5, <1>6, <1>7, <1>8, <1>9, <1>10 DEF CallMoves, Step

LEMMA CallIsNotAheadStill ==
  ASSUME CallInv, [Next]_vars, NEW p \in Procs
  PROVE  CallIsNotAhead(p)'
<1>1. /\ release.attempt \in Nat /\ release'.attempt \in Nat
      /\ release.attempt <= release'.attempt /\ (IsStarted => IsStarted')
  BY ReleaseOnlyAdvances
<1>2. /\ proc \in [Procs -> ProcStates] /\ proc[p].attempt \in Nat /\ CallIsNotAhead(p)
      /\ JobIsNotAhead /\ JobIsTyped
  BY ProcValues DEF CallInv, CallIsInOrder, TypeInv
<1>3. ASSUME Busy(p), proc'[p].attempt = proc[p].attempt PROVE CallIsNotAhead(p)'
  BY <1>1, <1>2, <1>3 DEF CallIsNotAhead
<1>4. CASE proc'[p] = proc[p]
  BY <1>3, <1>4 DEF CallIsNotAhead, Busy
<1>5. CASE proc'[p] = IdleProc
  BY <1>5 DEF CallIsNotAhead, Busy, IdleProc
<1>6. CASE IsStarted' /\ proc'[p].attempt \in {0, release'.attempt}
  BY <1>1, <1>6 DEF CallIsNotAhead
<1>7. CASE HasJob /\ proc'[p].attempt = job.attempt /\ UNCHANGED release
  <2>1. IsStarted /\ job.attempt <= release.attempt
    BY <1>2, <1>7 DEF JobIsNotAhead
  <2> QED
    BY <1>1, <1>7, <2>1 DEF CallIsNotAhead
<1> QED
  BY <1>2, <1>3, <1>4, <1>5, <1>6, <1>7, ProcMoves, AttemptOfCall

\* While a call is in the lock nobody else retries the release.
LEMMA NoOtherRetry ==
  ASSUME CallInv, NEW p \in Procs, NEW q \in Procs, InLock(p), RetryRow(q)
  PROVE  q = p /\ AtStep(p, "retry") /\ Is(p, "retry")
<1>1. InLock(q) /\ AtStep(q, "retry") /\ Is(q, "retry")
  BY QueuersAreKnown DEF RetryRow
<1>2. q = p
  BY <1>1, InLockAlone DEF CallInv
<1> QED
  BY <1>1, <1>2

\* A release found settled in the lock stays settled until the call goes on.
LEMMA SettledInLock ==
  ASSUME CallInv, [Next]_vars, NEW p \in Procs, InLock(p), proc'[p] = proc[p],
         release.status \in SettledStatuses
  PROVE  UNCHANGED release
<1>1. ASSUME NEW q \in Procs, RetryRow(q), RetryRelease PROVE FALSE
  <2>1. q = p /\ AtStep(p, "retry")
    BY <1>1, NoOtherRetry
  <2>2. UNCHANGED release \/ Begin(p, Call("retry", "enqueue", release.attempt + 1, "QUEUED"))
    BY <1>1, <2>1 DEF RetryRow, storeVars
  <2>3. ~UNCHANGED release
    <3>1. release.status = "ERROR" /\ release'.status = "QUEUED"
      BY <1>1 DEF RetryRelease
    <3> QED
      BY <3>1
  <2>4. proc'[p].pc = "enqueue"
    <3>1. proc'[p] = Call("retry", "enqueue", release.attempt + 1, "QUEUED")
      BY <2>2, <2>3, ProcValues DEF CallInv, TypeInv
    <3> QED
      BY <3>1 DEF Call
  <2> QED
    BY <2>1, <2>4 DEF AtStep
<1>2. WellFormed
  BY TypedIsWellFormed DEF CallInv
<1> QED
  BY <1>1, <1>2, SettledStays

\* How a retry or the handler of an exhausted job comes to its clean-up.
LEMMA CleanUpSteps ==
  ASSUME CallInv, NEW p \in Procs, CallMoves(p), proc'[p].call \in {"retry", "exhausted"},
         proc'[p].pc \in {"removeGet", "removeState", "remove", "retry"}
  PROVE  \/ /\ ReadRow(p) /\ proc'[p].call = "retry"
            /\ release.status = "ERROR" /\ UNCHANGED release
         \/ /\ ReadRow(p) /\ Is(p, "exhausted") /\ SameCall(p) /\ UNCHANGED release
            /\ release.status \notin ProcessingStatuses \/ release.attempt # proc[p].attempt
            /\ proc'[p].pc = "removeGet"
         \/ Fail(p) /\ Is(p, "exhausted") /\ SameCall(p) /\ release'.status = "ERROR"
         \/ /\ (RemoveGet(p) \/ RemoveState(p) \/ Remove(p))
            /\ SameCall(p) /\ UNCHANGED release
<1>0. proc \in [Procs -> ProcStates] /\ StoreTypeOK
  BY DEF CallInv, TypeInv
<1>1. ~Finish(p) /\ ~End(p)
  <2>1. proc'[p] # IdleProc /\ proc'[p].pc # "release"
    BY DEF IdleProc
  <2> QED
    BY <1>0, <2>1, CallStaysTheSame
<1>2. \A pc : Goto(p, pc) => SameCall(p) /\ proc'[p].pc = pc
  BY <1>0, CallStaysTheSame
<1>3. \A call, pc, attempt, status :
        Begin(p, Call(call, pc, attempt, status)) => proc'[p].call = call /\ proc'[p].pc = pc
  <2>1. \A state : Begin(p, state) => proc'[p] = state
    BY <1>0, ProcValues
  <2> QED
    BY <2>1 DEF Call
<1>4. ~(Submit(p) \/ Retry(p) \/ Reconcile(p) \/ Recover(p) \/ BeginsHandler(p))
  <2>1. ~BeginsHandler(p)
    BY DEF BeginsHandler, Call
  <2> QED
    BY <1>3, <2>1 DEF Submit, Retry, Reconcile, Recover, Sweep
<1>5. ~(\/ EnqueueThrows(p) \/ CallThrows(p) \/ Acquire(p) \/ AcquireTimesOut(p) \/ Release(p)
        \/ EnqueueJob(p))
  BY <1>1, <1>2 DEF EnqueueThrows, CallThrows, Acquire, AcquireTimesOut, Release, EnqueueJob
<1>6. ~RetryRow(p)
  BY <1>1, <1>3 DEF RetryRow
<1>7. ~GetJob(p)
  <2> SUFFICES ASSUME GetJob(p) PROVE FALSE
    OBVIOUS
  <2>1. proc[p].call \in {"reconcile", "recover"} /\ proc'[p].call = proc[p].call
    BY <1>0 DEF GetJob, Goto, Is, ProcStates
  <2> QED
    BY <2>1
<1>8. ~GetState(p)
  <2> SUFFICES ASSUME GetState(p) PROVE FALSE
    OBVIOUS
  <2>1. proc[p].call \in {"reconcile", "recover"} /\ \E pc : Goto(p, pc)
    BY <1>1 DEF GetState, Is
  <2> QED
    BY <1>2, <2>1 DEF SameCall
<1>9. CASE ReadRow(p)
  <2>1. UNCHANGED release
    BY <1>9 DEF ReadRow, storeVars
  <2>2. CASE Is(p, "retry")
    BY <1>1, <1>3, <1>9, <2>1, <2>2 DEF ReadRow, Is
  <2>3. CASE Is(p, "exhausted")
    <3>1. CASE proc' = [proc EXCEPT ![p].pc = "fail", ![p].status = release.status]
      BY <1>0, <3>1 DEF ProcStates
    <3>2. CASE /\ release.status \notin ProcessingStatuses \/ release.attempt # proc[p].attempt
               /\ proc' = [proc EXCEPT ![p].pc = "removeGet"]
      BY <1>2, <1>9, <2>1, <2>3, <3>2 DEF Goto
    <3> QED
      BY <1>9, <2>3, <3>1, <3>2 DEF ReadRow, Is
  <2>4. ~Is(p, "reconcile")
    BY <1>1, <1>2, <1>9 DEF ReadRow, Is
  <2> QED
    BY <1>9, <2>2, <2>3, <2>4 DEF ReadRow
<1>10. CASE Fail(p)
  <2>1. Is(p, "exhausted") /\ Goto(p, "removeGet") /\ SetStatus("ERROR")
    BY <1>1, <1>10 DEF Fail, FailRelease
  <2> QED
    BY <1>0, <1>2, <1>10, <2>1 DEF SetStatus, StoreTypeOK
<1>11. CASE RemoveGet(p) \/ RemoveState(p) \/ Remove(p)
  <2>1. \E pc : Goto(p, pc)
    BY <1>1, <1>11 DEF RemoveGet, RemoveState, Remove, AfterRemoval
  <2> QED
    BY <1>2, <1>11, <2>1 DEF RemoveGet, RemoveState, Remove, storeVars
<1> QED
  BY <1>4, <1>5, <1>6, <1>7, <1>8, <1>9, <1>10, <1>11 DEF CallMoves, Step

LEMMA RetryIsOfErrorStill ==
  ASSUME CallInv, [Next]_vars, NEW p \in Procs
  PROVE  RetryIsOfError(p)'
<1> SUFFICES ASSUME proc'[p].call = "retry",
                    proc'[p].pc \in {"removeGet", "removeState", "remove", "retry"}
             PROVE  release'.status = "ERROR"
  BY DEF RetryIsOfError, Is
<1>0. proc \in [Procs -> ProcStates] /\ RetryIsOfError(p)
  BY DEF CallInv, CallIsInOrder, TypeInv
<1>1. CASE proc'[p] = proc[p]
  <2>1. InLock(p) /\ release.status = "ERROR"
    BY <1>0, <1>1 DEF RetryIsOfError, Is, InLock, LockedCalls
  <2> QED
    BY <1>1, <2>1, SettledInLock DEF SettledStatuses
<1>2. CASE CallMoves(p)
  <2>1. CASE (RemoveGet(p) \/ RemoveState(p) \/ Remove(p)) /\ SameCall(p) /\ UNCHANGED release
    BY <1>0, <2>1 DEF RemoveGet, RemoveState, Remove, AtStep, SameCall, RetryIsOfError, Is
  <2>2. ~(Is(p, "exhausted") /\ SameCall(p))
    BY DEF Is, SameCall
  <2> QED
    BY <1>2, <2>1, <2>2, CleanUpSteps
<1>3. proc'[p] # IdleProc
  BY DEF IdleProc
<1> QED
  BY <1>0, <1>1, <1>2, <1>3, ProcMoves

\* A job that is not the newest attempt's is not replaced by one that is,
\* while a call is in the lock.
LEMMA OldJobStaysOld ==
  ASSUME CallInv, [Next]_vars, NEW p \in Procs, InLock(p), ~AtStep(p, "enqueue"),
         HasJob => job.attempt < release.attempt, release.attempt > 0, HasJob'
  PROVE  job'.attempt < release'.attempt
<1>1. /\ release.attempt \in Nat /\ release'.attempt \in Nat
      /\ release.attempt <= release'.attempt
  BY ReleaseOnlyAdvances
<1>2. HasJob => job.attempt \in Nat
  BY StoreAssumption DEF CallInv, TypeInv, JobIsTyped, HasJob, Jobs, Attempts
<1>3. ASSUME NEW q \in Procs, AtStep(q, "enqueue") PROVE proc[q].attempt = 0
  BY <1>3, QueuersAreKnown, InLockAlone DEF CallInv
<1> QED
  BY <1>1, <1>2, <1>3, JobOfAttempt DEF CallInv

LEMMA ExhaustedIsOverStill ==
  ASSUME CallInv, [Next]_vars, NEW p \in Procs
  PROVE  ExhaustedIsOver(p)'
<1> SUFFICES ASSUME proc'[p].call = "exhausted",
                    proc'[p].pc \in {"removeGet", "removeState", "remove"}
             PROVE  \/ release'.status \in SettledStatuses
                    \/ /\ proc'[p].target < release'.attempt
                       /\ proc'[p].pc # "removeGet" /\ HasJob' => job'.attempt < release'.attempt
  BY DEF ExhaustedIsOver, Is, HasJob
<1> DEFINE Over == release.status \in SettledStatuses
<1>0. /\ proc \in [Procs -> ProcStates] /\ ExhaustedIsOver(p) /\ KeepsToItsSteps(p)
      /\ CallIsNotAhead(p) /\ proc[p].target \in Nat /\ proc[p].attempt \in Nat
  BY ProcValues DEF CallInv, CallIsInOrder, TypeInv
<1>1. /\ release.attempt \in Nat /\ release'.attempt \in Nat
      /\ release.attempt <= release'.attempt
  BY ReleaseOnlyAdvances
<1>2. CASE proc'[p] = proc[p]
  <2>1. InLock(p) /\ ~AtStep(p, "enqueue") /\ Is(p, "exhausted")
    BY <1>2 DEF InLock, LockedCalls, AtStep, Is
  <2>2. CASE Over
    BY <1>2, <2>1, <2>2, SettledInLock
  <2>3. CASE /\ proc[p].target < release.attempt
             /\ proc[p].pc # "removeGet" /\ HasJob => job.attempt < release.attempt
    <3>1. proc'[p].target < release'.attempt /\ release.attempt > 0
      BY <1>0, <1>1, <1>2, <2>3
    <3>2. proc'[p].pc # "removeGet" /\ HasJob' => job'.attempt < release'.attempt
      BY <1>2, <2>1, <2>3, <3>1, OldJobStaysOld
    <3> QED
      BY <3>1, <3>2
  <2> QED
    BY <1>0, <1>2, <2>1, <2>2, <2>3 DEF ExhaustedIsOver
<1>3. CASE CallMoves(p)
  <2>1. CASE /\ ReadRow(p) /\ Is(p, "exhausted") /\ SameCall(p) /\ UNCHANGED release
             /\ release.status \notin ProcessingStatuses \/ release.attempt # proc[p].attempt
             /\ proc'[p].pc = "removeGet"
    <3>1. Busy(p) /\ AtStep(p, "read")
      BY <2>1 DEF ReadRow, AtStep, Busy
    <3>2. IsStarted /\ proc[p].attempt <= release.attempt
      BY <1>0, <3>1 DEF CallIsNotAhead
    <3>3. proc[p].target = proc[p].attempt
      BY <1>0, <2>1, <3>1 DEF KeepsToItsSteps, Is, AtStep, Busy
    <3>4. CASE release.status \notin ProcessingStatuses
      BY <2>1, <3>2, <3>4 DEF IsStarted
    <3>5. CASE release.attempt # proc[p].attempt
      BY <1>0, <1>1, <2>1, <3>2, <3>3, <3>5 DEF SameCall
    <3> QED
      BY <2>1, <3>4, <3>5
  <2>2. CASE release'.status = "ERROR"
    BY <2>2 DEF SettledStatuses
  <2>3. CASE (RemoveGet(p) \/ RemoveState(p) \/ Remove(p)) /\ SameCall(p) /\ UNCHANGED release
    <3>1. /\ Is(p, "exhausted") /\ proc[p].pc \in {"removeGet", "removeState", "remove"}
          /\ proc'[p].target = proc[p].target
      BY <2>3 DEF RemoveGet, RemoveState, Remove, AtStep, SameCall, Is
    <3>2. CASE Over
      BY <2>3, <3>2
    <3>3. CASE /\ proc[p].target < release.attempt
               /\ proc[p].pc # "removeGet" /\ HasJob => job.attempt < release.attempt
      <4>1. CASE RemoveGet(p)
        <5>1. \/ HasJob /\ job.attempt = proc[p].target
              \/ proc'[p] = IdleProc \/ proc'[p].pc = "release"
          BY <1>0, <3>1, <4>1, CallStaysTheSame DEF RemoveGet, AfterRemoval, Is
        <5>2. HasJob /\ job.attempt = proc[p].target /\ UNCHANGED job
          BY <4>1, <5>1 DEF RemoveGet, queueVars, IdleProc
        <5> QED
          BY <2>3, <3>1, <3>3, <5>2 DEF HasJob
      <4>2. CASE RemoveState(p)
        <5>1. UNCHANGED job /\ proc[p].pc = "removeState"
          BY <4>2 DEF RemoveState, queueVars, AtStep
        <5> QED
          BY <2>3, <3>1, <3>3, <5>1 DEF HasJob
      <4>3. CASE Remove(p)
        <5>1. job' = job \/ job' = NoJob
          BY <4>3 DEF Remove, RemoveJob, queueVars
        <5>2. proc[p].pc = "remove"
          BY <4>3 DEF Remove, AtStep
        <5> QED
          BY <2>3, <3>1, <3>3, <5>1, <5>2 DEF HasJob
      <4> QED
        BY <2>3, <4>1, <4>2, <4>3
    <3> QED
      BY <1>0, <3>1, <3>2, <3>3 DEF ExhaustedIsOver
  <2> QED
    BY <1>3, <2>1, <2>2, <2>3, CleanUpSteps
<1>4. proc'[p] # IdleProc
  BY DEF IdleProc
<1> QED
  BY <1>0, <1>2, <1>3, <1>4, ProcMoves

-----------------------------------------------------------------------------
LEMMA CallInvIsPreserved ==
  ASSUME CallInv, [Next]_vars
  PROVE  CallInv'
<1>1. TypeInv' /\ LockIsHeld' /\ JobIsNotAhead'
  BY TypeInvIsPreserved, LockIsHeldStill, JobIsNotAheadStill DEF CallInv
<1>2. NoLeaseIsLost'
  <2>1. \A kind \in {"lease", "redis"} :
          budget[kind] = 0 /\ budget'[kind] <= budget[kind] /\ budget'[kind] \in Nat
    BY <1>1, BudgetSteps DEF CallInv, TypeInv, NoLeaseIsLost, FaultKinds, BudgetIsTyped
  <2> QED
    BY <2>1 DEF NoLeaseIsLost
<1>3. release'.status = NoStatus \/ IsStarted'
  BY ReleaseOnlyAdvances
<1>4. ASSUME NEW p \in Procs PROVE CallIsInOrder(p)'
  <2>1. KeepsToItsSteps(p)'
    <3>1. KeepsToItsSteps(p) /\ proc \in [Procs -> ProcStates]
      BY DEF CallInv, CallIsInOrder, TypeInv
    <3>2. CASE proc'[p] = proc[p]
      BY <3>1, <3>2 DEF KeepsToItsSteps, Is, Busy
    <3>3. CASE proc'[p] = IdleProc
      BY <3>3 DEF KeepsToItsSteps, Is, Busy, IdleProc
    <3> QED
      BY <3>1, <3>2, <3>3, ProcMoves, CallKeepsToSteps
  <2> QED
    BY <2>1, CallIsNotAheadStill, RetryIsOfErrorStill, ExhaustedIsOverStill DEF CallIsInOrder
<1> QED
  BY <1>1, <1>2, <1>3, <1>4 DEF CallInv

LEMMA InitIsInOrder ==
  ASSUME Init, Budget["lease"] = 0, Budget["redis"] = 0
  PROVE  CallInv
<1>1. NoLeaseIsLost
  BY DEF Init, NoLeaseIsLost
<1>2. ~HasJob /\ release.status = NoStatus
  BY DEF Init, QueueInit, HasJob, StoreInit
<1>3. ASSUME NEW p \in Procs PROVE CallIsInOrder(p) /\ ~InLock(p)
  <2>1. proc[p].call = "none" /\ proc[p].pc = "idle"
    BY DEF Init, IdleProc
  <2> QED
    BY <2>1 DEF CallIsInOrder, KeepsToItsSteps, CallIsNotAhead, RetryIsOfError,
       ExhaustedIsOver, Is, Busy, InLock
<1> QED
  BY <1>1, <1>2, <1>3, InitIsTyped DEF CallInv, LockIsHeld, JobIsNotAhead

\* Retries, the handlers of exhausted jobs and the reconciler exclude each other: as
\* long as no lease runs out under a holder that is alive and Redis keeps its data,
\* at most one call, of any worker or request, is between the acquire and the
\* release of withReleaseLock, whichever processes die and whatever the calls throw
\* (release-queue.ts:55-95).
THEOREM LockedCallsAreAlone ==
  ASSUME Budget["lease"] = 0, Budget["redis"] = 0
  PROVE  Spec => [](\A p, q \in Procs : InLock(p) /\ InLock(q) => p = q)
<1>1. Init => CallInv
  BY InitIsInOrder
<1>2. CallInv /\ [Next]_vars => CallInv'
  BY CallInvIsPreserved
<1>3. CallInv => \A p, q \in Procs : InLock(p) /\ InLock(q) => p = q
  BY InLockAlone DEF CallInv
<1> QED
  BY <1>1, <1>2, <1>3, PTL DEF Spec

-----------------------------------------------------------------------------
(***************************************************************************)
(* A job that completes leaves a verdict: a processor that is alone with   *)
(* its evidence sends a release to ANALYZING only when every mandatory     *)
(* test has its result and its artifact, so the gate does not say ERROR.   *)
(***************************************************************************)
AnalyzingIsComplete ==
  release.status = "ANALYZING" => GateOf(AttemptSummary(release.attempt)) # "ERROR"

PersistingIsTesting(w) ==
  /\ worker[w].pc \in {"prepare", "start", "put", "complete", "completeError", "toAnalyzing"}
  /\ release.attempt = worker[w].attempt
  => release.status # "ANALYZING"

ReturnedIsFinal(w) == At(w, "return") => release.status \in FinalStatuses

GateInv ==
  /\ EvidenceInv
  /\ AnalyzingIsComplete
  /\ \A w \in Workers : PersistingIsTesting(w) /\ ReturnedIsFinal(w)

\* Results of all mandatory tests, each once and with its artifact, are enough.
LEMMA SelectedIsComplete ==
  ASSUME NEW results \in Seq(Results), IsSelected(results)
  PROVE  GateOf(results) # "ERROR"
<1>1. PICK chosen \in SUBSET TestIds :
        Mandatory \subseteq chosen /\ IdsOf(results) = Among(Registry, chosen)
  BY DEF IsSelected
<1>2. ASSUME NEW id \in Mandatory PROVE ProvenBy(results, id)
  <2>1. id \in TestIds
    BY RegistryAssumption
  <2>2. PICK i \in DOMAIN results : results[i].id = id
    BY <1>1, <2>1, SelectedIds
  <2>3. ResultsOf(results, id) = {i}
    BY <1>1, <2>2, SelectedIds DEF ResultsOf
  <2>4. Cardinality({i}) = 1
    BY FS_Singleton
  <2> QED
    BY <2>3, <2>4 DEF ProvenBy, IsSelected
<1>3. \A result \in Results : result.status \in TestStatuses
  BY DEF Results
<1>4. GateOf(results) = IF ~(\A id \in Mandatory : ProvenBy(results, id)) THEN "ERROR"
                        ELSE IF CleanBy(results) THEN "SAFE"
                        ELSE "BLOCKED"
  BY <1>3, GateIsJustified
<1> QED
  BY <1>2, <1>4

\* A verdict is not taken back.
LEMMA FinalStays ==
  ASSUME TypeInv, [Next]_vars, release.status \in FinalStatuses
  PROVE  UNCHANGED release
<1>1. release.status \in SettledStatuses /\ release.status # "ERROR"
  BY DEF FinalStatuses, SettledStatuses
<1> QED
  BY <1>1, TypedIsWellFormed, SettledStays DEF RetryRelease

LEMMA OutsideKeepsGate ==
  ASSUME GateInv, EvidenceInv', Outside, ReleaseMoves, [Next]_vars
  PROVE  GateInv'
<1>0. worker \in [Workers -> WorkerStates] /\ TypeInv
  BY DEF GateInv, EvidenceInv, OwnInv, TypeInv, WorkersAreTyped
<1>1. release'.status = "ANALYZING" => release' = release
  BY DEF ReleaseMoves, storeVars
<1>2. \A w \in Workers :
        \/ worker'[w] = worker[w]
        \/ worker'[w].pc \in {"idle", "throw"}
        \/ /\ worker'[w].pc = "completeError" /\ worker[w].pc = "put"
           /\ worker'[w].attempt = worker[w].attempt
  BY <1>0 DEF Outside, StopsWorker, Leave, Continue, IdleWorker, At, WorkerStates
<1>3. AnalyzingIsComplete'
  BY <1>1 DEF GateInv, AnalyzingIsComplete, AttemptSummary, Outside
<1>4. ASSUME NEW w \in Workers PROVE PersistingIsTesting(w)' /\ ReturnedIsFinal(w)'
  <2>1. PersistingIsTesting(w) /\ ReturnedIsFinal(w)
    BY DEF GateInv
  <2>2. PersistingIsTesting(w)'
    BY <1>1, <1>2, <2>1 DEF PersistingIsTesting
  <2>3. ReturnedIsFinal(w)'
    BY <1>0, <1>2, <2>1, FinalStays DEF ReturnedIsFinal, At
  <2> QED
    BY <2>2, <2>3
<1> QED
  BY <1>3, <1>4 DEF GateInv

\* A processor at work leaves the others idle.
LEMMA EnoughForGate ==
  ASSUME GateInv, EvidenceInv', NEW w \in Workers, Process(w),
         AnalyzingIsComplete', PersistingIsTesting(w)', ReturnedIsFinal(w)'
  PROVE  GateInv'
<1>1. ASSUME NEW v \in Workers, v # w PROVE PersistingIsTesting(v)' /\ ReturnedIsFinal(v)'
  <2>1. worker'[v].pc = "idle"
    BY <1>1, OthersAreIdle DEF GateInv, EvidenceInv
  <2> QED
    BY <2>1 DEF PersistingIsTesting, ReturnedIsFinal, At
<1> QED
  BY <1>1 DEF GateInv

\* The summary of the release's attempt reads the rows of that attempt only.
LEMMA SummaryReadsItsRows ==
  ASSUME UNCHANGED release,
         \A id \in TestIds : runs'[<<release.attempt, id>>] = runs[<<release.attempt, id>>]
  PROVE  AttemptSummary(release.attempt)' = AttemptSummary(release.attempt)
<1> DEFINE there == {id \in TestIds : runs[<<release.attempt, id>>] # NoRun}
           ran == Among(Registry, there)
<1>1. there' = there
  OBVIOUS
<1>2. \A i \in DOMAIN ran : ran[i] \in TestIds
  <2>1. Range(ran) \subseteq TestIds
    BY RegistryAssumption, AmongElements
  <2> QED
    BY <2>1 DEF Range
<1>3. ran' = ran
  BY <1>1
<1> HIDE DEF there, ran
<1>4. [i \in DOMAIN ran' |-> SummaryOf(ran'[i], runs'[<<release'.attempt, ran'[i]>>])]
        = [i \in DOMAIN ran |-> SummaryOf(ran[i], runs[<<release.attempt, ran[i]>>])]
  BY <1>2, <1>3
<1> QED
  BY <1>4 DEF AttemptSummary, there, ran

LEMMA ProcessKeepsGate ==
  ASSUME GateInv, EvidenceInv', NEW w \in Workers, Process(w)
  PROVE  GateInv'
<1>0. /\ worker \in [Workers -> WorkerStates] /\ StoreTypeOK /\ RunsAreTyped
      /\ AnalyzingIsComplete /\ PersistingIsTesting(w)
  BY DEF GateInv, EvidenceInv, OwnInv, TypeInv, WorkersAreTyped
<1>1. \A pc : /\ Continue(w, pc) => worker'[w].pc = pc /\ worker'[w].attempt = worker[w].attempt
              /\ Leave(w, pc) => worker'[w].pc = pc
  BY <1>0 DEF Continue, Leave, IdleWorker, WorkerStates
<1>2. CASE FetchJob(w) \/ Find(w) \/ Summary(w) \/ Upsert(w)
  <2>1. UNCHANGED <<release, runs>>
    BY <1>2 DEF FetchJob, Find, Summary, Upsert, UpsertAssessment, storeVars, EvidenceUnchanged
  <2>2. \/ worker'[w].pc \in {"find", "throw", "toTesting", "summary", "upsert", "toGate"}
        \/ worker'[w].pc = "prepare" /\ release.status = "TESTING"
    <3>1. CASE FetchJob(w)
      BY <1>0, <3>1 DEF FetchJob, IdleWorker
    <3>2. CASE Find(w)
      <4>1. \/ Leave(w, "throw") \/ Continue(w, "toTesting") \/ Continue(w, "summary")
            \/ Continue(w, "prepare") /\ release.status = "TESTING"
        BY <3>2 DEF Find, ProcessingStatuses
      <4> QED
        BY <1>1, <4>1
    <3>3. CASE Summary(w)
      BY <1>0, <3>3 DEF Summary, WorkerStates
    <3>4. CASE Upsert(w)
      BY <1>1, <3>4 DEF Upsert
    <3> QED
      BY <1>2, <3>1, <3>2, <3>3, <3>4
  <2>3. AnalyzingIsComplete'
    BY <1>0, <2>1 DEF AnalyzingIsComplete, AttemptSummary
  <2>4. PersistingIsTesting(w)' /\ ReturnedIsFinal(w)'
    BY <2>1, <2>2 DEF PersistingIsTesting, ReturnedIsFinal, At
  <2> QED
    BY <2>3, <2>4, EnoughForGate
<1>3. CASE PrepareAndCheck(w) \/ Start(w) \/ Put(w) \/ CompleteError(w) \/ Complete(w)
  <2>1. /\ UNCHANGED release
        /\ worker[w].pc \in {"prepare", "start", "put", "complete", "completeError"}
    BY <1>3 DEF PrepareAndCheck, Start, Put, CompleteError, Complete, At, storeVars
  <2>2. /\ worker'[w].pc # "return"
        /\ worker'[w].pc = "throw" \/ worker'[w].attempt = worker[w].attempt
    <3>1. CASE Leave(w, "throw") \/ Continue(w, "complete") \/ Continue(w, "completeError")
      BY <1>1, <3>1
    <3>2. ASSUME NEW results, worker' = [worker EXCEPT ![w].pc = "start", ![w].next = 1,
                                                       ![w].results = results]
          PROVE  worker'[w].pc = "start" /\ worker'[w].attempt = worker[w].attempt
      BY <1>0, <3>2 DEF WorkerStates
    <3>3. ASSUME NEW id, worker' = [worker EXCEPT ![w].pc = "put", ![w].run = id]
          PROVE  worker'[w].pc = "put" /\ worker'[w].attempt = worker[w].attempt
      BY <1>0, <3>3 DEF WorkerStates
    <3>4. ASSUME NEW next, NEW pc \in {"start", "toAnalyzing"},
                 worker' = [worker EXCEPT ![w].run = 0, ![w].next = next, ![w].pc = pc]
          PROVE  worker'[w].pc = pc /\ worker'[w].attempt = worker[w].attempt
      BY <1>0, <3>4 DEF WorkerStates
    <3>5. CASE PrepareAndCheck(w)
      BY <3>1, <3>2, <3>5 DEF PrepareAndCheck, RunChecks
    <3>6. CASE Start(w)
      BY <3>3, <3>6 DEF Start
    <3>7. CASE Complete(w)
      <4>1. Leave(w, "throw") \/ \E next : \E pc \in {"start", "toAnalyzing"} :
              worker' = [worker EXCEPT ![w].run = 0, ![w].next = next, ![w].pc = pc]
        BY <3>7 DEF Complete
      <4> QED
        BY <3>1, <3>4, <4>1
    <3> QED
      BY <1>3, <3>1, <3>5, <3>6, <3>7 DEF Put, CompleteError
  <2>3. \A key \in Keys : key[1] # worker[w].attempt => runs'[key] = runs[key]
    <3>1. CASE runs' = runs
      BY <3>1
    <3>2. CASE PrepareAndCheck(w)
      BY <3>2 DEF PrepareAndCheck
    <3>3. ASSUME NEW row, runs' = [runs EXCEPT ![RunKey(w)] = row]
          PROVE  \A key \in Keys : key[1] # worker[w].attempt => runs'[key] = runs[key]
      <4>1. RunKey(w)[1] = worker[w].attempt
        BY DEF RunKey
      <4> QED
        BY <1>0, <3>3, <4>1 DEF RunsAreTyped
    <3>4. runs' = runs \/ PrepareAndCheck(w) \/ \E row : runs' = [runs EXCEPT ![RunKey(w)] = row]
      BY <1>3 DEF Start, Put, CompleteError, Complete
    <3> QED
      BY <3>1, <3>2, <3>3, <3>4
  <2>4. AnalyzingIsComplete'
    <3> SUFFICES ASSUME release.status = "ANALYZING"
                 PROVE  GateOf(AttemptSummary(release.attempt))' # "ERROR"
      BY <2>1 DEF AnalyzingIsComplete
    <3>1. release.attempt # worker[w].attempt /\ release.attempt \in Attempts
      BY <1>0, <2>1 DEF PersistingIsTesting, StoreTypeOK
    <3>2. \A id \in TestIds : runs'[<<release.attempt, id>>] = runs[<<release.attempt, id>>]
      BY <2>3, <3>1 DEF Keys
    <3>3. AttemptSummary(release.attempt)' = AttemptSummary(release.attempt)
      BY <2>1, <3>1, <3>2, SummaryReadsItsRows
    <3> QED
      BY <1>0, <3>3 DEF AnalyzingIsComplete
  <2>5. PersistingIsTesting(w)' /\ ReturnedIsFinal(w)'
    BY <1>0, <2>1, <2>2 DEF PersistingIsTesting, ReturnedIsFinal, At
  <2> QED
    BY <2>4, <2>5, EnoughForGate
<1>4. ASSUME ToTesting(w) \/ ToAnalyzing(w) \/ ToGate(w),
             Leave(w, "throw"), UNCHANGED storeVars
      PROVE  GateInv'
  <2>1. worker'[w].pc = "throw" /\ runs' = runs
    BY <1>1, <1>4 DEF ToTesting, ToAnalyzing, ToGate, Transition, EvidenceUnchanged
  <2>2. AnalyzingIsComplete' /\ PersistingIsTesting(w)' /\ ReturnedIsFinal(w)'
    BY <1>0, <1>4, <2>1 DEF AnalyzingIsComplete, AttemptSummary, PersistingIsTesting,
       ReturnedIsFinal, At, storeVars
  <2> QED
    BY <2>2, EnoughForGate
<1>5. CASE ToTesting(w) /\ SetStatus("TESTING") /\ Continue(w, "prepare")
  <2>1. release'.status = "TESTING"
    BY <1>0, <1>5 DEF SetStatus, StoreTypeOK
  <2>2. worker'[w].pc = "prepare"
    BY <1>1, <1>5
  <2> QED
    BY <2>1, <2>2, EnoughForGate
       DEF AnalyzingIsComplete, PersistingIsTesting, ReturnedIsFinal, At
<1>6. CASE /\ ToAnalyzing(w) /\ CanTransition("TESTING", worker[w].attempt, "ANALYZING")
           /\ SetStatus("ANALYZING") /\ Continue(w, "upsert")
  <2>1. worker'[w].pc = "upsert" /\ runs' = runs /\ release'.attempt = worker[w].attempt
    <3>1. release'.attempt = worker[w].attempt
      BY <1>0, <1>6 DEF CanTransition, SetStatus, StoreTypeOK
    <3> QED
      BY <1>1, <1>6, <3>1 DEF ToAnalyzing, Transition, EvidenceUnchanged
  <2>2. /\ worker[w].results = AttemptSummary(worker[w].attempt)
        /\ IsSelected(worker[w].results) /\ worker[w].results \in Seq(Results)
    <3>1. At(w, "toAnalyzing") /\ WorkersAreTyped /\ EvidenceIsPersisted(w)
      BY <1>6 DEF ToAnalyzing, GateInv, EvidenceInv, OwnInv, TypeInv
    <3> QED
      BY <3>1, PersistedIsSummary DEF EvidenceIsPersisted, At, WorkersAreTyped, WorkerStates
  <2>3. GateOf(AttemptSummary(worker[w].attempt)) # "ERROR"
    BY <2>2, SelectedIsComplete
  <2>4. AttemptSummary(release.attempt)' = AttemptSummary(worker[w].attempt)
    BY <2>1 DEF AttemptSummary
  <2> QED
    BY <2>1, <2>3, <2>4, EnoughForGate
       DEF AnalyzingIsComplete, PersistingIsTesting, ReturnedIsFinal, At
<1>7. CASE /\ ToGate(w) /\ CanTransition("ANALYZING", worker[w].attempt, Verdict(w))
           /\ SetStatus(Verdict(w)) /\ Leave(w, "return")
  <2>1. worker'[w].pc = "return" /\ release'.status = Verdict(w)
    BY <1>0, <1>1, <1>7 DEF SetStatus, StoreTypeOK
  <2>2. worker[w].results = AttemptSummary(release.attempt) /\ release.status = "ANALYZING"
    BY <1>7 DEF ToGate, GateInv, EvidenceInv, EvidenceIsPersisted, At, CanTransition
  <2>3. Verdict(w) \in FinalStatuses
    BY <1>0, <2>2, VerdictIsAVerdict
       DEF AnalyzingIsComplete, Verdict, GateVerdicts, FinalStatuses
  <2>4. release'.status # "ANALYZING"
    BY <2>1, <2>3 DEF FinalStatuses
  <2> QED
    BY <2>1, <2>3, <2>4, EnoughForGate
       DEF AnalyzingIsComplete, PersistingIsTesting, ReturnedIsFinal, At
<1>8. CASE ToTesting(w) \/ ToAnalyzing(w) \/ ToGate(w)
  BY <1>4, <1>5, <1>6, <1>7, <1>8 DEF ToTesting, ToAnalyzing, ToGate, Transition,
     TransitionRelease
<1> QED
  BY <1>2, <1>3, <1>8 DEF Process

LEMMA GateInvIsPreserved ==
  ASSUME GateInv, [Next]_vars
  PROVE  GateInv'
<1>1. EvidenceInv' /\ StoreTypeOK
  BY EvidenceInvIsPreserved DEF GateInv, EvidenceInv, OwnInv, TypeInv
<1> QED
  BY <1>1, OutsideKeepsGate, ProcessKeepsGate, OutsideLeavesVerdicts

-----------------------------------------------------------------------------
CompletedIsFinal(p) == Is(p, "completed") => release.status \in FinalStatuses

KeptInv == CallInv /\ GateInv /\ \A p \in Procs : CompletedIsFinal(p)

\* The handler of a completed job begins when a worker has returned.
LEMMA CompletedCalls ==
  ASSUME CallInv, NEW p \in Procs, CallMoves(p), proc'[p].call = "completed"
  PROVE  \/ Is(p, "completed")
         \/ UNCHANGED storeVars /\ \E w \in Workers : At(w, "return")
<1>0. proc \in [Procs -> ProcStates]
  BY DEF CallInv, TypeInv
<1>1. \A call, pc, attempt, status :
        Begin(p, Call(call, pc, attempt, status)) => proc'[p].call = call
  <2>1. \A state : Begin(p, state) => proc'[p] = state
    BY <1>0, ProcValues
  <2> QED
    BY <2>1 DEF Call
<1>2. ~(Submit(p) \/ Retry(p) \/ Reconcile(p) \/ Recover(p))
  BY <1>1 DEF Submit, Retry, Reconcile, Recover, Sweep
<1>3. CASE BeginsHandler(p)
  BY <1>3 DEF BeginsHandler, Call
<1>4. ASSUME Finish(p) \/ End(p) \/ \E pc : Goto(p, pc) PROVE Is(p, "completed")
  <2>1. proc'[p] # IdleProc
    BY DEF IdleProc
  <2> QED
    BY <1>0, <1>4, <2>1, CallStaysTheSame DEF SameCall, Is
<1>5. CASE \/ EnqueueThrows(p) \/ CallThrows(p) \/ Acquire(p) \/ AcquireTimesOut(p)
           \/ Release(p) \/ Fail(p) \/ GetState(p) \/ RemoveGet(p) \/ RemoveState(p)
           \/ Remove(p) \/ EnqueueJob(p)
  BY <1>4, <1>5 DEF EnqueueThrows, CallThrows, Acquire, AcquireTimesOut, Release, Fail,
     GetState, RemoveGet, RemoveState, Remove, AfterRemoval, EnqueueJob
<1>6. CASE RetryRow(p)
  BY <1>1, <1>4, <1>6 DEF RetryRow
<1>7. CASE ReadRow(p)
  <2>1. CASE proc' \in {[proc EXCEPT ![p].pc = "fail", ![p].status = release.status],
                        [proc EXCEPT ![p].pc = "removeGet"]}
    BY <1>0, <2>1 DEF ProcStates, Is
  <2> QED
    BY <1>1, <1>4, <1>7, <2>1 DEF ReadRow
<1>8. CASE GetJob(p)
  <2>1. CASE proc' \in {[proc EXCEPT ![p].pc = "getState", ![p].target = job.attempt],
                        [proc EXCEPT ![p].pc = "enqueue"]}
    BY <1>0, <2>1 DEF ProcStates, Is
  <2> QED
    BY <1>4, <1>8, <2>1 DEF GetJob
<1> QED
  BY <1>2, <1>3, <1>5, <1>6, <1>7, <1>8 DEF CallMoves, Step

LEMMA KeptInvIsPreserved ==
  ASSUME KeptInv, [Next]_vars
  PROVE  KeptInv'
<1>1. CallInv' /\ GateInv'
  BY CallInvIsPreserved, GateInvIsPreserved DEF KeptInv
<1>2. ASSUME NEW p \in Procs PROVE CompletedIsFinal(p)'
  <2> SUFFICES ASSUME proc'[p].call = "completed" PROVE release'.status \in FinalStatuses
    BY DEF CompletedIsFinal, Is
  <2>1. proc \in [Procs -> ProcStates] /\ TypeInv /\ CompletedIsFinal(p)
    BY DEF KeptInv, CallInv, TypeInv
  <2>2. CASE Is(p, "completed")
    BY <2>1, <2>2, FinalStays DEF CompletedIsFinal
  <2>3. ASSUME UNCHANGED storeVars, NEW w \in Workers, At(w, "return")
        PROVE  release'.status \in FinalStatuses
    BY <2>3 DEF KeptInv, GateInv, ReturnedIsFinal, storeVars
  <2>4. proc'[p] # IdleProc /\ (proc'[p] = proc[p] => Is(p, "completed"))
    BY DEF IdleProc, Is
  <2> QED
    BY <2>1, <2>2, <2>3, <2>4, ProcMoves, CompletedCalls DEF KeptInv
<1> QED
  BY <1>1, <1>2 DEF KeptInv

LEMMA InitIsGated ==
  ASSUME Init, Budget["lockLoss"] = 0, Budget["redis"] = 0
  PROVE  GateInv
<1>1. \A w \in Workers : worker[w].pc = "idle"
  BY DEF Init, ProcessorInit, IdleWorker
<1>2. release.status = NoStatus
  BY DEF Init, StoreInit
<1> QED
  BY <1>1, <1>2, InitIsBacked DEF GateInv, AnalyzingIsComplete, PersistingIsTesting,
     ReturnedIsFinal, At, NoStatus

\* As long as no worker that is alive loses its job's lock and Redis keeps its data,
\* a release in ANALYZING has complete evidence: whoever takes it from there, also
\* from the rows alone after a crash, finds the gate at SAFE or BLOCKED, and the
\* ERROR of the gate is never published (release-processor.ts:173-232); and a
\* processor that returns, which makes BullMQ call the job completed and its handler
\* remove it, leaves a verdict (index.ts:70-72).
THEOREM AnalyzingEndsInVerdict ==
  ASSUME Budget["lockLoss"] = 0, Budget["redis"] = 0
  PROVE  Spec => [](AnalyzingIsComplete /\ \A w \in Workers : ReturnedIsFinal(w))
<1>1. Init => GateInv
  BY InitIsGated
<1>2. GateInv /\ [Next]_vars => GateInv'
  BY GateInvIsPreserved
<1>3. GateInv => AnalyzingIsComplete /\ \A w \in Workers : ReturnedIsFinal(w)
  BY DEF GateInv
<1> QED
  BY <1>1, <1>2, <1>3, PTL DEF Spec

LEMMA InitIsKept ==
  ASSUME Init, Budget["lease"] = 0, Budget["lockLoss"] = 0, Budget["redis"] = 0
  PROVE  KeptInv
<1>1. \A p \in Procs : CompletedIsFinal(p)
  BY DEF Init, IdleProc, CompletedIsFinal, Is
<1> QED
  BY <1>1, InitIsInOrder, InitIsGated DEF KeptInv

\* As long as no lease runs out under a call that is alive, no worker that is
\* alive loses its job's lock and Redis keeps its data, no clean-up takes away
\* the job an unsettled release is waiting for: a removal by a retry, by the
\* handler of an exhausted job or by that of a completed one is always of a
\* settled release or of a job of an earlier attempt, for any number of workers,
\* requests, sweeps, retries, crashes and failed calls
\* (release-queue.ts:116-126 and 148-161, index.ts:70-80).
THEOREM NeededJobsAreKept ==
  ASSUME Budget["lease"] = 0, Budget["lockLoss"] = 0, Budget["redis"] = 0
  PROVE  Spec => NeededJobIsKept
<1> DEFINE Kept == \A p \in Procs : Removes(p) =>
                     \/ release.status \in SettledStatuses
                     \/ job.attempt < release.attempt
                     \/ Is(p, "reconcile")
<1>1. Init => KeptInv
  BY InitIsKept
<1>2. KeptInv /\ [Next]_vars => KeptInv'
  BY KeptInvIsPreserved
<1>3. KeptInv => Kept
  <2> SUFFICES ASSUME KeptInv, NEW p \in Procs, Removes(p)
               PROVE  \/ release.status \in SettledStatuses
                      \/ job.attempt < release.attempt
                      \/ Is(p, "reconcile")
    OBVIOUS
  <2>1. KeepsToItsSteps(p) /\ RetryIsOfError(p) /\ ExhaustedIsOver(p) /\ CompletedIsFinal(p)
    BY DEF KeptInv, CallInv, CallIsInOrder
  <2>2. proc[p].pc = "remove" /\ HasJob
    BY DEF Removes, AtStep
  <2>3. Is(p, "completed") \/ Is(p, "retry") \/ Is(p, "exhausted") \/ Is(p, "reconcile")
    BY <2>1, <2>2 DEF KeepsToItsSteps, Busy
  <2>4. CASE Is(p, "completed") \/ Is(p, "retry")
    BY <2>1, <2>2, <2>4 DEF CompletedIsFinal, RetryIsOfError, SettledStatuses
  <2>5. CASE Is(p, "exhausted")
    BY <2>1, <2>2, <2>5 DEF ExhaustedIsOver
  <2> QED
    BY <2>3, <2>4, <2>5
<1>4. KeptInv => [Kept]_vars
  BY <1>3
<1> QED
  BY <1>1, <1>2, <1>4, PTL DEF Spec, NeededJobIsKept

-----------------------------------------------------------------------------
(***************************************************************************)
(* A release that is ANALYZING is carried on by its job alone.  The job    *)
(* ends without a verdict when it stalls once too often, when a processor  *)
(* throws for good, or when somebody takes it away.  It stalls at most as  *)
(* often as a worker dies; a processor has no reason to throw while the    *)
(* release is ANALYZING for its attempt; and who removes a job has found   *)
(* it terminal, or the release settled or ahead of it.                     *)
(***************************************************************************)
NoCallFails == budget["call"] = 0

StallsAreCrashes ==
  /\ budget["crash"] <= MaxStalls
  /\ HasJob => job.stalls + (IF Stalled THEN 1 ELSE 0) <= MaxStalls - budget["crash"]

WorksOnItsJob(w) ==
  worker[w].pc \notin {"idle", "return", "throw"} => worker[w].attempt = job.attempt

ThrowingIsNotAnalyzing(w) ==
  worker[w].pc \in {"toTesting", "throw"} /\ job.attempt = release.attempt
    => release.status # "ANALYZING"

ReplacesTerminal(p) ==
  Is(p, "reconcile") /\ AtStep(p, "remove") => JobIsTerminal \/ release.status \in FinalStatuses

CarriedInv ==
  /\ KeptInv /\ NoCallFails
  /\ StallsAreCrashes
  /\ \A w \in Workers : WorksOnItsJob(w) /\ ThrowingIsNotAnalyzing(w)
  /\ \A p \in Procs : ReplacesTerminal(p)
  /\ AnalyzingIsCarriedOn

\* How a job goes on, and at whose hands.
JobGoesOn ==
  \/ UNCHANGED job
  \/ ~HasJob /\ \E p \in Procs : job' = NewJob(proc[p].attempt)
  \/ HasJob /\ job' = NoJob /\ \E p \in Procs : Remove(p) /\ proc'[p] # proc[p]
  \/ PromoteDelayed \/ RequeueStalled \/ \E counted \in {0, 1} : FailStalled(counted)
  \/ \E w \in Workers : Fetch(w)
  \/ \E w \in Workers : At(w, "return") /\ CompleteJob(w)
  \/ \E w \in Workers : At(w, "throw") /\ FailJob(w)
  \/ /\ Spend("crash")
     /\ \E w \in Workers : Owns(w) /\ job' = [job EXCEPT !.owner = NoWorker]

LEMMA JobSurelyGoesOn ==
  ASSUME TypeInv, NoLockIsLost, [Next]_vars
  PROVE  JobGoesOn
<1>0. proc \in [Procs -> ProcStates] /\ WorkersAreTyped
  BY DEF TypeInv
<1>1. CASE UNCHANGED vars
  BY <1>1 DEF vars, JobGoesOn
<1>2. ASSUME NEW w \in Workers, Process(w) PROVE JobGoesOn
  BY <1>0, <1>2, ProcessKeepsJob DEF JobGoesOn, FetchJob
<1>3. ASSUME NEW w \in Workers, Report(w) PROVE JobGoesOn
  BY <1>3 DEF Report, Completed, Failed, Disowned, queueVars, JobGoesOn
<1>4. ASSUME NEW p \in Procs, Submit(p) \/ Retry(p) \/ Reconcile(p) \/ Recover(p)
      PROVE  JobGoesOn
  BY <1>4 DEF Submit, Retry, Reconcile, Recover, Sweep, queueVars, JobGoesOn
<1>5. ASSUME NEW p \in Procs, EnqueueJob(p) \/ EnqueueThrows(p) PROVE JobGoesOn
  BY <1>5 DEF EnqueueJob, EnqueueThrows, Enqueue, queueVars, JobGoesOn
<1>6. ASSUME NEW p \in Procs, Remove(p) PROVE JobGoesOn
  <2>1. CASE UNCHANGED job
    BY <2>1 DEF JobGoesOn
  <2>2. CASE job' = NoJob /\ HasJob /\ AfterRemoval(p)
    <3>1. \A pc : Goto(p, pc) => proc'[p].pc = pc
      BY <1>0, CallStaysTheSame
    <3>2. End(p) \/ Finish(p) => proc'[p].pc \in {"idle", "release"}
      BY <1>0, CallStaysTheSame DEF IdleProc
    <3>3. proc'[p].pc # "remove" /\ proc[p].pc = "remove"
      BY <1>6, <2>2, <3>1, <3>2 DEF Remove, AfterRemoval, AtStep
    <3> QED
      BY <1>6, <2>2, <3>3 DEF JobGoesOn
  <2> QED
    BY <1>6, <2>1, <2>2 DEF Remove, RemoveJob, queueVars, HasJob
<1>7. ASSUME NEW p \in Procs,
             \/ Acquire(p) \/ AcquireTimesOut(p) \/ Release(p) \/ ReadRow(p) \/ Fail(p)
             \/ GetJob(p) \/ GetState(p) \/ RemoveGet(p) \/ RemoveState(p) \/ RetryRow(p)
             \/ CrashRequest(p) \/ CallThrows(p)
      PROVE  JobGoesOn
  BY <1>7 DEF Acquire, AcquireTimesOut, Release, ReadRow, Fail, GetJob, GetState, RemoveGet,
     RemoveState, RetryRow, AcquireLock, ReleaseLock, CrashRequest, CallThrows, queueVars,
     JobGoesOn
<1>8. CASE BullMQ \/ ExpireOrphan \/ LoseReleaseLock
  BY <1>8 DEF BullMQ, Promote, CheckStalled, ExpireOrphan, ExpireOrphanedLock,
     LoseReleaseLock, ExpireHeldLock, JobGoesOn
<1>9. ASSUME NEW w \in Workers, CrashWorker(w) PROVE JobGoesOn
  BY <1>9 DEF CrashWorker, JobGoesOn
<1>10. ASSUME NEW w \in Workers, WorkerThrows(w) PROVE JobGoesOn
  BY <1>10 DEF WorkerThrows, StepThrows, PutFails, queueVars, JobGoesOn
<1>11. ~(LoseRedis \/ \E w \in Workers : LoseJobLock(w))
  BY DEF LoseRedis, LoseJobLock, Spend, NoLockIsLost
<1> QED
  BY <1>2, <1>1, <1>3, <1>4, <1>5, <1>6, <1>7, <1>8, <1>9, <1>10, <1>11
     DEF Next, Fault, Work, Advance, Step

\* The fields of a job that goes on.
LEMMA JobFields ==
  ASSUME JobIsTyped, HasJob
  PROVE  /\ job = [attempt |-> job.attempt, state |-> job.state, made |-> job.made,
                   stalls |-> job.stalls, owner |-> job.owner]
         /\ job.stalls \in 0 .. MaxStalls /\ job.state \in JobStates
         /\ job.owner \in Workers \cup {NoWorker} /\ job.attempt \in Attempts
BY DEF JobIsTyped, HasJob, Jobs

LEMMA StallsAreCrashesStill ==
  ASSUME TypeInv, TypeInv', NoLockIsLost, StallsAreCrashes, [Next]_vars
  PROVE  StallsAreCrashes'
<1>0. JobIsTyped /\ budget["crash"] \in Nat /\ budget'["crash"] \in Nat
  BY DEF TypeInv, BudgetIsTyped, FaultKinds
<1>1. budget'["crash"] <= budget["crash"]
  BY BudgetSteps DEF TypeInv, FaultKinds
<1> DEFINE Stalls == job.stalls + (IF Stalled THEN 1 ELSE 0)
<1>2. SUFFICES ASSUME HasJob' PROVE Stalls' <= MaxStalls - budget'["crash"]
  BY <1>0, <1>1 DEF StallsAreCrashes, MaxStalls
<1>3. HasJob => job.stalls \in Nat /\ Stalls <= MaxStalls - budget["crash"]
  BY <1>0, JobFields DEF StallsAreCrashes, MaxStalls
<1>4. CASE UNCHANGED job
  BY <1>0, <1>1, <1>2, <1>3, <1>4 DEF HasJob, Stalled, MaxStalls
<1>5. ASSUME NEW p \in Procs, job' = NewJob(proc[p].attempt)
      PROVE  Stalls' <= MaxStalls - budget'["crash"]
  BY <1>0, <1>1, <1>5 DEF NewJob, Stalled, StallsAreCrashes, MaxStalls
<1>6. CASE RequeueStalled
  <2>1. HasJob /\ Stalled
    BY <1>6 DEF RequeueStalled, Stalled
  <2>2. job'.state = "waiting" /\ job'.stalls = job.stalls + 1
    BY <1>0, <1>6, <2>1, JobFields DEF RequeueStalled
  <2> QED
    BY <1>0, <1>1, <1>3, <2>1, <2>2 DEF Stalled, MaxStalls
<1>7. CASE \/ PromoteDelayed \/ \E counted \in {0, 1} : FailStalled(counted)
           \/ \E w \in Workers : Fetch(w) \/ CompleteJob(w) \/ FailJob(w)
  <2>1. HasJob
    BY <1>7 DEF PromoteDelayed, FailStalled, Stalled, Fetch, CompleteJob, FailJob, Owns
  <2>2. job'.stalls = job.stalls
    BY <1>0, <1>7, <2>1, JobFields DEF PromoteDelayed, FailStalled, Fetch, CompleteJob, FailJob
  <2>3. job'.state # "active" \/ job'.owner # NoWorker
    BY <1>0, <1>7, <2>1, JobFields, QueueAssumption
       DEF PromoteDelayed, FailStalled, Fetch, CompleteJob, FailJob
  <2> QED
    BY <1>0, <1>1, <1>3, <2>1, <2>2, <2>3 DEF Stalled, MaxStalls
<1>8. ASSUME Spend("crash"), NEW w \in Workers, Owns(w), job' = [job EXCEPT !.owner = NoWorker]
      PROVE  Stalls' <= MaxStalls - budget'["crash"]
  <2>1. HasJob /\ job.owner # NoWorker
    BY <1>8, QueueAssumption DEF Owns
  <2>2. job'.stalls = job.stalls
    BY <1>0, <1>8, <2>1, JobFields
  <2>3. budget'["crash"] = budget["crash"] - 1
    BY <1>8 DEF Spend, TypeInv, BudgetIsTyped, FaultKinds
  <2> QED
    BY <1>0, <1>3, <2>1, <2>2, <2>3 DEF Stalled, MaxStalls
<1> HIDE DEF Stalls
<1> QED
  BY <1>2, <1>4, <1>5, <1>6, <1>7, <1>8, JobSurelyGoesOn DEF JobGoesOn, HasJob

\* The attempt of a job that stays, and of the processor that has it.
LEMMA JobKeepsAttempt ==
  ASSUME TypeInv, [Next]_vars, HasJob, HasJob'
  PROVE  job'.attempt = job.attempt
BY JobOfAttempt

LEMMA ProcessKeepsAttempt ==
  ASSUME WorkersAreTyped, NEW w \in Workers, Process(w), ~FetchJob(w)
  PROVE  worker'[w].pc \in {"return", "throw"} \/ worker'[w].attempt = worker[w].attempt
<1> DEFINE Goal == \/ worker'[w].pc \in {"return", "throw"}
                   \/ worker'[w].attempt = worker[w].attempt
<1>0. worker \in [Workers -> WorkerStates]
  BY DEF WorkersAreTyped
<1>1. ASSUME NEW pc, Continue(w, pc) PROVE Goal
  BY <1>0, <1>1 DEF Continue, WorkerStates
<1>2. CASE Leave(w, "throw") \/ Leave(w, "return")
  BY <1>0, <1>2 DEF Leave, IdleWorker
<1>3. ASSUME NEW pc, NEW results, worker' = [worker EXCEPT ![w].pc = pc, ![w].results = results]
      PROVE  Goal
  BY <1>0, <1>3 DEF WorkerStates
<1>4. ASSUME NEW results, worker' = [worker EXCEPT ![w].pc = "start", ![w].next = 1,
                                                   ![w].results = results]
      PROVE  Goal
  BY <1>0, <1>4 DEF WorkerStates
<1>5. ASSUME NEW id, worker' = [worker EXCEPT ![w].pc = "put", ![w].run = id] PROVE Goal
  BY <1>0, <1>5 DEF WorkerStates
<1>6. ASSUME NEW next, NEW pc,
             worker' = [worker EXCEPT ![w].run = 0, ![w].next = next, ![w].pc = pc]
      PROVE  Goal
  BY <1>0, <1>6 DEF WorkerStates
<1>7. CASE ToTesting(w) \/ ToAnalyzing(w) \/ ToGate(w)
  BY <1>1, <1>2, <1>7 DEF ToTesting, ToAnalyzing, ToGate, Transition
<1>8. CASE PrepareAndCheck(w)
  BY <1>2, <1>4, <1>8 DEF PrepareAndCheck, RunChecks
<1>9. CASE Start(w)
  BY <1>5, <1>9 DEF Start
<1>10. CASE Complete(w)
  BY <1>2, <1>6, <1>10 DEF Complete
<1>11. CASE Summary(w)
  BY <1>3, <1>11 DEF Summary
<1>12. CASE Find(w) \/ Put(w) \/ CompleteError(w) \/ Upsert(w)
  BY <1>1, <1>2, <1>12 DEF Find, Put, CompleteError, Upsert
<1> QED
  BY <1>7, <1>8, <1>9, <1>10, <1>11, <1>12 DEF Process

\* While no call fails, nothing but a processor makes a processor throw.
LEMMA OutsideOnlyStops ==
  ASSUME NoCallFails, [Next]_vars
  PROVE  \/ UNCHANGED worker \/ \E w \in Workers : Leave(w, "idle")
         \/ \E w \in Workers : Process(w)
<1>1. ASSUME NEW w \in Workers, Report(w) \/ CrashWorker(w) PROVE Leave(w, "idle")
  BY <1>1 DEF Report, CrashWorker, Leave, IdleWorker
<1>2. ~ \E w \in Workers : WorkerThrows(w)
  BY DEF WorkerThrows, Spend, NoCallFails
<1>3. ASSUME NEW p \in Procs,
             \/ Submit(p) \/ Retry(p) \/ Advance(p)
             \/ EnqueueThrows(p) \/ CrashRequest(p) \/ CallThrows(p)
      PROVE  UNCHANGED worker
  BY <1>3 DEF Submit, Retry, Advance, EnqueueThrows, Reconcile, Recover, Sweep, Step,
     Acquire, AcquireTimesOut, Release, ReadRow, Fail, GetJob, GetState, RemoveGet,
     RemoveState, Remove, RetryRow, EnqueueJob, ElsewhereUnchanged, CrashRequest, CallThrows
<1>4. ASSUME \/ BullMQ \/ ExpireOrphan \/ LoseReleaseLock \/ LoseRedis
             \/ \E w \in Workers : LoseJobLock(w)
      PROVE  UNCHANGED worker
  BY <1>4 DEF BullMQ, ExpireOrphan, Promote, CheckStalled, ElsewhereUnchanged, LoseJobLock,
     LoseReleaseLock, LoseRedis
<1> QED
  BY <1>1, <1>2, <1>3, <1>4 DEF Next, Fault, Work, vars

LEMMA WorksOnItsJobStill ==
  ASSUME CarriedInv, KeptInv', [Next]_vars, NEW w \in Workers
  PROVE  WorksOnItsJob(w)'
<1> SUFFICES ASSUME worker'[w].pc \notin {"idle", "return", "throw"}
             PROVE  worker'[w].attempt = job'.attempt
  BY DEF WorksOnItsJob
<1>0. /\ TypeInv /\ OwnInv /\ OwnInv' /\ worker \in [Workers -> WorkerStates]
      /\ WorksOnItsJob(w) /\ WorkersAreTyped
  BY DEF CarriedInv, KeptInv, GateInv, EvidenceInv, OwnInv, TypeInv, WorkersAreTyped
<1>1. HasJob'
  BY <1>0 DEF OwnInv, WorkersOwnTheirJob, At, Owns
<1>2. CASE worker'[w] = worker[w]
  <2>1. HasJob
    BY <1>0, <1>2 DEF OwnInv, WorkersOwnTheirJob, At, Owns
  <2> QED
    BY <1>0, <1>1, <1>2, <2>1, JobKeepsAttempt DEF WorksOnItsJob
<1>3. ASSUME NEW v \in Workers, Leave(v, "idle") PROVE worker'[w] = worker[w]
  BY <1>0, <1>3 DEF Leave, IdleWorker
<1>4. ASSUME NEW v \in Workers, Process(v) PROVE worker'[w].attempt = job'.attempt
  <2>1. w = v
    BY <1>0, <1>4, OthersAreIdle
  <2>2. CASE FetchJob(w)
    <3>1. HasJob /\ worker'[w].attempt = job.attempt
      BY <1>0, <2>2 DEF FetchJob, Fetch, IdleWorker
    <3> QED
      BY <1>0, <1>1, <3>1, JobKeepsAttempt
  <2>3. CASE ~FetchJob(w)
    <3>1. UNCHANGED job /\ worker[w].pc \notin {"idle", "return", "throw"}
      BY <1>0, <1>4, <2>1, <2>3, ProcessKeepsJob
         DEF Process, Find, ToTesting, PrepareAndCheck, Start, Put, CompleteError, Complete,
             ToAnalyzing, Summary, Upsert, ToGate, At
    <3> QED
      BY <1>0, <1>4, <2>1, <2>3, <3>1, ProcessKeepsAttempt DEF WorksOnItsJob
  <2> QED
    BY <2>2, <2>3
<1> QED
  BY <1>2, <1>3, <1>4, OutsideOnlyStops DEF CarriedInv

\* A processor throws away a job of an attempt that is ANALYZING for no reason
\* but a call that fails: it takes the release on, and the gate's answer is a
\* status the release can go to.
LEMMA ThrowsForAReason ==
  ASSUME CarriedInv, NEW w \in Workers, Process(w), worker'[w].pc \in {"toTesting", "throw"},
         job.attempt = release'.attempt
  PROVE  release'.status # "ANALYZING"
<1> SUFFICES ASSUME release'.status = "ANALYZING" PROVE FALSE
  OBVIOUS
<1>0. /\ worker \in [Workers -> WorkerStates] /\ StoreTypeOK
      /\ PersistingIsTesting(w) /\ WorksOnItsJob(w) /\ ThrowingIsNotAnalyzing(w)
  BY DEF CarriedInv, KeptInv, GateInv, EvidenceInv, OwnInv, TypeInv, WorkersAreTyped
<1>1. \A pc : /\ Continue(w, pc) => worker'[w].pc = pc
              /\ Leave(w, pc) => worker'[w].pc = pc
  BY <1>0 DEF Continue, Leave, IdleWorker, WorkerStates
<1>2. ~(FetchJob(w) \/ Start(w) \/ Put(w) \/ Summary(w) \/ Upsert(w))
  <2>1. ~FetchJob(w)
    BY <1>0 DEF FetchJob, IdleWorker
  <2>2. ~Start(w)
    BY <1>0 DEF Start, WorkerStates
  <2>3. ~Summary(w)
    BY <1>0 DEF Summary, WorkerStates
  <2>4. ~Put(w) /\ ~Upsert(w)
    BY <1>1 DEF Put, Upsert
  <2> QED
    BY <2>1, <2>2, <2>3, <2>4
<1>3. CASE Find(w)
  <2>1. UNCHANGED release /\ worker[w].attempt = release.attempt
    BY <1>0, <1>3 DEF Find, storeVars, WorksOnItsJob, At
  <2>2. Continue(w, "summary")
    BY <1>3, <2>1 DEF Find, ProcessingStatuses
  <2> QED
    BY <1>1, <2>2
<1>4. CASE ToTesting(w)
  <2>1. CASE SetStatus("TESTING")
    BY <1>0, <2>1 DEF SetStatus, StoreTypeOK
  <2>2. CASE UNCHANGED storeVars
    BY <1>0, <1>4, <2>2 DEF ToTesting, At, ThrowingIsNotAnalyzing, storeVars
  <2> QED
    BY <1>4, <2>1, <2>2 DEF ToTesting, Transition, TransitionRelease
<1>5. CASE PrepareAndCheck(w) \/ CompleteError(w) \/ Complete(w)
  BY <1>0, <1>5 DEF PrepareAndCheck, CompleteError, Complete, At, PersistingIsTesting,
     WorksOnItsJob, storeVars
<1>6. CASE ToAnalyzing(w)
  <2>1. UNCHANGED storeVars
    BY <1>1, <1>6 DEF ToAnalyzing, Transition
  <2> QED
    BY <1>0, <1>6, <2>1 DEF ToAnalyzing, At, PersistingIsTesting, WorksOnItsJob, storeVars
<1>7. CASE ToGate(w)
  <2>1. UNCHANGED storeVars /\ ~CanTransition("ANALYZING", worker[w].attempt, Verdict(w))
    BY <1>1, <1>7 DEF ToGate, Transition
  <2>2. worker[w].attempt = release.attempt /\ release.status = "ANALYZING"
    BY <1>0, <1>7, <2>1 DEF ToGate, At, WorksOnItsJob, storeVars
  <2>3. IsValidTransition("ANALYZING", Verdict(w))
    BY VerdictIsAVerdict DEF IsValidTransition, AllowedTransitions, GateVerdicts, Statuses, NoStatus
  <2> QED
    BY <2>1, <2>2, <2>3 DEF CanTransition
<1> QED
  BY <1>2, <1>3, <1>4, <1>5, <1>6, <1>7 DEF Process

LEMMA ThrowingIsNotAnalyzingStill ==
  ASSUME CarriedInv, KeptInv', [Next]_vars, NEW w \in Workers
  PROVE  ThrowingIsNotAnalyzing(w)'
<1> SUFFICES ASSUME worker'[w].pc \in {"toTesting", "throw"}, job'.attempt = release'.attempt
             PROVE  release'.status # "ANALYZING"
  BY DEF ThrowingIsNotAnalyzing
<1>0. /\ TypeInv /\ OwnInv /\ OwnInv' /\ worker \in [Workers -> WorkerStates]
      /\ ThrowingIsNotAnalyzing(w) /\ StoreTypeOK /\ WorkersAreTyped
  BY DEF CarriedInv, KeptInv, GateInv, EvidenceInv, OwnInv, TypeInv, WorkersAreTyped
<1>1. ASSUME NEW v \in Workers, Process(v) PROVE release'.status # "ANALYZING"
  <2>1. w = v
    BY <1>0, <1>1, OthersAreIdle
  <2>2. ~FetchJob(w)
    BY <1>0 DEF FetchJob, IdleWorker
  <2>3. UNCHANGED job
    BY <1>0, <1>1, <2>1, <2>2, ProcessKeepsJob
  <2> QED
    BY <1>1, <2>1, <2>3, ThrowsForAReason
<1>2. CASE ~ \E v \in Workers : Process(v)
  <2>1. worker'[w] = worker[w]
    <3>1. ASSUME NEW v \in Workers, Leave(v, "idle") PROVE worker'[w] = worker[w]
      BY <1>0, <3>1 DEF Leave, IdleWorker
    <3> QED
      BY <1>2, <3>1, OutsideOnlyStops DEF CarriedInv
  <2>2. HasJob /\ HasJob'
    BY <1>0, <2>1 DEF OwnInv, WorkersOwnTheirJob, At, Owns
  <2>3. job'.attempt = job.attempt
    BY <1>0, <2>2, JobKeepsAttempt
  <2>4. ReleaseMoves
    BY <1>0, <1>2, OutsideLeavesVerdicts
  <2> QED
    BY <1>0, <2>1, <2>3, <2>4 DEF ReleaseMoves, storeVars, ThrowingIsNotAnalyzing
<1> QED
  BY <1>1, <1>2

\* A call comes to the removal of a job that it has just found terminal.
LEMMA RemovalIsDecided ==
  ASSUME proc \in [Procs -> ProcStates], NEW p \in Procs, CallMoves(p), AtStep(p, "remove")'
  PROVE  JobIsTerminal /\ UNCHANGED job
<1> SUFFICES ASSUME proc'[p].pc = "remove" PROVE JobIsTerminal /\ UNCHANGED job
  BY DEF AtStep
<1>1. \A pc : Goto(p, pc) => pc = "remove"
  BY CallStaysTheSame
<1>2. ~Finish(p) /\ ~End(p)
  <2>1. IdleProc.pc # "remove"
    BY DEF IdleProc
  <2> QED
    BY <2>1, CallStaysTheSame
<1>3. \A call, pc, attempt, status : Begin(p, Call(call, pc, attempt, status)) => pc = "remove"
  <2>1. \A state : Begin(p, state) => proc'[p] = state
    BY ProcValues
  <2> QED
    BY <2>1 DEF Call
<1>4. ~(Submit(p) \/ Retry(p) \/ Reconcile(p) \/ Recover(p) \/ BeginsHandler(p))
  <2>1. ~BeginsHandler(p)
    BY DEF BeginsHandler, Call
  <2> QED
    BY <1>3, <2>1 DEF Submit, Retry, Reconcile, Recover, Sweep
<1>5. ~(\/ EnqueueThrows(p) \/ CallThrows(p) \/ Acquire(p) \/ AcquireTimesOut(p) \/ Release(p)
        \/ EnqueueJob(p) \/ Fail(p) \/ GetState(p) \/ RemoveGet(p) \/ Remove(p) \/ RetryRow(p))
  BY <1>1, <1>2, <1>3 DEF EnqueueThrows, CallThrows, Acquire, AcquireTimesOut, Release,
     EnqueueJob, Fail, GetState, RemoveGet, Remove, AfterRemoval, RetryRow
<1>6. ~ReadRow(p)
  <2>1. ~(proc' \in {[proc EXCEPT ![p].pc = "fail", ![p].status = release.status],
                     [proc EXCEPT ![p].pc = "removeGet"]})
    BY DEF ProcStates
  <2> QED
    BY <1>1, <1>2, <1>3, <2>1 DEF ReadRow
<1>7. ~GetJob(p)
  <2>1. ~(proc' \in {[proc EXCEPT ![p].pc = "getState", ![p].target = job.attempt],
                     [proc EXCEPT ![p].pc = "enqueue"]})
    BY DEF ProcStates
  <2> QED
    BY <1>1, <2>1 DEF GetJob
<1>8. RemoveState(p) => JobIsTerminal /\ UNCHANGED job
  BY <1>2 DEF RemoveState, queueVars
<1> QED
  BY <1>4, <1>5, <1>6, <1>7, <1>8 DEF CallMoves, Step

\* Who removes a job that is there.
LEMMA RemoversAreKnown ==
  ASSUME KeptInv, NEW p \in Procs, Remove(p)
  PROVE  \/ release.status \in FinalStatuses
         \/ InLock(p) /\ (release.status \in SettledStatuses \/ Is(p, "reconcile"))
         \/ InLock(p) /\ (HasJob => job.attempt < release.attempt)
<1>1. KeepsToItsSteps(p) /\ RetryIsOfError(p) /\ ExhaustedIsOver(p) /\ CompletedIsFinal(p)
  BY DEF KeptInv, CallInv, CallIsInOrder
<1>2. proc[p].pc = "remove"
  BY DEF Remove, AtStep
<1>3. Is(p, "completed") \/ Is(p, "retry") \/ Is(p, "exhausted") \/ Is(p, "reconcile")
  BY <1>1, <1>2 DEF KeepsToItsSteps, Busy
<1>4. ~Is(p, "completed") => InLock(p)
  BY <1>2, <1>3 DEF Is, InLock, LockedCalls
<1>5. Is(p, "retry") => release.status \in SettledStatuses
  BY <1>1, <1>2 DEF RetryIsOfError, SettledStatuses
<1>6. Is(p, "exhausted") => \/ release.status \in SettledStatuses
                            \/ HasJob => job.attempt < release.attempt
  BY <1>1, <1>2 DEF ExhaustedIsOver
<1> QED
  BY <1>1, <1>3, <1>4, <1>5, <1>6 DEF CompletedIsFinal

\* A terminal job is as it is until it is removed.
LEMMA TerminalStays ==
  ASSUME JobGoesOn, JobIsTerminal
  PROVE  UNCHANGED job \/ (job' = NoJob /\ \E p \in Procs : Remove(p) /\ proc'[p] # proc[p])
<1>1. HasJob /\ job.state \notin {"waiting", "active", "delayed"}
  BY DEF JobIsTerminal, TerminalStates
<1> QED
  BY <1>1 DEF JobGoesOn, PromoteDelayed, RequeueStalled, FailStalled, Stalled, Fetch,
     CompleteJob, FailJob, Owns

LEMMA ReplacesTerminalStill ==
  ASSUME CarriedInv, [Next]_vars, NEW p \in Procs
  PROVE  ReplacesTerminal(p)'
<1> SUFFICES ASSUME proc'[p].call = "reconcile", proc'[p].pc = "remove"
             PROVE  JobIsTerminal' \/ release'.status \in FinalStatuses
  BY DEF ReplacesTerminal, Is, AtStep
<1>0. /\ TypeInv /\ NoLockIsLost /\ proc \in [Procs -> ProcStates] /\ LockIsHeld
      /\ ReplacesTerminal(p) /\ KeptInv
  BY DEF CarriedInv, KeptInv, CallInv, GateInv, EvidenceInv, OwnInv, TypeInv
<1>1. release.status \in FinalStatuses => release'.status \in FinalStatuses
  BY <1>0, FinalStays
<1>2. CASE proc'[p] = proc[p]
  <2>1. InLock(p) /\ Is(p, "reconcile") /\ AtStep(p, "remove")
    BY <1>2 DEF InLock, LockedCalls, Is, AtStep
  <2>2. CASE JobIsTerminal
    <3>1. CASE UNCHANGED job
      BY <2>2, <3>1 DEF JobIsTerminal, HasJob
    <3>2. ASSUME NEW q \in Procs, Remove(q), proc'[q] # proc[q]
          PROVE  release.status \in FinalStatuses
      <4>1. ~InLock(q)
        BY <1>0, <1>2, <2>1, <3>2, InLockAlone
      <4> QED
        BY <1>0, <3>2, <4>1, RemoversAreKnown
    <3> QED
      BY <1>0, <1>1, <2>2, <3>1, <3>2, JobSurelyGoesOn, TerminalStays
  <2> QED
    BY <1>0, <1>1, <2>1, <2>2 DEF ReplacesTerminal
<1>3. CASE CallMoves(p)
  <2>1. JobIsTerminal /\ UNCHANGED job
    BY <1>0, <1>3, RemovalIsDecided DEF AtStep
  <2> QED
    BY <2>1 DEF JobIsTerminal, HasJob
<1>4. proc'[p] # IdleProc
  BY DEF IdleProc
<1> QED
  BY <1>0, <1>2, <1>3, <1>4, ProcMoves

\* The job of a release that is ANALYZING goes on, pending as it was.
LEMMA CarriedJobStays ==
  ASSUME CarriedInv, JobGoesOn, release.status = "ANALYZING"
  PROVE  JobIsPending' /\ job'.attempt = job.attempt
<1>0. /\ JobIsPending /\ job.attempt = release.attempt /\ KeptInv /\ JobIsTyped
      /\ StallsAreCrashes /\ budget["crash"] \in Nat /\ release.attempt \in Nat
  BY StoreAssumption DEF CarriedInv, AnalyzingIsCarriedOn, KeptInv, CallInv, TypeInv, BudgetIsTyped,
     FaultKinds, StoreTypeOK, Attempts
<1>1. /\ HasJob /\ job.state \in {"waiting", "active", "delayed"}
      /\ job = [attempt |-> job.attempt, state |-> job.state, made |-> job.made,
                stalls |-> job.stalls, owner |-> job.owner]
      /\ job.stalls \in Nat
  BY <1>0, JobFields DEF JobIsPending, PendingStates, TerminalStates, JobStates, MaxStalls
<1>2. ASSUME HasJob', job'.state \in {"waiting", "active", "delayed"}, job'.attempt = job.attempt
      PROVE  JobIsPending' /\ job'.attempt = job.attempt
  BY <1>2 DEF JobIsPending, PendingStates, TerminalStates, JobStates
<1>3. release.status \notin SettledStatuses \cup FinalStatuses
  BY DEF SettledStatuses, FinalStatuses
<1>4. CASE UNCHANGED job
  BY <1>1, <1>2, <1>4 DEF HasJob
<1>5. ASSUME NEW p \in Procs, Remove(p) PROVE FALSE
  <2>1. Is(p, "reconcile")
    BY <1>0, <1>1, <1>3, <1>5, RemoversAreKnown
  <2>2. JobIsTerminal
    BY <1>3, <1>5, <2>1 DEF CarriedInv, ReplacesTerminal, Remove
  <2> QED
    BY <1>1, <2>2 DEF JobIsTerminal, TerminalStates
<1>6. ~ \E counted \in {0, 1} : FailStalled(counted)
  BY <1>0, <1>1 DEF FailStalled, StallsAreCrashes, MaxStalls
<1>7. ASSUME NEW w \in Workers, At(w, "return") \/ At(w, "throw") PROVE FALSE
  BY <1>0, <1>3, <1>7 DEF CarriedInv, KeptInv, GateInv, ReturnedIsFinal,
     ThrowingIsNotAnalyzing, At
<1>8. CASE \/ PromoteDelayed \/ RequeueStalled \/ \E w \in Workers : Fetch(w)
           \/ \E w \in Workers : Owns(w) /\ job' = [job EXCEPT !.owner = NoWorker]
  <2>1. /\ job'.state \in {"waiting", "active", "delayed"} /\ job'.attempt = job.attempt
        /\ job' \in Jobs(Attempts)
    <3>1. job \in Jobs(Attempts) /\ NoWorker \in Workers \cup {NoWorker}
      BY <1>0, <1>1 DEF JobIsTyped, HasJob
    <3>2. CASE PromoteDelayed
      BY <1>1, <3>1, <3>2 DEF PromoteDelayed, Jobs, JobStates
    <3>3. CASE RequeueStalled
      <4>1. job.stalls + 1 \in 0 .. MaxStalls
        BY <1>1, <3>3 DEF RequeueStalled, MaxStalls
      <4>2. job' = [job EXCEPT !.state = "waiting", !.stalls = job.stalls + 1]
        BY <3>3 DEF RequeueStalled
      <4> QED
        BY <3>1, <4>1, <4>2 DEF Jobs, JobStates
    <3>4. ASSUME NEW w \in Workers, Fetch(w)
          PROVE  /\ job'.state \in {"waiting", "active", "delayed"} /\ job'.attempt = job.attempt
                 /\ job' \in Jobs(Attempts)
      BY <1>1, <3>1, <3>4 DEF Fetch, Jobs, JobStates
    <3>5. ASSUME job' = [job EXCEPT !.owner = NoWorker]
          PROVE  /\ job'.state \in {"waiting", "active", "delayed"} /\ job'.attempt = job.attempt
                 /\ job' \in Jobs(Attempts)
      BY <1>1, <3>1, <3>5 DEF Jobs, JobStates
    <3> QED
      BY <1>8, <3>2, <3>3, <3>4, <3>5
  <2>2. HasJob'
    BY <2>1, ProcessorAssumption DEF HasJob
  <2> QED
    BY <1>2, <2>1, <2>2
<1> QED
  BY <1>1, <1>4, <1>5, <1>6, <1>7, <1>8 DEF JobGoesOn

LEMMA AnalyzingIsCarriedOnStill ==
  ASSUME CarriedInv, KeptInv', [Next]_vars
  PROVE  AnalyzingIsCarriedOn'
<1> SUFFICES ASSUME release'.status = "ANALYZING"
             PROVE  JobIsPending' /\ job'.attempt = release'.attempt
  BY DEF AnalyzingIsCarriedOn
<1>0. /\ TypeInv /\ NoLockIsLost /\ WorkersAreTyped /\ StoreTypeOK /\ WorkersOwnTheirJob
  BY DEF CarriedInv, KeptInv, GateInv, EvidenceInv, OwnInv, TypeInv
<1>1. JobGoesOn
  BY <1>0, JobSurelyGoesOn
<1>2. CASE UNCHANGED release
  BY <1>1, <1>2, CarriedJobStays DEF CarriedInv, AnalyzingIsCarriedOn
<1>3. CASE Outside /\ ReleaseMoves
  BY <1>2, <1>3 DEF ReleaseMoves, storeVars
<1>4. ASSUME NEW w \in Workers, Process(w), ~UNCHANGED release
      PROVE  JobIsPending' /\ job'.attempt = release'.attempt
  <2>1. ToAnalyzing(w) /\ ~UNCHANGED release
    <3>1. \A status : SetStatus(status) => status = "ANALYZING"
      BY <1>0 DEF SetStatus, StoreTypeOK
    <3>2. ~(ToTesting(w) \/ ToGate(w))
      BY <1>4, <3>1, VerdictIsAVerdict DEF ToTesting, ToGate, Transition, TransitionRelease,
         GateVerdicts, storeVars
    <3> QED
      BY <1>4, <3>2 DEF Process, FetchJob, Find, PrepareAndCheck, Start, Put, CompleteError,
         Complete, Summary, Upsert, UpsertAssessment, storeVars
  <2>2. /\ At(w, "toAnalyzing") /\ UNCHANGED job /\ release'.attempt = release.attempt
        /\ release.attempt = worker[w].attempt
    BY <1>0, <2>1 DEF ToAnalyzing, Transition, TransitionRelease, CanTransition, SetStatus,
       storeVars, queueVars, StoreTypeOK
  <2>3. Owns(w) /\ worker[w].attempt = job.attempt
    BY <1>0, <2>2 DEF WorkersOwnTheirJob, At, CarriedInv, WorksOnItsJob
  <2> QED
    BY <2>2, <2>3 DEF Owns, JobIsPending, HasJob, PendingStates, TerminalStates, JobStates
<1> QED
  BY <1>0, <1>2, <1>3, <1>4, OutsideLeavesVerdicts

LEMMA CarriedInvIsPreserved ==
  ASSUME CarriedInv, [Next]_vars
  PROVE  CarriedInv'
<1>1. KeptInv'
  BY KeptInvIsPreserved DEF CarriedInv
<1>2. TypeInv /\ TypeInv' /\ NoLockIsLost
  BY <1>1 DEF CarriedInv, KeptInv, CallInv, GateInv, EvidenceInv, OwnInv
<1>3. NoCallFails'
  <2>1. budget["call"] = 0 /\ budget'["call"] <= budget["call"] /\ budget'["call"] \in Nat
    BY <1>2, BudgetSteps DEF CarriedInv, TypeInv, NoCallFails, FaultKinds, BudgetIsTyped
  <2> QED
    BY <2>1 DEF NoCallFails
<1>4. StallsAreCrashes'
  BY <1>2, StallsAreCrashesStill DEF CarriedInv
<1>5. \A w \in Workers : WorksOnItsJob(w)' /\ ThrowingIsNotAnalyzing(w)'
  BY <1>1, WorksOnItsJobStill, ThrowingIsNotAnalyzingStill
<1>6. (\A p \in Procs : ReplacesTerminal(p)') /\ AnalyzingIsCarriedOn'
  BY <1>1, ReplacesTerminalStill, AnalyzingIsCarriedOnStill
<1> QED
  BY <1>1, <1>3, <1>4, <1>5, <1>6 DEF CarriedInv

\* As long as the workers die no more often than BullMQ has stalled jobs retried
\* (once), no call fails, and no lease, job's lock or Redis is lost, the job of a
\* release that is ANALYZING is there, of its attempt and still to be worked on:
\* for any number of workers, requests and retries, and however often a request
\* dies or an enqueue fails, the release does not hang in the one status that no
\* sweep looks for.  One crash more, or one lost lease, and it may
\* (index.ts:74, release-queue.ts:116-126, recovery.ts:39).
THEOREM AnalyzingGoesOn ==
  ASSUME Budget["crash"] <= MaxStalls, Budget["call"] = 0,
         Budget["lease"] = 0, Budget["lockLoss"] = 0, Budget["redis"] = 0
  PROVE  Spec => []AnalyzingIsCarriedOn
<1>1. Init => CarriedInv
  <2> SUFFICES ASSUME Init PROVE CarriedInv
    OBVIOUS
  <2>1. \A w \in Workers : worker[w].pc = "idle"
    BY DEF Init, ProcessorInit, IdleWorker
  <2>2. release.status = NoStatus /\ ~HasJob /\ budget = Budget
    BY DEF Init, StoreInit, QueueInit, HasJob
  <2>3. \A p \in Procs : ~Is(p, "reconcile")
    BY DEF Init, IdleProc, Is
  <2> QED
    BY <2>1, <2>2, <2>3, InitIsKept DEF CarriedInv, NoCallFails, StallsAreCrashes,
       WorksOnItsJob, ThrowingIsNotAnalyzing, ReplacesTerminal, AnalyzingIsCarriedOn, NoStatus
<1>2. CarriedInv /\ [Next]_vars => CarriedInv'
  BY CarriedInvIsPreserved
<1>3. CarriedInv => AnalyzingIsCarriedOn
  BY DEF CarriedInv
<1> QED
  BY <1>1, <1>2, <1>3, PTL DEF Spec
=============================================================================
