------------------------------ MODULE DemoReset ------------------------------
(***************************************************************************)
(* The demo reset (demo-reset-service.ts, reset-demo.ts): it pauses the    *)
(* release queue, refuses if a job is active, empties the queue, replaces  *)
(* the whole database by the seed, and resumes the queue.  Each step is an *)
(* await on Redis or PostgreSQL, and nothing else stops meanwhile:         *)
(* submissions commit and enqueue, delayed jobs are promoted, event        *)
(* handlers and both recovery sweeps run.                                  *)
(*                                                                         *)
(* Several releases share the queue here; each is reduced to its first     *)
(* attempt (ReleaseMesh has one release in full).                          *)
(***************************************************************************)
EXTENDS Naturals

CONSTANTS
  Releases,     \* the ids the database may give out, each once
  Resets,       \* requests to POST /demo/reset
  Overlap,      \* whether a reset may begin while another is in progress
  JobAttempts,  \* the job option `attempts`; 3 in the code
  Faults        \* the kinds of fault that may happen, each once

ASSUME ResetAssumption ==
  /\ Overlap \in BOOLEAN
  /\ JobAttempts \in Nat \ {0}
  /\ Faults \subseteq {"call", "edge", "death"}

VARIABLES
  paused,       \* BullMQ's persistent flag: no job is fetched
  job,          \* the job under each release's id
  row,          \* the release row, "erased" after a reset
  submit,       \* how far the submission of each release has come
  handler,      \* the worker's event handler for each job
  sweep,        \* the reconciler, between its look at the job and enqueue
  stage,        \* the await each reset is at
  faults        \* the kinds of fault so far

vars == <<paused, job, row, submit, handler, sweep, stage, faults>>

NoJob   == [state |-> "none", made |-> 0]
Waiting == [state |-> "waiting", made |-> 0]

\* "returning": process() has returned and BullMQ still lists the job active.
ActiveStates   == {"active", "returning"}
TerminalStates == {"completed", "failed"}
JobStates      == ActiveStates \cup TerminalStates \cup {"none", "waiting", "delayed"}

Unsettled == {"QUEUED", "TESTING", "ANALYZING"}
RowStates == Unsettled \cup {"unborn", "settled", "failed", "erased"}

\* The steps of reset() inside its try block.
Trying    == {"count", "drain", "completed", "failed", "database"}
Emptying  == Trying \ {"count"}
Stages    == Trying \cup {"new", "resume", "over"}

TypeOK ==
  /\ paused \in BOOLEAN
  /\ job \in [Releases -> [state : JobStates, made : Nat]]
  /\ row \in [Releases -> RowStates]
  /\ submit \in [Releases -> {"none", "looked", "stale", "created", "refused"}]
  /\ handler \in [Releases -> {"none", "exhausted", "locked", "removing"}]
  /\ sweep \in [Releases -> {"none", "adding"}]
  /\ stage \in [Resets -> Stages]
  /\ faults \subseteq Faults

IsActive(r) == job[r].state \in ActiveStates
IsPending(r) == IsActive(r) \/ job[r].state \in {"waiting", "delayed"}

Init ==
  /\ paused = FALSE
  /\ job = [r \in Releases |-> NoJob]
  /\ row = [r \in Releases |-> "unborn"]
  /\ submit = [r \in Releases |-> "none"]
  /\ handler = [r \in Releases |-> "none"]
  /\ sweep = [r \in Releases |-> "none"]
  /\ stage = [x \in Resets |-> "new"]
  /\ faults = {}

Fault(kind) == kind \in Faults \ faults /\ faults' = faults \cup {kind}

Becomes(r, state) == job' = [job EXCEPT ![r].state = state]

\* enqueue under the release id: a no-op if the id is taken.
Enqueue(r) ==
  job' = IF job[r] = NoJob THEN [job EXCEPT ![r] = Waiting] ELSE job

\* failRelease, whose WHERE needs the row to be there and unsettled.
FailRelease(r) ==
  row' = IF row[r] \in Unsettled THEN [row EXCEPT ![r] = "failed"] ELSE row

-----------------------------------------------------------------------------
\* reset(): one action per await.
InProgress(x) == stage[x] \notin {"new", "over"}

Go(x, next) == stage' = [stage EXCEPT ![x] = next]

\* A pause that is not awaited, and so comes too late for the count.
PauseUnawaited(x) ==
  /\ stage[x] = "new"
  /\ Overlap \/ \A other \in Resets : ~InProgress(other)
  /\ Go(x, "count")
  /\ UNCHANGED <<paused, job, row, submit, handler, sweep, faults>>

Pause(x) ==
  /\ stage[x] = "new"
  /\ Overlap \/ \A other \in Resets : ~InProgress(other)
  /\ paused' = TRUE /\ Go(x, "count")
  /\ UNCHANGED <<job, row, submit, handler, sweep, faults>>

\* An active job is DemoResetBusyError, through the finally.
Count(x) ==
  /\ stage[x] = "count"
  /\ Go(x, IF \E r \in Releases : IsActive(r) THEN "resume" ELSE "drain")
  /\ UNCHANGED <<paused, job, row, submit, handler, sweep, faults>>

Without(states) ==
  job' = [r \in Releases |-> IF job[r].state \in states THEN NoJob ELSE job[r]]

\* drain(true) takes the delayed jobs, too, and never an active one.
Drain(x) ==
  /\ stage[x] = "drain" /\ Go(x, "completed")
  /\ Without({"waiting", "delayed"})
  /\ UNCHANGED <<paused, row, submit, handler, sweep, faults>>

CleanCompleted(x) ==
  /\ stage[x] = "completed" /\ Go(x, "failed")
  /\ Without({"completed"})
  /\ UNCHANGED <<paused, row, submit, handler, sweep, faults>>

CleanFailed(x) ==
  /\ stage[x] = "failed" /\ Go(x, "database")
  /\ Without({"failed"})
  /\ UNCHANGED <<paused, row, submit, handler, sweep, faults>>

\* One serializable transaction.  The seeded catalogue has new ids, so a
\* submission that looked its candidate up before holds a stale one.
ResetDatabase(x) ==
  /\ stage[x] = "database" /\ Go(x, "resume")
  /\ row' = [r \in Releases |-> IF row[r] = "unborn" THEN "unborn" ELSE "erased"]
  /\ submit' = [r \in Releases |->
                  IF submit[r] = "looked" THEN "stale" ELSE submit[r]]
  /\ UNCHANGED <<paused, job, handler, sweep, faults>>

\* reset() without its finally.
StepThrowsAway(x) ==
  /\ stage[x] \in Trying /\ Go(x, "over")
  /\ Fault("call")
  /\ UNCHANGED <<paused, job, row, submit, handler, sweep>>

\* A call of the try block rejects.  One that took effect before its answer
\* was lost is the step followed by this one.
StepThrows(x) ==
  /\ stage[x] \in Trying /\ Go(x, "resume")
  /\ Fault("call")
  /\ UNCHANGED <<paused, job, row, submit, handler, sweep>>

Resume(x) ==
  /\ stage[x] = "resume" /\ Go(x, "over")
  /\ paused' = FALSE
  /\ UNCHANGED <<job, row, submit, handler, sweep, faults>>

\* The calls outside the try block: the answer of a pause is lost, or the
\* resume of the finally rejects.
PauseThrows(x) ==
  /\ stage[x] = "new"
  /\ Overlap \/ \A other \in Resets : ~InProgress(other)
  /\ paused' = TRUE /\ Go(x, "over")
  /\ Fault("edge")
  /\ UNCHANGED <<job, row, submit, handler, sweep>>

ResumeThrows(x) ==
  /\ stage[x] = "resume" /\ Go(x, "over")
  /\ Fault("edge")
  /\ UNCHANGED <<paused, job, row, submit, handler, sweep>>

\* The API process dies with its resets and submissions.
ApiDies ==
  /\ Fault("death")
  /\ stage' = [x \in Resets |-> IF InProgress(x) THEN "over" ELSE stage[x]]
  /\ submit' = [r \in Releases |-> "none"]
  /\ UNCHANGED <<paused, job, row, handler, sweep>>

Reset(x) ==
  \/ Pause(x) \/ Count(x) \/ Drain(x) \/ CleanCompleted(x) \/ CleanFailed(x)
  \/ ResetDatabase(x) \/ StepThrows(x) \/ Resume(x)
  \/ PauseThrows(x) \/ ResumeThrows(x)

-----------------------------------------------------------------------------
\* submitRelease
SubmitStep(r, from, to) ==
  /\ submit[r] = from /\ submit' = [submit EXCEPT ![r] = to]
  /\ UNCHANGED <<paused, handler, sweep, stage>>

LookUp(r) ==
  /\ row[r] = "unborn" /\ SubmitStep(r, "none", "looked")
  /\ UNCHANGED <<job, row, faults>>

\* The insert of a row that refers to an erased version breaks a foreign key.
CreateRejected(r) ==
  /\ SubmitStep(r, "stale", "none")
  /\ UNCHANGED <<job, row, faults>>

Create(r) ==
  /\ row[r] = "unborn" /\ SubmitStep(r, "looked", "created")
  /\ row' = [row EXCEPT ![r] = "QUEUED"]
  /\ UNCHANGED <<job, faults>>

EnqueueCreated(r) ==
  /\ SubmitStep(r, "created", "none")
  /\ Enqueue(r)
  /\ UNCHANGED <<row, faults>>

\* enqueue throws, whether or not Redis has added the job.
EnqueueThrows(r) ==
  /\ SubmitStep(r, "created", "refused")
  /\ Enqueue(r) \/ UNCHANGED job
  /\ Fault("call")
  /\ UNCHANGED row

\* failRelease of the catch expects QUEUED, which a worker or a reset may have
\* ended meanwhile.
FailRefused(r) ==
  /\ SubmitStep(r, "refused", "none")
  /\ row' = IF row[r] = "QUEUED" THEN [row EXCEPT ![r] = "failed"] ELSE row
  /\ UNCHANGED <<job, faults>>

Submit(r) ==
  \/ LookUp(r) \/ CreateRejected(r) \/ Create(r)
  \/ EnqueueCreated(r) \/ EnqueueThrows(r) \/ FailRefused(r)

-----------------------------------------------------------------------------
\* BullMQ and process()
WorkerStep == UNCHANGED <<paused, submit, sweep, stage, faults>>

Fetch(r) ==
  /\ ~paused
  /\ job[r].state = "waiting" /\ Becomes(r, "active")
  /\ WorkerStep /\ UNCHANGED <<row, handler>>

Promote(r) ==
  /\ job[r].state = "delayed" /\ Becomes(r, "waiting")
  /\ WorkerStep /\ UNCHANGED <<row, handler>>

\* A transition of process(), which finds its row in the status it left it.
Advance(r) ==
  /\ job[r].state = "active" /\ row[r] \in {"QUEUED", "TESTING"}
  /\ row' = [row EXCEPT ![r] = IF row[r] = "QUEUED" THEN "TESTING" ELSE "ANALYZING"]
  /\ WorkerStep /\ UNCHANGED <<job, handler>>

Settle(r) ==
  /\ job[r].state = "active" /\ row[r] = "ANALYZING"
  /\ row' = [row EXCEPT ![r] = "settled"] /\ Becomes(r, "returning")
  /\ WorkerStep /\ UNCHANGED handler

Complete(r) ==
  /\ job[r].state = "returning" /\ Becomes(r, "completed")
  /\ handler' = [handler EXCEPT ![r] = "removing"]
  /\ WorkerStep /\ UNCHANGED row

\* process() throws: the row is gone or settled, or an await rejects.
FailAttempt(r) ==
  /\ job[r].state = "active"
  /\ LET made == job[r].made + 1
         last == made = JobAttempts
     IN  /\ job' = [job EXCEPT ![r] =
                      [state |-> IF last THEN "failed" ELSE "delayed", made |-> made]]
         /\ handler' = IF last THEN [handler EXCEPT ![r] = "exhausted"] ELSE handler
  /\ WorkerStep /\ UNCHANGED row

\* The failed handler takes the release lock, which the reconciler may hold.
PersistFailure(r) ==
  /\ handler[r] = "exhausted" /\ sweep[r] = "none"
  /\ handler' = [handler EXCEPT ![r] = "locked"]
  /\ FailRelease(r)
  /\ WorkerStep /\ UNCHANGED job

\* removeTerminalJob of the failed handler, and of the completed one, which
\* takes no lock.
RemoveJob(r) ==
  /\ handler[r] \in {"locked", "removing"}
  /\ handler' = [handler EXCEPT ![r] = "none"]
  /\ job' = IF job[r].state \in TerminalStates THEN [job EXCEPT ![r] = NoJob] ELSE job
  /\ WorkerStep /\ UNCHANGED row

Process(r) ==
  Fetch(r) \/ Advance(r) \/ Settle(r) \/ Complete(r) \/ FailAttempt(r)

Handle(r) == PersistFailure(r) \/ RemoveJob(r)

-----------------------------------------------------------------------------
\* A reconciler that only replaces jobs that have ended.
ReconcileTerminal(r) ==
  /\ sweep[r] = "none" /\ handler[r] # "locked"
  /\ row[r] = "QUEUED" /\ job[r].state \in TerminalStates
  /\ sweep' = [sweep EXCEPT ![r] = "adding"]
  /\ job' = [job EXCEPT ![r] = NoJob]
  /\ UNCHANGED <<paused, row, submit, handler, stage, faults>>

\* reconcileQueuedReleases, under the release lock: the row is read, a terminal
\* job removed, and a new one added an await later.
Reconcile(r) ==
  /\ sweep[r] = "none" /\ handler[r] # "locked"
  /\ row[r] = "QUEUED" /\ ~IsPending(r)
  /\ sweep' = [sweep EXCEPT ![r] = "adding"]
  /\ job' = [job EXCEPT ![r] = NoJob]
  /\ UNCHANGED <<paused, row, submit, handler, stage, faults>>

ReconcileAdds(r) ==
  /\ sweep[r] = "adding" /\ sweep' = [sweep EXCEPT ![r] = "none"]
  /\ Enqueue(r)
  /\ UNCHANGED <<paused, row, submit, handler, stage, faults>>

\* recoverStrandedTestingReleases
Recover(r) ==
  /\ row[r] = "TESTING" /\ ~IsPending(r)
  /\ FailRelease(r)
  /\ UNCHANGED <<paused, job, submit, handler, sweep, stage, faults>>

Sweep(r) == Reconcile(r) \/ ReconcileAdds(r) \/ Recover(r)

Next ==
  \/ \E x \in Resets : Reset(x)
  \/ ApiDies
  \/ \E r \in Releases : 
       Submit(r) \/ Process(r) \/ Handle(r) \/ Promote(r) \/ Sweep(r)

Spec == Init /\ [][Next]_vars

\* Every call settles, workers and sweeps go on; a handler polls for a lock that
\* the reconciler holds for an instant every now and then, and gets it.  Nobody
\* owes a submission, a reset or a fault.
Fairness ==
  /\ \A x \in Resets : WF_vars(InProgress(x) /\ Reset(x))
  /\ \A r \in Releases :
       /\ WF_vars(CreateRejected(r) \/ EnqueueCreated(r) \/ FailRefused(r))
       /\ WF_vars(Process(r)) /\ SF_vars(Handle(r))
       /\ WF_vars(Promote(r)) /\ WF_vars(Sweep(r))

FairSpec == Spec /\ Fairness

-----------------------------------------------------------------------------
\* No job is active from the moment a reset has counted none until it has
\* replaced the database: the pause comes first and outlasts the erasure, so
\* no worker loses the rows of the release it works on
\* (demo-reset-service.ts:24-36).
IdleWhenReset ==
  \A x \in Resets : stage[x] \in Emptying => \A r \in Releases : ~IsActive(r)

\* Whatever step inside its try block fails, a reset gives the queue back
\* (demo-reset-service.ts:26-36).  A pause or a resume that throws, or the
\* death of the process, leaves it paused until another reset has ended.
QueueComesBack == paused ~> ~paused \/ faults \cap {"edge", "death"} # {}

\* As long as the queue is given back, a reset, complete or cut short, hangs
\* nothing up: a release that is QUEUED or TESTING leaves that status or is
\* erased, and the job of an erased release, which a submission or the
\* reconciler may add after the queue was emptied, goes
\* (release-queue.ts:131-168, recovery.ts:9-64, index.ts:70-80).
Lingers(r) ==
  \/ row[r] \in {"QUEUED", "TESTING"}
  \/ row[r] = "erased" /\ job[r] # NoJob

NothingLingers ==
  []<>(~paused) => \A r \in Releases : Lingers(r) ~> ~Lingers(r)
=============================================================================
