---------------------------- MODULE ReleaseMesh ----------------------------
(***************************************************************************)
(* The running system around one release: API requests that submit and     *)
(* retry it, workers that process it, the handlers of the workers' events  *)
(* that settle it, and the two recovery sweeps.  They share the database   *)
(* (ReleaseStore, and the evidence of ReleaseProcessor), the queue job and *)
(* the release lock (ReleaseQueue), and any of them can be overtaken,      *)
(* fail or die between two awaits.                                         *)
(*                                                                         *)
(* Sources: services/control-plane-api/src/release-orchestrator.ts and, in *)
(* services/runner-worker/src, index.ts, recovery.ts and release-queue.ts. *)
(***************************************************************************)
EXTENDS ReleaseProcessor

CONSTANTS
  Requests,      \* slots for concurrent API requests
  Sweepers,      \* the workers whose recovery sweeps are modelled
  Budget,        \* bound: per kind of fault, how often it may happen
  KindsOfFault   \* bound: how many kinds of fault happen in one behaviour

FaultKinds == {"crash", "apiCrash", "lockLoss", "lease", "call", "enqueue", "redis"}

\* A request slot per concurrent API call, an event handler per worker, and
\* the two sweeps of each sweeping worker.
Procs == ({"request"} \X Requests) \cup ({"settle"} \X Workers)
           \cup ({"reconcile", "recover"} \X Sweepers)

ASSUME MeshAssumption ==
  /\ Sweepers \subseteq Workers
  /\ Budget \in [FaultKinds -> Nat]
  /\ KindsOfFault \in Nat
  /\ Free \notin Procs /\ Orphan \notin Procs

VARIABLES
  proc,          \* the calls in progress outside the processors
  budget         \* the faults still to come

vars == <<release, assessment, breaking, runs, worker, job, lock, proc, budget>>

\* Who is running in a worker's process.
ProcsOf(w) == {p \in Procs : p[1] # "request" /\ p[2] = w}

Calls == {"none", "submit", "retry", "completed", "exhausted", "reconcile", "recover"}

\* The calls whose body is an operation of withReleaseLock.
LockedCalls == {"retry", "exhausted", "reconcile"}

ProcSteps == {"idle", "acquire", "read", "getJob", "getState", "fail", "removeGet",
              "removeState", "remove", "retry", "enqueue", "release"}

\* attempt and status are what the call expects of the row, target the
\* attempt of the job it is to remove.
ProcStates == [call : Calls, pc : ProcSteps, attempt : Attempts,
               status : ProcessingStatuses, target : Attempts]

IdleProc == [call |-> "none", pc |-> "idle", attempt |-> 0, status |-> "QUEUED", target |-> 0]

Call(call, pc, attempt, status) ==
  [call |-> call, pc |-> pc, attempt |-> attempt, status |-> status, target |-> attempt]

MeshTypeOK ==
  /\ StoreTypeOK
  /\ ProcessorTypeOK
  /\ QueueTypeOK(Attempts, Procs)
  /\ proc \in [Procs -> ProcStates]
  /\ budget \in [FaultKinds -> Nat]

Init ==
  /\ StoreInit
  /\ ProcessorInit
  /\ QueueInit
  /\ proc = [p \in Procs |-> IdleProc]
  /\ budget = Budget

-----------------------------------------------------------------------------
databaseVars == <<release, assessment, breaking, runs>>

\* What the calls outside the processors leave alone.
ElsewhereUnchanged == UNCHANGED <<breaking, runs, worker, budget>>

Busy(p) == proc[p].pc # "idle"
AtStep(p, pc) == proc[p].pc = pc
Is(p, call) == proc[p].call = call

Goto(p, pc) == proc' = [proc EXCEPT ![p].pc = pc]
Begin(p, state) == proc' = [proc EXCEPT ![p] = state]
Finish(p) == proc' = [proc EXCEPT ![p] = IdleProc]

\* withReleaseLock without the finally.
EndLocked(p) == Finish(p)

\* The call returns or throws: the finally of withReleaseLock comes first.
End(p) == IF proc[p].call \in LockedCalls THEN Goto(p, "release") ELSE Finish(p)

Spend(kind) ==
  /\ budget[kind] > 0
  /\ Cardinality({other \in FaultKinds : other = kind \/ budget[other] < Budget[other]})
       <= KindsOfFault
  /\ budget' = [budget EXCEPT ![kind] = @ - 1]

-----------------------------------------------------------------------------
\* Calls begin.

\* submitRelease; with a key that is taken it only reads.
Submit(p) ==
  /\ p[1] = "request" /\ ~Busy(p)
  /\ CreateQueuedRelease
  /\ Begin(p, Call("submit", "enqueue", 0, "QUEUED"))
  /\ UNCHANGED queueVars /\ ElsewhereUnchanged

\* The UI offers a retry of a release in ERROR; by the time the call has the
\* lock it may be in another status.  Bound: MaxAttempt.
Retry(p) ==
  /\ p[1] = "request" /\ ~Busy(p)
  /\ release.status = "ERROR" /\ release.attempt < MaxAttempt
  /\ Begin(p, Call("retry", "acquire", release.attempt, "QUEUED"))
  /\ UNCHANGED <<storeVars, queueVars>> /\ ElsewhereUnchanged

\* The sweeps look for rows whose status is old enough; how old is not modelled.
Sweep(p, kind, status, pc) ==
  /\ p[1] = kind /\ ~Busy(p)
  /\ release.status = status
  /\ Begin(p, Call(kind, pc, release.attempt, status))
  /\ UNCHANGED <<storeVars, queueVars>> /\ ElsewhereUnchanged

Reconcile(p) == Sweep(p, "reconcile", "QUEUED", "acquire")
Recover(p)   == Sweep(p, "recover", "TESTING", "getJob")

\* The event handlers of worker w start with the job they were given.
\* Bound: one handler per worker at a time; the next event waits for it.
Completed(w) ==
  /\ At(w, "return")
  /\ CompleteJob(w)
  /\ ~Busy(<<"settle", w>>)
  /\ Begin(<<"settle", w>>, Call("completed", "removeGet", job.attempt, "QUEUED"))

FailedFor(w, made) ==
  IF made < JobAttempts
    THEN UNCHANGED proc
    ELSE /\ ~Busy(<<"settle", w>>)
         /\ Begin(<<"settle", w>>, Call("exhausted", "acquire", job.attempt, "QUEUED"))

Failed(w) == At(w, "throw") /\ FailJob(w) /\ FailedFor(w, job.made + 1)

\* BullMQ turns a worker away that reports on a job it no longer owns.
Disowned(w) ==
  /\ worker[w].pc \in {"return", "throw"}
  /\ ~Owns(w)
  /\ UNCHANGED <<queueVars, proc>>

Report(w) ==
  /\ Completed(w) \/ Failed(w) \/ Disowned(w)
  /\ Leave(w, "idle")
  /\ UNCHANGED <<storeVars, budget>> /\ EvidenceUnchanged

-----------------------------------------------------------------------------
\* The release lock.

Acquire(p) ==
  /\ AtStep(p, "acquire")
  /\ AcquireLock(p)
  /\ Goto(p, "read")
  /\ UNCHANGED storeVars /\ ElsewhereUnchanged

AcquireTimesOut(p) ==
  /\ AtStep(p, "acquire")
  /\ lock # Free
  /\ Finish(p)
  /\ UNCHANGED <<storeVars, queueVars>> /\ ElsewhereUnchanged

Release(p) ==
  /\ AtStep(p, "release")
  /\ ReleaseLock(p)
  /\ Finish(p)
  /\ UNCHANGED storeVars /\ ElsewhereUnchanged

-----------------------------------------------------------------------------
\* findReleaseById under the lock, and what each call makes of the row.

ReadRow(p) ==
  /\ AtStep(p, "read")
  /\ \/ /\ Is(p, "retry")
        /\ IF release.status = "ERROR"
             THEN Begin(p, Call("retry", "removeGet", release.attempt, "QUEUED"))
             ELSE End(p)
     \/ /\ Is(p, "exhausted")
        /\ proc' = IF release.status \in ProcessingStatuses /\ release.attempt = proc[p].attempt
                     THEN [proc EXCEPT ![p].pc = "fail", ![p].status = release.status]
                     ELSE [proc EXCEPT ![p].pc = "removeGet"]
     \/ /\ Is(p, "reconcile")
        /\ IF release.status = "QUEUED" /\ release.attempt = proc[p].attempt
             THEN Goto(p, "getJob") ELSE End(p)
  /\ UNCHANGED <<storeVars, queueVars>> /\ ElsewhereUnchanged

Failure(p) == [attempt |-> proc[p].attempt, outcome |-> "failure"]

\* failRelease of a recovery sweep, a failed-job handler or a request whose
\* enqueue threw.
Fail(p) ==
  /\ AtStep(p, "fail")
  /\ \/ /\ FailRelease(proc[p].status, proc[p].attempt, Failure(p))
        /\ IF Is(p, "exhausted") THEN Goto(p, "removeGet") ELSE End(p)
     \/ /\ ~CanTransition(proc[p].status, proc[p].attempt, "ERROR")
        /\ End(p)
        /\ UNCHANGED storeVars
  /\ UNCHANGED queueVars /\ ElsewhereUnchanged

-----------------------------------------------------------------------------
\* queue.getJob and job.getState of the sweeps.

GetJob(p) ==
  /\ AtStep(p, "getJob")
  /\ \/ /\ Is(p, "reconcile")
        /\ proc' = IF HasJob THEN [proc EXCEPT ![p].pc = "getState", ![p].target = job.attempt]
                             ELSE [proc EXCEPT ![p].pc = "enqueue"]
     \/ /\ Is(p, "recover")
        /\ Goto(p, IF HasJob /\ job.attempt = proc[p].attempt THEN "getState" ELSE "fail")
  /\ UNCHANGED <<storeVars, queueVars>> /\ ElsewhereUnchanged

\* A recovery sweep that takes any job of the attempt for one at work.
GetStateOfAny(p) ==
  /\ AtStep(p, "getState")
  /\ \/ /\ Is(p, "reconcile")
        /\ IF JobIsTerminal THEN Goto(p, "removeGet") ELSE End(p)
     \/ /\ Is(p, "recover")
        /\ IF HasJob THEN End(p) ELSE Goto(p, "fail")
  /\ UNCHANGED <<storeVars, queueVars>> /\ ElsewhereUnchanged

\* The job's states are asked for by its id, whatever attempt has the id now.
GetState(p) ==
  /\ AtStep(p, "getState")
  /\ \/ /\ Is(p, "reconcile")
        /\ IF JobIsTerminal THEN Goto(p, "removeGet") ELSE End(p)
     \/ /\ Is(p, "recover")
        /\ IF JobIsPending THEN End(p) ELSE Goto(p, "fail")
  /\ UNCHANGED <<storeVars, queueVars>> /\ ElsewhereUnchanged

-----------------------------------------------------------------------------
\* removeTerminalJob, and what follows it in each call.

AfterRemoval(p) ==
  \/ Is(p, "retry") /\ Goto(p, "retry")
  \/ Is(p, "reconcile") /\ Goto(p, "enqueue")
  \/ proc[p].call \in {"completed", "exhausted"} /\ End(p)

\* removeTerminalJob that ignores expectedAttempt.
RemoveGetUnfenced(p) ==
  /\ AtStep(p, "removeGet")
  /\ IF HasJob THEN Goto(p, "removeState") ELSE AfterRemoval(p)
  /\ UNCHANGED <<storeVars, queueVars>> /\ ElsewhereUnchanged

RemoveGet(p) ==
  /\ AtStep(p, "removeGet")
  /\ IF HasJob /\ job.attempt = proc[p].target THEN Goto(p, "removeState") ELSE AfterRemoval(p)
  /\ UNCHANGED <<storeVars, queueVars>> /\ ElsewhereUnchanged

RemoveState(p) ==
  /\ AtStep(p, "removeState")
  /\ IF JobIsTerminal THEN Goto(p, "remove") ELSE End(p)
  /\ UNCHANGED <<storeVars, queueVars>> /\ ElsewhereUnchanged

Remove(p) ==
  /\ AtStep(p, "remove")
  /\ \/ RemoveJob /\ AfterRemoval(p)
     \/ ~CanRemove /\ End(p) /\ UNCHANGED queueVars
  /\ UNCHANGED storeVars /\ ElsewhereUnchanged

-----------------------------------------------------------------------------
\* retryRelease of the repository, and enqueue.

RetryRow(p) ==
  /\ AtStep(p, "retry")
  /\ \/ /\ RetryRelease
        /\ Begin(p, Call("retry", "enqueue", release.attempt + 1, "QUEUED"))
     \/ /\ release.status # "ERROR" \/ release.attempt = MaxAttempt
        /\ End(p)
        /\ UNCHANGED storeVars
  /\ UNCHANGED queueVars /\ ElsewhereUnchanged

EnqueueJob(p) ==
  /\ AtStep(p, "enqueue")
  /\ Enqueue(proc[p].attempt)
  /\ End(p)
  /\ UNCHANGED storeVars /\ ElsewhereUnchanged

\* enqueue throws, whether or not Redis has added the job.  A request then
\* fails the release it has just queued.
EnqueueThrows(p) ==
  /\ AtStep(p, "enqueue")
  /\ Spend("enqueue")
  /\ Enqueue(proc[p].attempt) \/ UNCHANGED queueVars
  /\ IF proc[p].call \in {"submit", "retry"} THEN Goto(p, "fail") ELSE End(p)
  /\ UNCHANGED <<databaseVars, worker>>

-----------------------------------------------------------------------------
\* The stalled-job checker runs in every worker; the events of a job it
\* fails go to the handlers of that worker.
CheckStalled(w) ==
  /\ \/ RequeueStalled /\ UNCHANGED proc
     \/ \E counted \in {0, 1} : FailStalled(counted) /\ FailedFor(w, job.made + counted)
  /\ UNCHANGED storeVars /\ ElsewhereUnchanged

Promote      == PromoteDelayed /\ UNCHANGED <<storeVars, proc>> /\ ElsewhereUnchanged
ExpireOrphan == ExpireOrphanedLock /\ UNCHANGED <<storeVars, proc>> /\ ElsewhereUnchanged

-----------------------------------------------------------------------------
\* Faults, each at the cost of its budget.

\* What a process that dies leaves behind: the job and the lock it held.
Abandon(dead) == lock' = IF lock \in dead THEN Orphan ELSE lock

CrashWorker(w) ==
  /\ Spend("crash")
  /\ worker' = [worker EXCEPT ![w] = IdleWorker]
  /\ proc' = [p \in Procs |-> IF p \in ProcsOf(w) THEN IdleProc ELSE proc[p]]
  /\ job' = IF Owns(w) THEN [job EXCEPT !.owner = NoWorker] ELSE job
  /\ Abandon(ProcsOf(w))
  /\ UNCHANGED databaseVars

CrashRequest(p) ==
  /\ p[1] = "request" /\ Busy(p)
  /\ Spend("apiCrash")
  /\ Finish(p)
  /\ Abandon({p})
  /\ UNCHANGED <<databaseVars, worker, job>>

\* A worker is paused or cut off for longer than its job's lock lasts, but
\* goes on with the job afterwards.
LoseJobLock(w) ==
  /\ Spend("lockLoss")
  /\ LoseJob(w)
  /\ UNCHANGED <<databaseVars, worker, proc>>

LoseReleaseLock ==
  /\ Spend("lease")
  /\ ExpireHeldLock
  /\ UNCHANGED <<databaseVars, worker, proc>>

\* A database or Redis call of a request, handler or sweep throws.
CallThrows(p) ==
  /\ Busy(p)
  /\ Spend("call")
  /\ IF proc[p].pc \in {"acquire", "release"}
       THEN Finish(p) /\ Abandon({p})
       ELSE End(p) /\ UNCHANGED lock
  /\ UNCHANGED <<databaseVars, worker, job>>

WorkerThrows(w) ==
  /\ Spend("call")
  /\ StepThrows(w) \/ PutFails(w)
  /\ UNCHANGED proc

\* Redis restarts without its data.
LoseRedis ==
  /\ Spend("redis")
  /\ job' = NoJob /\ lock' = Free
  /\ UNCHANGED <<databaseVars, worker, proc>>

Fault ==
  \/ \E w \in Workers : CrashWorker(w) \/ LoseJobLock(w) \/ WorkerThrows(w)
  \/ \E p \in Procs : CrashRequest(p) \/ CallThrows(p) \/ EnqueueThrows(p)
  \/ LoseReleaseLock
  \/ LoseRedis

-----------------------------------------------------------------------------
\* A step of a call in progress.
Step(p) ==
  /\ Busy(p)
  /\ \/ Acquire(p) \/ AcquireTimesOut(p) \/ Release(p) \/ ReadRow(p) \/ Fail(p)
     \/ GetJob(p) \/ GetState(p) \/ RemoveGet(p) \/ RemoveState(p) \/ Remove(p)
     \/ RetryRow(p) \/ EnqueueJob(p)

Work(w) == Report(w) \/ (Process(w) /\ UNCHANGED <<proc, budget>>)

\* What a process outside the processors does of its own accord.
Advance(p) == Step(p) \/ Reconcile(p) \/ Recover(p)

BullMQ == Promote \/ \E w \in Workers : CheckStalled(w)

Next ==
  \/ \E w \in Workers : Work(w)
  \/ \E p \in Procs : Submit(p) \/ Retry(p) \/ Advance(p)
  \/ BullMQ
  \/ ExpireOrphan
  \/ Fault

Spec == Init /\ [][Next]_vars

\* Runners are restarted, their workers keep fetching and reporting, promises
\* that are pending settle, the sweeps run on their interval, BullMQ promotes
\* delayed jobs and looks for stalled ones, and a lease nobody renews runs
\* out.  Nobody owes the system a submission, a retry or a fault.
Fairness ==
  /\ \A w \in Workers : WF_vars(Work(w))
  /\ \A p \in Procs : WF_vars(Advance(p))
  /\ WF_vars(BullMQ)
  /\ WF_vars(ExpireOrphan)

FairSpec == Spec /\ Fairness

-----------------------------------------------------------------------------
\* SAFE and BLOCKED are what the gate says of the evidence that is stored for
\* the release's attempt, also when the attempt was resumed after a crash,
\* repeated by the queue or replaced by a retry (release-processor.ts:172-232).
\* It takes the job's lock to keep a second worker away from the evidence.
GateBackedByEvidence ==
  release.status \in FinalStatuses =>
    GateOf(AttemptSummary(release.attempt)) = release.status

\* The assessment shown with a verdict explains that verdict of that attempt:
\* it was durable before the verdict was, and no late writer replaced it
\* (release-processor.ts:216-232, release-repository.ts:234).
AssessmentExplainsVerdict ==
  release.status \in FinalStatuses =>
    assessment = [attempt |-> release.attempt, outcome |-> release.status]

\* No candidate whose contract breaks a consumer is ever called SAFE.
SafeIsCompatible == release.status = "SAFE" => ~breaking

\* A terminal queue job is removed only after the release's database state
\* and evidence are durable (docs/releasemesh-execution-notes.md:8): the
\* release is settled, or back in QUEUED to be worked on by a new job.
JobRemovedWhenDurable ==
  [][HasJob /\ job' = NoJob =>
       release.status \in SettledStatuses \cup {"QUEUED"}]_vars

\* Who removes the job in a step that makes it disappear.
Removes(p) == AtStep(p, "remove") /\ proc'[p] # proc[p] /\ HasJob /\ job' = NoJob

\* removeTerminalJob "cannot remove" a job that is not terminal
\* (release-queue.ts:121-124).
OnlyTerminalJobsRemoved == [][\A p \in Procs : Removes(p) => JobIsTerminal]_vars

\* Although clean-up looks at the job in three steps, and every attempt and
\* every replacement reuses its id, no clean-up takes away the job an
\* unsettled release is waiting for; the reconciler alone does, to put a new
\* one in its place (release-queue.ts:116-126 and 145-158, index.ts:70-80).
NeededJobIsKept ==
  [][\A p \in Procs : Removes(p) =>
       \/ release.status \in SettledStatuses
       \/ job.attempt < release.attempt
       \/ Is(p, "reconcile")]_vars

Processing(w) == worker[w].pc \notin {"idle", "find", "return", "throw"}

\* Jobs are retried, stalled, replaced and reconciled, but as long as no
\* worker that is alive loses its job's lock, the checks of a release never
\* run twice at the same time: two processors of one attempt would delete
\* each other's evidence (release-queue.ts:100-112, test-run-repository.ts:6-18).
OneProcessorAtATime ==
  \A w, v \in Workers : Processing(w) /\ Processing(v) => w = v

\* Neither a recovery sweep nor a retry takes on a release that is ANALYZING;
\* only its job does.  As long as the workers die no more often than BullMQ has
\* stalled jobs retried and no call fails, the job is there, of that attempt and
\* still to be worked on: it is not failed, not replaced and not removed before
\* the verdict, although a failed handler says nothing of a job that has
\* attempts left (index.ts:74, release-processor.ts:173, release-queue.ts:116-126).
AnalyzingIsCarriedOn ==
  release.status = "ANALYZING" => JobIsPending /\ job.attempt = release.attempt

-----------------------------------------------------------------------------
\* A release does not stay QUEUED, whatever became of its job - never added,
\* of another attempt, failed without a trace in the row - and a crashed
\* worker does not leave it in TESTING (release-queue.ts:131-168,
\* recovery.ts:9-64, docs/releasemesh-architecture.md:162).
QueuedAndTestingAreLeft ==
  release.status \in {"QUEUED", "TESTING"} ~> release.status \notin {"QUEUED", "TESTING"}

\* Nor does it stay ANALYZING: a worker crash there ends in a retry or in a
\* visible ERROR, too (docs/releasemesh-architecture.md:255-259).
AnalyzingIsLeft == release.status = "ANALYZING" ~> release.status # "ANALYZING"

\* A job left under the id of an ERROR release does not block its retry for
\* ever: it becomes terminal, and then removable (release-queue.ts:116-126,
\* release-orchestrator.ts:150).
RetryIsUnblocked ==
  release.status = "ERROR" /\ JobIsPending ~> release.status # "ERROR" \/ ~JobIsPending

\* However its holders end, the release lock is always free again, so no
\* retry and no clean-up waits for ever (release-queue.ts:65-94).
LockIsFreedAgain == []<>(lock = Free)

\* While nothing fails, every submitted release is settled: the steps of the
\* system do not get into each other's way for good.
SettledUnlessFaults ==
  release.status # NoStatus ~> release.status \in SettledStatuses \/ budget # Budget
=============================================================================
