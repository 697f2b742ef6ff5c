---------------------------- MODULE ReleaseQueue ----------------------------
(***************************************************************************)
(* The queue of services/runner-worker/src/queues/release-queue.ts for one *)
(* release: the one BullMQ job whose jobId is the release id, and the      *)
(* Redis key behind withReleaseLock.  Each operation is one Redis command  *)
(* or one of BullMQ's scripts, so it is atomic; a caller that needs two of *)
(* them can be overtaken in between, which is what ReleaseMesh is about.   *)
(*                                                                         *)
(* What BullMQ itself does (fetching, backoff, the stalled-job checker) is *)
(* external code, modelled as the worker service relies on it.             *)
(***************************************************************************)
EXTENDS Naturals, FiniteSets

CONSTANTS
  Workers,       \* runner processes, each with one BullMQ worker
  NoWorker,      \* nobody holds the job's BullMQ lock
  NoJob,
  JobAttempts,   \* the job option `attempts` of enqueue; 3 in the code
  Free, Orphan   \* the release lock is free; its holder has died

ASSUME QueueAssumption ==
  /\ IsFiniteSet(Workers) /\ NoWorker \notin Workers
  /\ JobAttempts \in Nat \ {0}

VARIABLES
  job,           \* the job under the release's id, or NoJob
  lock           \* who holds the release lock

queueVars == <<job, lock>>

JobStates      == {"waiting", "active", "delayed", "completed", "failed"}
TerminalStates == {"completed", "failed"}
PendingStates  == JobStates \ TerminalStates

\* BullMQ's default maxStalledCount.
MaxStalls == 1

Jobs(attempts) ==
  [attempt : attempts, state : JobStates, made : 0 .. JobAttempts,
   stalls : 0 .. MaxStalls, owner : Workers \cup {NoWorker}]

QueueTypeOK(attempts, holders) ==
  /\ job \in Jobs(attempts) \cup {NoJob}
  /\ lock \in holders \cup {Free, Orphan}

QueueInit == job = NoJob /\ lock = Free

HasJob == job # NoJob
JobIsTerminal == HasJob /\ job.state \in TerminalStates
JobIsPending  == HasJob /\ job.state \in PendingStates

NewJob(attempt) ==
  [attempt |-> attempt, state |-> "waiting", made |-> 0, stalls |-> 0,
   owner |-> NoWorker]

-----------------------------------------------------------------------------
\* enqueue without the jobId, or one that replaces the job.
EnqueueAnew(attempt) == job' = NewJob(attempt) /\ UNCHANGED lock

\* enqueue: adding a job under an id that is taken is a silent no-op, even
\* when the job that has it is completed or failed.
Enqueue(attempt) ==
  /\ job' = IF HasJob THEN job ELSE NewJob(attempt)
  /\ UNCHANGED lock

\* job.remove() goes by the id, so it takes whatever job has the id by now;
\* it refuses only a job some worker holds locked.
CanRemove == HasJob => job.owner = NoWorker

RemoveJob == CanRemove /\ job' = NoJob /\ UNCHANGED lock

-----------------------------------------------------------------------------
\* withReleaseLock: SET NX PX, and the compare-and-delete of its finally.
AcquireLock(p) == lock = Free /\ lock' = p /\ UNCHANGED job

ReleaseLock(p) ==
  /\ lock' = IF lock = p THEN Free ELSE lock
  /\ UNCHANGED job

\* The key's lease runs out because nobody is left to renew it.
ExpireOrphanedLock == lock = Orphan /\ lock' = Free /\ UNCHANGED job

\* The lease runs out under a holder that is alive but could not renew it in
\* time; the holder does not learn of it.
ExpireHeldLock == lock \notin {Free, Orphan} /\ lock' = Free /\ UNCHANGED job

-----------------------------------------------------------------------------
Fetch(w) ==
  /\ HasJob /\ job.state = "waiting"
  /\ job' = [job EXCEPT !.state = "active", !.owner = w]
  /\ UNCHANGED lock

\* The backoff of backoffStrategy has passed.
PromoteDelayed ==
  /\ HasJob /\ job.state = "delayed"
  /\ job' = [job EXCEPT !.state = "waiting"]
  /\ UNCHANGED lock

Owns(w) == HasJob /\ job.state = "active" /\ job.owner = w

CompleteJob(w) ==
  /\ Owns(w)
  /\ job' = [job EXCEPT !.state = "completed", !.made = @ + 1, !.owner = NoWorker]
  /\ UNCHANGED lock

\* Attempts without a limit.
FailJobForEver(w) ==
  /\ Owns(w)
  /\ job' = [job EXCEPT !.owner = NoWorker, !.state = "delayed"]
  /\ UNCHANGED lock

\* An attempt that throws is delayed for another one while there are any.
FailJob(w) ==
  /\ Owns(w)
  /\ job' = [job EXCEPT !.made = @ + 1, !.owner = NoWorker,
               !.state = IF job.made + 1 < JobAttempts THEN "delayed" ELSE "failed"]
  /\ UNCHANGED lock

\* A worker that is alive fails to renew the lock of its job.
LoseJob(w) == Owns(w) /\ job' = [job EXCEPT !.owner = NoWorker] /\ UNCHANGED lock

Stalled == HasJob /\ job.state = "active" /\ job.owner = NoWorker

\* The stalled-job checker puts the job back, the first MaxStalls times.
RequeueStalled ==
  /\ Stalled /\ job.stalls < MaxStalls
  /\ job' = [job EXCEPT !.state = "waiting", !.stalls = @ + 1]
  /\ UNCHANGED lock

\* After that it fails the job.  Releases of BullMQ differ in whether this
\* counts as an attempt.
FailStalled(counted) ==
  /\ Stalled /\ job.stalls = MaxStalls
  /\ job' = [job EXCEPT !.state = "failed", !.made = @ + counted]
  /\ UNCHANGED lock
=============================================================================
