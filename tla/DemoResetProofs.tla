--------------------------- MODULE DemoResetProofs ---------------------------
(***************************************************************************)
(* For any number of releases, of resets one after the other and of faults *)
(* of every kind: no job is active while a reset empties the queue and     *)
(* replaces the database.                                                  *)
(***************************************************************************)
EXTENDS DemoReset, TLAPS

\* Two resets are never in progress together, and the queue stays paused as
\* long as one is inside its try block.
OneReset ==
  \A x, y \in Resets : InProgress(x) /\ InProgress(y) => x = y

PausedWhileTrying ==
  \A x \in Resets : stage[x] \in Trying => paused

ResetInv == TypeOK /\ OneReset /\ PausedWhileTrying /\ IdleWhenReset

USE ResetAssumption DEF InProgress

-----------------------------------------------------------------------------
\* The jobs that a step puts in are jobs, and none is active.
LEMMA NewJobs ==
  /\ NoJob \in [state : JobStates, made : Nat] /\ NoJob.state = "none"
  /\ Waiting \in [state : JobStates, made : Nat] /\ Waiting.state = "waiting"
BY DEF NoJob, Waiting, JobStates

LEMMA InitReset == Init => ResetInv
<1> SUFFICES ASSUME Init PROVE ResetInv
  OBVIOUS
<1>1. TypeOK
  BY NewJobs DEF Init, TypeOK, RowStates, Stages
<1>2. OneReset /\ PausedWhileTrying /\ IdleWhenReset
  BY DEF Init, OneReset, PausedWhileTrying, IdleWhenReset, Trying, Emptying
<1> QED
  BY <1>1, <1>2 DEF ResetInv

\* Types, one lemma for the reset's steps and one for everybody else's.
LEMMA ResetTypes ==
  ASSUME TypeOK, NEW x \in Resets, Reset(x)
  PROVE  TypeOK'
<1>1. CASE Pause(x) \/ PauseThrows(x) \/ Resume(x) \/ ResumeThrows(x)
  BY <1>1 DEF TypeOK, Pause, PauseThrows, Resume, ResumeThrows, Go, Fault,
     Stages, Trying
<1>2. CASE Count(x)
  BY <1>2 DEF TypeOK, Count, Go, Stages, Trying
<1>3. CASE Drain(x) \/ CleanCompleted(x) \/ CleanFailed(x)
  <2>1. job' \in [Releases -> [state : JobStates, made : Nat]]
    BY <1>3, NewJobs DEF TypeOK, Drain, CleanCompleted, CleanFailed, Without
  <2> QED
    BY <1>3, <2>1 DEF TypeOK, Drain, CleanCompleted, CleanFailed, Go, Stages,
       Trying
<1>4. CASE ResetDatabase(x)
  BY <1>4 DEF TypeOK, ResetDatabase, Go, Stages, Trying, RowStates
<1>5. CASE StepThrows(x)
  BY <1>5 DEF TypeOK, StepThrows, Go, Fault, Stages, Trying
<1> QED
  BY <1>1, <1>2, <1>3, <1>4, <1>5 DEF Reset

LEMMA SubmitTypes ==
  ASSUME TypeOK, NEW r \in Releases, Submit(r)
  PROVE  TypeOK'
<1>1. CASE LookUp(r) \/ CreateRejected(r)
  BY <1>1 DEF TypeOK, LookUp, CreateRejected, SubmitStep
<1>2. CASE Create(r)
  BY <1>2 DEF TypeOK, Create, SubmitStep, RowStates, Unsettled
<1>3. CASE EnqueueCreated(r)
  BY <1>3, NewJobs DEF TypeOK, EnqueueCreated, SubmitStep, Enqueue
<1>4. CASE EnqueueThrows(r)
  BY <1>4, NewJobs DEF TypeOK, EnqueueThrows, SubmitStep, Enqueue, Fault
<1>5. CASE FailRefused(r)
  BY <1>5 DEF TypeOK, FailRefused, SubmitStep, RowStates
<1> QED
  BY <1>1, <1>2, <1>3, <1>4, <1>5 DEF Submit

\* What a change of state does to the jobs.
LEMMA BecomesJob ==
  ASSUME TypeOK, NEW r \in Releases, NEW state \in JobStates, Becomes(r, state)
  PROVE  /\ job' \in [Releases -> [state : JobStates, made : Nat]]
         /\ \A s \in Releases :
              job'[s].state = IF s = r THEN state ELSE job[s].state
<1>1. [job[r] EXCEPT !.state = state] \in [state : JobStates, made : Nat]
  BY DEF TypeOK
<1>2. [job[r] EXCEPT !.state = state].state = state
  BY DEF TypeOK
<1>3. job' = [job EXCEPT ![r] = [job[r] EXCEPT !.state = state]]
  BY DEF Becomes, TypeOK
<1> QED
  BY <1>1, <1>2, <1>3 DEF TypeOK

LEMMA WorkerTypes ==
  ASSUME TypeOK, NEW r \in Releases,
         Process(r) \/ Handle(r) \/ Promote(r)
  PROVE  TypeOK'
<1>1. CASE Fetch(r) \/ Promote(r)
  BY <1>1, BecomesJob DEF TypeOK, Fetch, Promote, WorkerStep, JobStates, ActiveStates
<1>2. CASE Advance(r)
  BY <1>2 DEF TypeOK, Advance, WorkerStep, RowStates, Unsettled
<1>3. CASE Settle(r)
  BY <1>3, BecomesJob DEF TypeOK, Settle, WorkerStep, RowStates, JobStates, ActiveStates
<1>4. CASE Complete(r)
  BY <1>4, BecomesJob DEF TypeOK, Complete, WorkerStep, JobStates, TerminalStates
<1>5. CASE FailAttempt(r)
  BY <1>5 DEF TypeOK, FailAttempt, WorkerStep, JobStates, TerminalStates
<1>6. CASE PersistFailure(r)
  BY <1>6 DEF TypeOK, PersistFailure, FailRelease, WorkerStep, RowStates
<1>7. CASE RemoveJob(r)
  BY <1>7, NewJobs DEF TypeOK, RemoveJob, WorkerStep
<1> QED
  BY <1>1, <1>2, <1>3, <1>4, <1>5, <1>6, <1>7 DEF Process, Handle

LEMMA SweepTypes ==
  ASSUME TypeOK, NEW r \in Releases, Sweep(r)
  PROVE  TypeOK'
<1>1. CASE Reconcile(r)
  BY <1>1, NewJobs DEF TypeOK, Reconcile
<1>2. CASE ReconcileAdds(r)
  BY <1>2, NewJobs DEF TypeOK, ReconcileAdds, Enqueue
<1>3. CASE Recover(r)
  BY <1>3 DEF TypeOK, Recover, FailRelease, RowStates
<1> QED
  BY <1>1, <1>2, <1>3 DEF Sweep

-----------------------------------------------------------------------------
\* No step makes a job active while the queue is paused.
LEMMA OnlyFetchActivates ==
  ASSUME TypeOK, [Next]_vars, paused, NEW r \in Releases, IsActive(r)'
  PROVE  IsActive(r)
<1>1. CASE \E x \in Resets : Reset(x)
  BY <1>1, NewJobs DEF Reset, Pause, Count, Drain, CleanCompleted, CleanFailed,
     Without, ResetDatabase, StepThrows, Resume, PauseThrows, ResumeThrows,
     IsActive, ActiveStates
<1>2. CASE ApiDies \/ UNCHANGED vars
  BY <1>2 DEF ApiDies, vars, IsActive
<1>3. CASE \E s \in Releases : Submit(s)
  <2>1. job'[r] \in {job[r], Waiting}
    BY <1>3 DEF Submit, LookUp, CreateRejected, Create, EnqueueCreated,
       EnqueueThrows, FailRefused, SubmitStep, Enqueue, TypeOK
  <2> QED
    BY <2>1, NewJobs DEF IsActive, ActiveStates
<1>4. CASE \E s \in Releases : Process(s)
  <2>1. ASSUME NEW s \in Releases, Settle(s) \/ Complete(s) PROVE IsActive(r)
    BY <2>1, BecomesJob DEF Settle, Complete, IsActive, ActiveStates,
       TerminalStates, JobStates
  <2>2. ASSUME NEW s \in Releases, FailAttempt(s) PROVE IsActive(r)
    <3>1. PICK new :
            /\ job' = [job EXCEPT ![s] = new]
            /\ new.state \in {"failed", "delayed"}
      <4> DEFINE new == [state |-> IF job[s].made + 1 = JobAttempts
                                   THEN "failed" ELSE "delayed",
                         made |-> job[s].made + 1]
      <4>1. job' = [job EXCEPT ![s] = new] /\ new.state \in {"failed", "delayed"}
        BY <2>2 DEF FailAttempt
      <4> QED
        BY <4>1
    <3>2. r # s
      BY <3>1 DEF TypeOK, IsActive, ActiveStates
    <3> QED
      BY <3>1, <3>2 DEF TypeOK, IsActive
  <2> QED
    BY <1>4, <2>1, <2>2 DEF Process, Fetch, Advance, WorkerStep, IsActive
<1>5. CASE \E s \in Releases : Handle(s) \/ Promote(s)
  <2>1. ASSUME NEW s \in Releases, Promote(s) PROVE IsActive(r)
    BY <2>1, BecomesJob DEF Promote, IsActive, ActiveStates, JobStates
  <2>2. ASSUME NEW s \in Releases, Handle(s) PROVE IsActive(r)
    BY <2>2, NewJobs DEF Handle, PersistFailure, RemoveJob, WorkerStep, TypeOK,
       IsActive, ActiveStates
  <2> QED
    BY <1>5, <2>1, <2>2
<1>6. CASE \E s \in Releases : Sweep(s)
  <2>1. job'[r] \in {job[r], NoJob, Waiting}
    BY <1>6 DEF Sweep, Reconcile, ReconcileAdds, Recover, Enqueue, TypeOK
  <2> QED
    BY <2>1, NewJobs DEF IsActive, ActiveStates
<1> QED
  BY <1>1, <1>2, <1>3, <1>4, <1>5, <1>6 DEF Next

\* The steps of a reset, if no other one is in progress.
LEMMA ResetSteps ==
  ASSUME ResetInv, ~Overlap, NEW x \in Resets, Reset(x)
  PROVE  OneReset' /\ PausedWhileTrying' /\ IdleWhenReset'
<1> USE DEF ResetInv, TypeOK, Go, Trying, Emptying, Stages
<1>1. OneReset'
  BY DEF OneReset, Reset, Pause, Count, Drain, CleanCompleted, CleanFailed,
     ResetDatabase, StepThrows, Resume, PauseThrows, ResumeThrows
<1>2. PausedWhileTrying'
  BY DEF OneReset, PausedWhileTrying, Reset, Pause, Count, Drain, CleanCompleted,
     CleanFailed, ResetDatabase, StepThrows, Resume, PauseThrows, ResumeThrows
<1>3. ASSUME NEW y \in Resets, stage'[y] \in Emptying, NEW r \in Releases,
             IsActive(r)'
      PROVE  FALSE
  <2>1. CASE stage[y] \in Emptying
    <3>1. ~IsActive(r) /\ paused
      BY <2>1 DEF IdleWhenReset, PausedWhileTrying
    <3>2. [Next]_vars
      BY DEF Next
    <3> QED
      BY <1>3, <3>1, <3>2, OnlyFetchActivates
  <2>2. CASE stage[y] \notin Emptying
    <3>1. x = y /\ Count(x)
      BY <1>3, <2>2 DEF Reset, Pause, Count, Drain, CleanCompleted, CleanFailed,
         ResetDatabase, StepThrows, Resume, PauseThrows, ResumeThrows
    <3>2. ~IsActive(r)
      BY <1>3, <3>1 DEF Count
    <3> QED
      BY <1>3, <3>1, <3>2 DEF Count, IsActive
  <2> QED
    BY <2>1, <2>2
<1> QED
  BY <1>1, <1>2, <1>3 DEF IdleWhenReset

\* Nobody else moves a reset forward, unpauses the queue or, while it is
\* paused, makes a job active.
LEMMA OtherSteps ==
  ASSUME ResetInv, [Next]_vars, ~\E x \in Resets : Reset(x)
  PROVE  OneReset' /\ PausedWhileTrying' /\ IdleWhenReset'
<1>1. paused' = paused
  BY DEF Next, vars, ApiDies, Submit, LookUp, CreateRejected, Create,
     EnqueueCreated, EnqueueThrows, FailRefused, SubmitStep, Process, Fetch, Advance, Settle,
     Complete, FailAttempt, WorkerStep, Handle, PersistFailure, RemoveJob,
     Promote, Sweep, Reconcile, ReconcileAdds, Recover
<1>2. stage' = stage \/ stage' = [x \in Resets |-> IF InProgress(x) THEN "over" ELSE stage[x]]
  BY DEF Next, vars, ApiDies, Submit, LookUp, CreateRejected, Create,
     EnqueueCreated, EnqueueThrows, FailRefused, SubmitStep, Process, Fetch, Advance, Settle,
     Complete, FailAttempt, WorkerStep, Handle, PersistFailure, RemoveJob,
     Promote, Sweep, Reconcile, ReconcileAdds, Recover
<1>3. \A x \in Resets : stage'[x] \in Trying \cup {"resume"} => stage'[x] = stage[x]
  BY <1>2 DEF ResetInv, TypeOK, Trying, Stages
<1>4. OneReset' /\ PausedWhileTrying'
  BY <1>1, <1>2 DEF ResetInv, TypeOK, OneReset, PausedWhileTrying, Trying, Stages
<1>5. IdleWhenReset'
  BY <1>3, OnlyFetchActivates
     DEF ResetInv, PausedWhileTrying, IdleWhenReset, Trying, Emptying
<1> QED
  BY <1>4, <1>5

LEMMA NextTypes ==
  ASSUME TypeOK, [Next]_vars
  PROVE  TypeOK'
<1>1. CASE ApiDies
  BY <1>1 DEF TypeOK, ApiDies, Fault, Stages
<1>2. CASE UNCHANGED vars
  BY <1>2 DEF TypeOK, vars
<1> QED
  BY <1>1, <1>2, ResetTypes, SubmitTypes, WorkerTypes, SweepTypes DEF Next

LEMMA NextReset ==
  ASSUME ResetInv, ~Overlap, [Next]_vars
  PROVE  ResetInv'
<1>1. TypeOK'
  BY NextTypes DEF ResetInv
<1> QED
  BY <1>1, ResetSteps, OtherSteps DEF ResetInv

-----------------------------------------------------------------------------
\* Every variable has its type, whether or not resets overlap.
THEOREM TypesHold == Spec => []TypeOK
<1>1. Init => TypeOK
  BY InitReset DEF ResetInv
<1> QED
  BY <1>1, NextTypes, PTL DEF Spec

\* A reset never takes the queue or the database away from a job that is being
\* worked on, if resets do not overlap (demo-reset-service.ts:24-36).
THEOREM ResetIsExclusive ==
  ASSUME ~Overlap
  PROVE  Spec => []IdleWhenReset
<1>1. ResetInv => IdleWhenReset
  BY DEF ResetInv
<1> QED
  BY <1>1, InitReset, NextReset, PTL DEF Spec
=============================================================================
