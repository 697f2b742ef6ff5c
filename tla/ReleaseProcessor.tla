-------------------------- MODULE ReleaseProcessor --------------------------
(***************************************************************************)
(* services/runner-worker/src/release-processor.ts: what a runner does     *)
(* with one job, from the moment BullMQ hands it over until process()      *)
(* returns or throws.  Every await on the database is a step of its own,   *)
(* so several workers, sweeps and API requests interleave with it.  The    *)
(* durable evidence (TestRun and EvidenceArtifact rows) lives here as      *)
(* well: only the processor writes it.                                     *)
(***************************************************************************)
EXTENDS ReleaseStore, ReleaseGate, ReleaseQueue

CONSTANTS
  ContractTest,  \* the registry's contract check
  Candidates,    \* the candidates submitted: TRUE is one that breaks the contract
  NoRun          \* no TestRun row

Keys == Attempts \X TestIds

\* Ids of runs come from a database sequence or a UUID: never one a row or a
\* worker still has.
RunIds == 1 .. Cardinality(Keys) + Cardinality(Workers)

Runs == [id : RunIds, status : {"RUNNING", "PASSED", "FAILED", "ERROR"},
         artifact : {"none", "compatible", "incompatible"}]

ASSUME ProcessorAssumption ==
  /\ ContractTest \in Mandatory
  /\ Candidates \subseteq BOOLEAN
  /\ [attempt : Attempts, outcome : GateVerdicts \cup {"failure"}] \subseteq Assessments
  /\ NoRun \notin Runs
  /\ NoJob \notin Jobs(Attempts)

VARIABLES
  breaking,      \* the release's candidate breaks the contract; never changes
  runs,          \* per attempt and test: the TestRun row and its artifact
  worker         \* what each worker is executing

\* An artifact is a CONTRACT_DIFF that says compatible: false, or anything else.
ArtifactOf(result) == IF result.incompatible THEN "incompatible" ELSE "compatible"

WorkerSteps ==
  {"idle", "find", "toTesting", "prepare", "start", "put", "complete", "completeError",
   "toAnalyzing", "summary", "upsert", "toGate", "return", "throw"}

Results == [id : TestIds, status : TestStatuses, hasArtifact : BOOLEAN,
            incompatible : BOOLEAN]

\* The results are those of the checks or of the summary; next is the result
\* being persisted, run the id of its row.
WorkerStates ==
  [pc : WorkerSteps, attempt : Attempts, results : Seq(Results), next : Nat,
   run : RunIds \cup {0}]

IdleWorker == [pc |-> "idle", attempt |-> 0, results |-> <<>>, next |-> 0, run |-> 0]

ProcessorTypeOK ==
  /\ breaking \in BOOLEAN
  /\ runs \in [Keys -> Runs \cup {NoRun}]
  /\ worker \in [Workers -> WorkerStates]

ProcessorInit ==
  /\ breaking \in Candidates
  /\ runs = [key \in Keys |-> NoRun]
  /\ worker = [w \in Workers |-> IdleWorker]

-----------------------------------------------------------------------------
At(w, pc) == worker[w].pc = pc

Continue(w, pc) == worker' = [worker EXCEPT ![w].pc = pc]

\* process() is over: it returned, or an exception reached BullMQ.
Leave(w, pc) == worker' = [worker EXCEPT ![w] = [IdleWorker EXCEPT !.pc = pc]]

EvidenceUnchanged == UNCHANGED <<breaking, runs>>

FetchJob(w) ==
  /\ At(w, "idle")
  /\ Fetch(w)
  /\ worker' = [worker EXCEPT ![w] =
       [IdleWorker EXCEPT !.pc = "find", !.attempt = job.attempt]]
  /\ UNCHANGED storeVars /\ EvidenceUnchanged

\* A processor that waits for the release to become processable.
FindWaits(w) ==
  /\ At(w, "find")
  /\ release.attempt = worker[w].attempt
  /\ Continue(w, CASE release.status = "QUEUED"    -> "toTesting"
                    [] release.status = "TESTING"   -> "prepare"
                    [] release.status = "ANALYZING" -> "summary"
                    [] OTHER                        -> "find")
  /\ UNCHANGED <<storeVars, queueVars>> /\ EvidenceUnchanged

\* A processor that takes on a release once only.
FindOfStarted(w) ==
  /\ At(w, "find")
  /\ IF release.attempt = worker[w].attempt /\ release.status = "QUEUED"
       THEN Continue(w, "toTesting") ELSE Leave(w, "throw")
  /\ UNCHANGED <<storeVars, queueVars>> /\ EvidenceUnchanged

\* findReleaseById and the three tests on what it returns.
Find(w) ==
  /\ At(w, "find")
  /\ IF release.attempt = worker[w].attempt /\ release.status \in ProcessingStatuses
       THEN Continue(w, CASE release.status = "QUEUED"    -> "toTesting"
                          [] release.status = "TESTING"   -> "prepare"
                          [] release.status = "ANALYZING" -> "summary")
       ELSE Leave(w, "throw")
  /\ UNCHANGED <<storeVars, queueVars>> /\ EvidenceUnchanged

\* transitionRelease succeeds, or throws.
Transition(w, from, to, pc) ==
  /\ \/ /\ TransitionRelease(from, worker[w].attempt, to)
        /\ IF pc = "return" THEN Leave(w, pc) ELSE Continue(w, pc)
     \/ /\ ~CanTransition(from, worker[w].attempt, to)
        /\ Leave(w, "throw")
        /\ UNCHANGED storeVars
  /\ UNCHANGED queueVars /\ EvidenceUnchanged

ToTesting(w) == At(w, "toTesting") /\ Transition(w, "QUEUED", "TESTING", "prepare")

ToAnalyzing(w) == At(w, "toAnalyzing") /\ Transition(w, "TESTING", "ANALYZING", "upsert")

\* The checks themselves are in TrustedChecks.
Outcomes(id) == CheckOutcomes(id, ContractTest, breaking)

\* The planner fails or names one more test.
Answers == {NoPlan} \cup {<<id>> : id \in TestIds \ Mandatory}

\* runMandatoryChecks: the selected checks run one after the other, and one
\* that cannot answer ends the attempt.
RunChecks(w) ==
  \/ Leave(w, "throw")
  \/ \E answer \in Answers :
       LET selection == SelectTrustedTests(answer) IN
       \E results \in [DOMAIN selection -> UNION {Outcomes(id) : id \in TestIds}] :
         /\ \A i \in DOMAIN selection : results[i] \in Outcomes(selection[i])
         /\ worker' = [worker EXCEPT ![w].pc = "start", ![w].next = 1,
                                     ![w].results = results]

\* prepareAttempt deletes the attempt's rows before the checks run.
PrepareAndCheck(w) ==
  /\ At(w, "prepare")
  /\ runs' = [key \in Keys |-> IF key[1] = worker[w].attempt THEN NoRun ELSE runs[key]]
  /\ RunChecks(w)
  /\ UNCHANGED <<storeVars, queueVars, breaking>>

-----------------------------------------------------------------------------
\* persistEvidence, for the result a worker has come to.
CurrentResult(w) == worker[w].results[worker[w].next]

RunKey(w) == <<worker[w].attempt, CurrentResult(w).id>>

FreshRun ==
  LET held == {worker[w].run : w \in Workers}
      kept == {runs[key].id : key \in {k \in Keys : runs[k] # NoRun}}
  IN  CHOOSE id \in RunIds \ (held \cup kept) :
        \A other \in RunIds \ (held \cup kept) : id <= other

\* start: the row of the same test is used again, without its artifacts.
Start(w) ==
  /\ At(w, "start")
  /\ LET key == RunKey(w)
         id  == IF runs[key] = NoRun THEN FreshRun ELSE runs[key].id
     IN  /\ runs' = [runs EXCEPT ![key] = [id |-> id, status |-> "RUNNING", artifact |-> "none"]]
         /\ worker' = [worker EXCEPT ![w].pc = "put", ![w].run = id]
  /\ UNCHANGED <<storeVars, queueVars, breaking>>

\* The row start returned is still there.
RunIsThere(w) == runs[RunKey(w)] # NoRun /\ runs[RunKey(w)].id = worker[w].run

\* artifactStore.put looks for the row first; without it, and when the store
\* fails, the run is to be completed as ERROR.
Put(w) ==
  /\ At(w, "put")
  /\ IF RunIsThere(w)
       THEN /\ runs' = [runs EXCEPT ![RunKey(w)].artifact = ArtifactOf(CurrentResult(w))]
            /\ Continue(w, "complete")
       ELSE Continue(w, "completeError") /\ UNCHANGED runs
  /\ UNCHANGED <<storeVars, queueVars, breaking>>

\* persistEvidence that takes the artifact for granted.
PutIgnoresFailure(w) ==
  /\ At(w, "put")
  /\ Continue(w, "complete")
  /\ UNCHANGED <<storeVars, queueVars>> /\ EvidenceUnchanged

PutFails(w) ==
  /\ At(w, "put")
  /\ Continue(w, "completeError")
  /\ UNCHANGED <<storeVars, queueVars>> /\ EvidenceUnchanged

CompleteError(w) ==
  /\ At(w, "completeError")
  /\ runs' = IF RunIsThere(w) THEN [runs EXCEPT ![RunKey(w)].status = "ERROR"] ELSE runs
  /\ Leave(w, "throw")
  /\ UNCHANGED <<storeVars, queueVars, breaking>>

\* complete updates by id and throws when the row is gone.
Complete(w) ==
  /\ At(w, "complete")
  /\ IF RunIsThere(w)
       THEN /\ runs' = [runs EXCEPT ![RunKey(w)].status = CurrentResult(w).status]
            /\ worker' = [worker EXCEPT ![w].run = 0, ![w].next = @ + 1,
                 ![w].pc = IF worker[w].next < Len(worker[w].results)
                             THEN "start" ELSE "toAnalyzing"]
       ELSE Leave(w, "throw") /\ UNCHANGED runs
  /\ UNCHANGED <<storeVars, queueVars, breaking>>

-----------------------------------------------------------------------------
\* loadAttemptSummary; the order of the rows does not matter to the gate.
AttemptSummary(attempt) ==
  LET ran == Among(Registry, {id \in TestIds : runs[<<attempt, id>>] # NoRun}) IN
  [i \in DOMAIN ran |-> SummaryOf(ran[i], runs[<<attempt, ran[i]>>])]

\* A resumed job that takes the assessment for stored.
SummaryToGate(w) ==
  /\ At(w, "summary")
  /\ worker' = [worker EXCEPT ![w].pc = "toGate",
                              ![w].results = AttemptSummary(worker[w].attempt)]
  /\ UNCHANGED <<storeVars, queueVars>> /\ EvidenceUnchanged

\* A job that finds the release ANALYZING goes on from the durable evidence.
Summary(w) ==
  /\ At(w, "summary")
  /\ worker' = [worker EXCEPT ![w].pc = "upsert",
                              ![w].results = AttemptSummary(worker[w].attempt)]
  /\ UNCHANGED <<storeVars, queueVars>> /\ EvidenceUnchanged

Verdict(w) == GateOf(worker[w].results)

\* The advisory analysis; its content is the verdict it was asked to explain.
Upsert(w) ==
  /\ At(w, "upsert")
  /\ UpsertAssessment([attempt |-> worker[w].attempt, outcome |-> Verdict(w)])
  /\ Continue(w, "toGate")
  /\ UNCHANGED queueVars /\ EvidenceUnchanged

ToGate(w) == At(w, "toGate") /\ Transition(w, "ANALYZING", Verdict(w), "return")

\* Any database call throws; when it had been committed and only the answer
\* was lost, this is the step after it.
StepThrows(w) ==
  /\ worker[w].pc \notin {"idle", "throw"}
  /\ Leave(w, "throw")
  /\ UNCHANGED <<storeVars, queueVars>> /\ EvidenceUnchanged

Process(w) ==
  \/ FetchJob(w) \/ Find(w) \/ ToTesting(w) \/ PrepareAndCheck(w)
  \/ Start(w) \/ Put(w) \/ CompleteError(w) \/ Complete(w)
  \/ ToAnalyzing(w) \/ Summary(w) \/ Upsert(w) \/ ToGate(w)
=============================================================================
