------------------------- MODULE ReleaseRepository -------------------------
(***************************************************************************)
(* packages/database/src/repositories/release-repository.ts for one        *)
(* idempotency key.  Every method is a transaction of two steps: it reads  *)
(* the row and checks it, then updates the row where the id, the status,   *)
(* the attempt and the version are still those it read, and appends to the *)
(* transition log in the same commit.  Any number of sessions (API         *)
(* requests, worker handlers, recovery sweeps) interleave between the two  *)
(* steps.  PostgreSQL's serializable level may abort more of them than the *)
(* version test does; Abort covers that and every lost connection.         *)
(***************************************************************************)
EXTENDS Naturals, Sequences, ReleaseLifecycle

CONSTANTS
  Sessions,      \* concurrent callers of the repository
  Components,    \* component versions a submission may name (the payload)
  NoComponent,
  MaxAttempt,    \* bound on the number of retries
  Assessments,   \* contents of a risk assessment
  NoAssessment

ASSUME RepositoryAssumption ==
  /\ MaxAttempt \in Nat
  /\ NoComponent \notin Components
  /\ NoAssessment \notin Assessments

VARIABLES
  row,           \* the ReleaseCandidate row; status NoStatus when absent
  log,           \* the ReleaseTransition rows of the release, in order
  assessment,    \* the RiskAssessment row
  tx,            \* the transaction each session has open
  creators,      \* sessions that were told created: true
  accepted       \* the payload each session was told the release is for

vars == <<row, log, assessment, tx, creators, accepted>>

Attempts == 0 .. MaxAttempt

Rows == [status : Statuses \cup {NoStatus}, attempt : Attempts, version : Nat,
         component : Components \cup {NoComponent}]

AbsentRow == [status |-> NoStatus, attempt |-> 0, version |-> 0,
              component |-> NoComponent]

LogEntries == [attempt : Attempts, from : Statuses \cup {NoStatus}, to : Statuses]

Operations == {"none", "createRelease", "createQueuedRelease", "transitionRelease",
               "failRelease", "retryRelease"}

\* An open transaction: what was called, the row it read, the status it is
\* about to write, and the payload or the assessment it carries.
Transactions ==
  [op : Operations, snapshot : Rows, next : Statuses \cup {NoStatus},
   component : Components \cup {NoComponent},
   assessment : Assessments \cup {NoAssessment}]

NoTransaction ==
  [op |-> "none", snapshot |-> AbsentRow, next |-> NoStatus,
   component |-> NoComponent, assessment |-> NoAssessment]

RowExists == row.status # NoStatus

TypeOK ==
  /\ row \in Rows
  /\ log \in Seq(LogEntries)
  /\ assessment \in Assessments \cup {NoAssessment}
  /\ tx \in [Sessions -> Transactions]
  /\ creators \subseteq Sessions
  /\ accepted \in [Sessions -> Components \cup {NoComponent}]

Init ==
  /\ row = AbsentRow
  /\ log = <<>>
  /\ assessment = NoAssessment
  /\ tx = [s \in Sessions |-> NoTransaction]
  /\ creators = {}
  /\ accepted = [s \in Sessions |-> NoComponent]

-----------------------------------------------------------------------------
Idle(s) == tx[s].op = "none"

Open(s, op, next, component, content) ==
  /\ tx' = [tx EXCEPT ![s] =
       [op |-> op, snapshot |-> row, next |-> next,
        component |-> component, assessment |-> content]]
  /\ UNCHANGED <<row, log, assessment, creators, accepted>>

Close(s) == tx' = [tx EXCEPT ![s] = NoTransaction]

\* assertMatchingReleasePayload: the row found under the key is returned to
\* a caller with the same payload; another payload is an
\* IdempotencyConflictError, and the caller learns nothing.
ReturnExisting(s, component) ==
  /\ accepted' = IF row.component = component
                   THEN [accepted EXCEPT ![s] = component] ELSE accepted
  /\ UNCHANGED <<row, log, assessment, creators>>

\* The first statement of createRelease and createQueuedRelease.
ReadForCreate(s, op, component) ==
  /\ Idle(s)
  /\ \/ /\ RowExists
        /\ ReturnExisting(s, component)
        /\ UNCHANGED tx
     \/ /\ ~RowExists
        /\ Open(s, op, IF op = "createRelease" THEN "DRAFT" ELSE "QUEUED",
                component, NoAssessment)

ReadForTransition(s, expectedStatus, expectedAttempt, nextStatus) ==
  /\ Idle(s)
  /\ RowExists
  /\ row.status = expectedStatus
  /\ row.attempt = expectedAttempt
  /\ IsValidTransition(expectedStatus, nextStatus)
  /\ Open(s, "transitionRelease", nextStatus, NoComponent, NoAssessment)

ReadForFail(s, expectedStatus, expectedAttempt, content) ==
  /\ Idle(s)
  /\ RowExists
  /\ row.status = expectedStatus
  /\ row.attempt = expectedAttempt
  /\ IsValidTransition(expectedStatus, "ERROR")
  /\ Open(s, "failRelease", "ERROR", NoComponent, content)

\* Bound: at most MaxAttempt retries.
ReadForRetry(s) ==
  /\ Idle(s)
  /\ row.status = "ERROR"
  /\ row.attempt < MaxAttempt
  /\ Open(s, "retryRelease", "QUEUED", NoComponent, NoAssessment)

-----------------------------------------------------------------------------
Entry(attempt, from, to) == [attempt |-> attempt, from |-> from, to |-> to]

\* The rows createRelease or createQueuedRelease write to the log.
CreationLog(op) ==
  IF op = "createRelease"
    THEN <<Entry(0, NoStatus, "DRAFT")>>
    ELSE <<Entry(0, NoStatus, "DRAFT"), Entry(0, "DRAFT", "VALIDATING"),
           Entry(0, "VALIDATING", "QUEUED")>>

InsertRow(s) ==
  /\ row' = [status |-> tx[s].next, attempt |-> 0,
             version |-> IF tx[s].op = "createRelease" THEN 0 ELSE 2,
             component |-> tx[s].component]
  /\ log' = CreationLog(tx[s].op)
  /\ creators' = creators \cup {s}
  /\ accepted' = [accepted EXCEPT ![s] = tx[s].component]
  /\ UNCHANGED assessment

IsCreate(s) == tx[s].op \in {"createRelease", "createQueuedRelease"}

\* A schema without the unique idempotency key.
WriteCreateWithoutKey(s) == IsCreate(s) /\ InsertRow(s) /\ Close(s)

\* The P2002 branch without assertMatchingReleasePayload.
WriteCreateUnmatched(s) ==
  /\ IsCreate(s)
  /\ IF RowExists
       THEN /\ accepted' = [accepted EXCEPT ![s] = tx[s].component]
            /\ UNCHANGED <<row, log, assessment, creators>>
       ELSE InsertRow(s)
  /\ Close(s)

\* The insert: the unique idempotency key lets one transaction through, and
\* the others (P2002) read the winner's row and answer from it.
WriteCreate(s) ==
  /\ IsCreate(s)
  /\ \/ ~RowExists /\ InsertRow(s)
     \/ RowExists /\ ReturnExisting(s, tx[s].component)
  /\ Close(s)

\* updateMany with a WHERE that names the id only.
RowPresent(s) == RowExists

\* The WHERE of updateMany.  Status and attempt are those the caller
\* expected, which the read found in the snapshot; a retry expects a status
\* only.
RowUnchanged(s) ==
  /\ row.version = tx[s].snapshot.version
  /\ row.status = tx[s].snapshot.status
  /\ tx[s].op = "retryRelease" \/ row.attempt = tx[s].snapshot.attempt

\* updateMany forgetting to count the version up.
CommitUpdateUncounted(s, attempt) ==
  /\ RowUnchanged(s)
  /\ row' = [row EXCEPT !.status = tx[s].next, !.attempt = attempt]
  /\ log' = Append(log, Entry(attempt, tx[s].snapshot.status, tx[s].next))
  /\ Close(s)
  /\ UNCHANGED <<creators, accepted>>

\* updateMany with the data of the update, and releaseTransition.create.
CommitUpdate(s, attempt) ==
  /\ RowUnchanged(s)
  /\ row' = [row EXCEPT !.status = tx[s].next, !.attempt = attempt, !.version = @ + 1]
  /\ log' = Append(log, Entry(attempt, tx[s].snapshot.status, tx[s].next))
  /\ Close(s)
  /\ UNCHANGED <<creators, accepted>>

WriteTransition(s) ==
  /\ tx[s].op = "transitionRelease"
  /\ CommitUpdate(s, row.attempt)
  /\ UNCHANGED assessment

WriteFail(s) ==
  /\ tx[s].op = "failRelease"
  /\ CommitUpdate(s, row.attempt)
  /\ assessment' = tx[s].assessment

\* A retry without riskAssessment.deleteMany, and one that takes its number
\* from the version.
WriteRetryKeepsAssessment(s) ==
  /\ tx[s].op = "retryRelease"
  /\ CommitUpdate(s, tx[s].snapshot.attempt + 1)
  /\ UNCHANGED assessment

WriteRetryByVersion(s) ==
  /\ tx[s].op = "retryRelease"
  /\ CommitUpdate(s, tx[s].snapshot.version + 1)
  /\ assessment' = NoAssessment

WriteRetry(s) ==
  /\ tx[s].op = "retryRelease"
  /\ CommitUpdate(s, tx[s].snapshot.attempt + 1)
  /\ assessment' = NoAssessment

\* A write whose WHERE found no row, a serialization failure, a lost
\* connection, a caller that crashed: the transaction is rolled back.
Abort(s) ==
  /\ ~Idle(s)
  /\ Close(s)
  /\ UNCHANGED <<row, log, assessment, creators, accepted>>

\* RiskAssessmentRepository.upsert, one statement keyed by the release id.
UpsertAssessment(content) ==
  /\ RowExists
  /\ assessment' = content
  /\ UNCHANGED <<row, log, tx, creators, accepted>>

\* What callers pass to transitionRelease: no caller moves ERROR to QUEUED
\* with it.  A call without expectedAttempt is one that expects the attempt
\* the row has.
TransitionArguments ==
  {pair \in Statuses \X Statuses : pair # <<"ERROR", "QUEUED">>}

Read(s) ==
  \/ \E op \in {"createRelease", "createQueuedRelease"}, component \in Components :
       ReadForCreate(s, op, component)
  \/ \E arguments \in TransitionArguments, attempt \in Attempts :
       ReadForTransition(s, arguments[1], attempt, arguments[2])
  \/ \E status \in ProcessingStatuses, attempt \in Attempts, content \in Assessments :
       ReadForFail(s, status, attempt, content)
  \/ ReadForRetry(s)

Write(s) == WriteCreate(s) \/ WriteTransition(s) \/ WriteFail(s) \/ WriteRetry(s)

Next ==
  \/ \E s \in Sessions : Read(s) \/ Write(s) \/ Abort(s)
  \/ \E content \in Assessments : UpsertAssessment(content)

Spec == Init /\ [][Next]_vars

-----------------------------------------------------------------------------
\* The log always ends in the row's status and attempt and has one entry per
\* version: a reader of the history and a reader of the row never disagree,
\* whichever two transactions raced for the row (release-repository.ts:333-360).
LogMatchesRow ==
  IF RowExists
    THEN /\ Len(log) = row.version + 1
         /\ log[Len(log)].to = row.status
         /\ log[Len(log)].attempt = row.attempt
    ELSE row = AbsentRow /\ log = <<>>

Follows(earlier, later) ==
  /\ later.from = earlier.to
  /\ IsValidTransition(later.from, later.to)
  /\ later.attempt = IF later.from = "ERROR" THEN earlier.attempt + 1
                                             ELSE earlier.attempt

\* The log is one unbroken walk through the lifecycle that starts at INITIAL
\* -> DRAFT, and the attempt number moves exactly at the retries: no lost
\* update leaves a gap or a fork (release-repository.ts:271-310).
LogIsAWalk ==
  /\ RowExists => /\ log # <<>>
                  /\ log[1] = Entry(0, NoStatus, "DRAFT")
  /\ \A i \in 1 .. Len(log) - 1 : Follows(log[i], log[i + 1])

\* However many requests race with one idempotency key, at most one is told
\* created: true - the one that will enqueue the job
\* (release-repository.ts:142-205, release-orchestrator.ts:110-117).
AtMostOneCreator ==
  \A s, t \in creators : s = t

\* Whoever was told that the key's release is theirs named the payload the
\* row holds, also when the answer came from the P2002 branch
\* (release-repository.ts:194-204).
AcceptedPayload ==
  \A s \in Sessions :
    accepted[s] # NoComponent => RowExists /\ accepted[s] = row.component

-----------------------------------------------------------------------------
\* A transaction about to write has read a row that existed or, if it
\* creates one, found none; and a snapshot as recent as the row is the row.
SnapshotIsCurrent(s) ==
  LET snapshot == tx[s].snapshot IN
  /\ snapshot.version <= row.version
  /\ snapshot.version = row.version =>
       /\ snapshot.status = row.status
       /\ snapshot.attempt = row.attempt

OpenTransaction(s) ==
  /\ tx[s].op = "createRelease" => tx[s].next = "DRAFT"
  /\ tx[s].op = "createQueuedRelease" => tx[s].next = "QUEUED"
  /\ IsCreate(s) => tx[s].component \in Components
  /\ ~Idle(s) /\ ~IsCreate(s) =>
       /\ RowExists
       /\ SnapshotIsCurrent(s)
       /\ tx[s].snapshot.status \in Statuses
       /\ IsValidTransition(tx[s].snapshot.status, tx[s].next)
       /\ tx[s].snapshot.status = "ERROR" <=> tx[s].op = "retryRelease"
  /\ tx[s].op = "transitionRelease" =>
       <<tx[s].snapshot.status, tx[s].next>> \in TransitionArguments
  /\ tx[s].op = "failRelease" =>
       /\ tx[s].snapshot.status \in ProcessingStatuses
       /\ tx[s].next = "ERROR"
       /\ tx[s].assessment \in Assessments
  /\ tx[s].op = "retryRelease" =>
       /\ tx[s].next = "QUEUED"
       /\ tx[s].snapshot.attempt < MaxAttempt

CreatorsExist == creators # {} <=> RowExists

\* The inductive invariant of the proofs, checked here on the instance first.
IInv ==
  /\ TypeOK
  /\ LogMatchesRow
  /\ LogIsAWalk
  /\ \A s \in Sessions : OpenTransaction(s)
  /\ CreatorsExist
  /\ AtMostOneCreator
  /\ AcceptedPayload

-----------------------------------------------------------------------------
\* The transactions implement the one-step operations of ReleaseStore.
Store == INSTANCE ReleaseStore
  WITH release <- [status |-> row.status, attempt |-> row.attempt]

ImplementsStore == Store!StoreSpec
=============================================================================
