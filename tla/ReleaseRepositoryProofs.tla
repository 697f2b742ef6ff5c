---------------------- MODULE ReleaseRepositoryProofs ----------------------
(***************************************************************************)
(* Proofs about ReleaseRepository for any sessions, payloads, assessments  *)
(* and any number of retries.  The inductive invariant is IInv: beside the *)
(* four properties it holds that a transaction about to write either is a  *)
(* creation or carries a snapshot which, when its version is still the     *)
(* row's, has the row's status and attempt too.                            *)
(***************************************************************************)
EXTENDS ReleaseRepository, TLAPS

\* The table relates statuses to statuses, and leads to no NoStatus.
LEMMA TableType ==
  /\ NoStatus \notin Statuses
  /\ \A from, to : from \in Statuses \cup {NoStatus} /\ IsValidTransition(from, to)
       => to \in Statuses
  /\ \A from \in Statuses : IsValidTransition(from, "QUEUED") =>
       from \in {"VALIDATING", "ERROR"}
<1>1. NoStatus \notin Statuses
  BY DEF NoStatus, Statuses
<1>2. ASSUME NEW from, NEW to, from \in Statuses \cup {NoStatus},
             IsValidTransition(from, to)
      PROVE  to \in Statuses
  BY <1>2 DEF IsValidTransition, AllowedTransitions, Statuses, NoStatus
<1>3. ASSUME NEW from \in Statuses, IsValidTransition(from, "QUEUED")
      PROVE  from \in {"VALIDATING", "ERROR"}
  BY <1>3 DEF IsValidTransition, AllowedTransitions, Statuses, NoStatus
<1> QED
  BY <1>1, <1>2, <1>3

LEMMA InitInvariant == Init => IInv
<1> SUFFICES ASSUME Init PROVE IInv
  OBVIOUS
<1> USE RepositoryAssumption DEF Init
<1>1. TypeOK
  BY DEF TypeOK, Rows, AbsentRow, Attempts, Transactions, NoTransaction, Operations
<1>2. ~RowExists
  BY DEF RowExists, AbsentRow
<1>3. LogMatchesRow /\ LogIsAWalk
  BY <1>2 DEF LogMatchesRow, LogIsAWalk
<1>4. \A s \in Sessions : OpenTransaction(s)
  BY DEF OpenTransaction, NoTransaction, Idle, IsCreate
<1>5. CreatorsExist /\ AtMostOneCreator /\ AcceptedPayload
  BY <1>2 DEF CreatorsExist, AtMostOneCreator, AcceptedPayload
<1> QED
  BY <1>1, <1>3, <1>4, <1>5 DEF IInv

\* Opening a transaction on the row as it is preserves the invariant when
\* what it is about to write follows from the row.
LEMMA OpenInvariant ==
  ASSUME IInv, NEW s \in Sessions, NEW op \in Operations \ {"none"},
         NEW next \in Statuses, NEW component \in Components \cup {NoComponent},
         NEW content \in Assessments \cup {NoAssessment},
         Open(s, op, next, component, content),
         op = "createRelease" => next = "DRAFT",
         op = "createQueuedRelease" => next = "QUEUED",
         op \in {"createRelease", "createQueuedRelease"} => component \in Components,
         op \notin {"createRelease", "createQueuedRelease"} =>
           /\ RowExists
           /\ IsValidTransition(row.status, next)
           /\ row.status = "ERROR" <=> op = "retryRelease",
         op = "transitionRelease" => <<row.status, next>> \in TransitionArguments,
         op = "failRelease" =>
           row.status \in ProcessingStatuses /\ next = "ERROR" /\ content \in Assessments,
         op = "retryRelease" => next = "QUEUED" /\ row.attempt < MaxAttempt
  PROVE  IInv'
<1> USE DEF IInv
<1>1. TypeOK'
  BY DEF TypeOK, Open, Transactions
<1>2. RowExists' = RowExists
  BY DEF Open, RowExists
<1>3. LogMatchesRow' /\ LogIsAWalk'
  BY <1>2 DEF LogMatchesRow, LogIsAWalk, Open, Follows, Entry
<1>4. ASSUME NEW t \in Sessions PROVE OpenTransaction(t)'
  <2>1. CASE t # s
    <3>1. tx'[t] = tx[t]
      BY <2>1 DEF Open, TypeOK
    <3> QED
      BY <3>1, <1>2 DEF OpenTransaction, Open, SnapshotIsCurrent, Idle, IsCreate
  <2>2. CASE t = s
    <3>1. tx'[s] = [op |-> op, snapshot |-> row, next |-> next,
                    component |-> component, assessment |-> content]
      BY DEF Open, TypeOK
    <3>2. row \in Rows
      BY DEF TypeOK
    <3>3. SnapshotIsCurrent(s)'
      BY <3>1, <3>2 DEF SnapshotIsCurrent, Open, Rows
    <3>4. RowExists => row.status \in Statuses
      BY <3>2 DEF RowExists, Rows
    <3> QED
      BY <2>2, <3>1, <3>3, <3>4, <1>2 DEF OpenTransaction, Open, Idle, IsCreate
  <2> QED
    BY <2>1, <2>2
<1>5. CreatorsExist' /\ AtMostOneCreator' /\ AcceptedPayload'
  BY <1>2 DEF CreatorsExist, AtMostOneCreator, AcceptedPayload, Open
<1> QED
  BY <1>1, <1>3, <1>4, <1>5

\* Closing a transaction leaves every other one as it was.
LEMMA CloseKeepsOthers ==
  ASSUME TypeOK, NEW s \in Sessions, Close(s)
  PROVE  /\ tx' \in [Sessions -> Transactions]
         /\ tx'[s] = NoTransaction
         /\ \A t \in Sessions \ {s} : tx'[t] = tx[t]
<1> USE RepositoryAssumption
<1>1. NoTransaction \in Transactions
  BY DEF NoTransaction, Transactions, Operations, AbsentRow, Rows, Attempts
<1> QED
  BY <1>1 DEF Close, TypeOK

\* A closed transaction makes no claim on the row.
LEMMA ClosedIsFine ==
  ASSUME NEW s \in Sessions, tx'[s] = NoTransaction
  PROVE  OpenTransaction(s)'
BY DEF NoTransaction, OpenTransaction, Idle, IsCreate

\* A session that ends a transaction without touching the row.
LEMMA AbortInvariant ==
  ASSUME IInv, NEW s \in Sessions, Close(s), UNCHANGED <<row, log, creators>>,
         assessment' \in Assessments \cup {NoAssessment},
         accepted' \in [Sessions -> Components \cup {NoComponent}],
         AcceptedPayload'
  PROVE  IInv'
<1> USE DEF IInv
<1>1. TypeOK'
  BY CloseKeepsOthers DEF TypeOK
<1>2. RowExists' = RowExists
  BY DEF RowExists
<1>3. LogMatchesRow' /\ LogIsAWalk'
  BY <1>2 DEF LogMatchesRow, LogIsAWalk, Follows, Entry
<1>4. ASSUME NEW t \in Sessions PROVE OpenTransaction(t)'
  <2>1. CASE t = s
    BY <2>1, CloseKeepsOthers, ClosedIsFine
  <2>2. CASE t # s
    BY <2>2, CloseKeepsOthers, <1>2
       DEF OpenTransaction, SnapshotIsCurrent, Idle, IsCreate
  <2> QED
    BY <2>1, <2>2
<1>5. CreatorsExist' /\ AtMostOneCreator'
  BY <1>2 DEF CreatorsExist, AtMostOneCreator
<1> QED
  BY <1>1, <1>3, <1>4, <1>5

\* The insert: it happens only when there is no row, so the log it writes
\* starts the walk and the inserting session is the only creator.
LEMMA InsertInvariant ==
  ASSUME IInv, NEW s \in Sessions, IsCreate(s), ~RowExists, InsertRow(s), Close(s)
  PROVE  IInv'
<1> USE RepositoryAssumption DEF IInv
<1>0. /\ tx[s] \in Transactions
      /\ tx[s].component \in Components
      /\ \/ tx[s].op = "createRelease" /\ tx[s].next = "DRAFT"
         \/ tx[s].op = "createQueuedRelease" /\ tx[s].next = "QUEUED"
  BY DEF TypeOK, OpenTransaction, IsCreate
<1>1. /\ row' \in Rows
      /\ row'.component = tx[s].component
      /\ row'.attempt = 0
      /\ tx[s].op = "createRelease" => row'.status = "DRAFT" /\ row'.version = 0
      /\ tx[s].op = "createQueuedRelease" => row'.status = "QUEUED" /\ row'.version = 2
  BY <1>0 DEF InsertRow, Rows, Attempts, Statuses
<1>2. RowExists'
  BY <1>0, <1>1 DEF RowExists, NoStatus
<1> DEFINE drafted == Entry(0, NoStatus, "DRAFT")
           validating == Entry(0, "DRAFT", "VALIDATING")
           queued == Entry(0, "VALIDATING", "QUEUED")
<1>e. /\ drafted \in LogEntries /\ validating \in LogEntries /\ queued \in LogEntries
      /\ drafted.to = "DRAFT" /\ drafted.attempt = 0
      /\ queued.to = "QUEUED" /\ queued.attempt = 0
      /\ Follows(drafted, validating) /\ Follows(validating, queued)
  BY DEF Entry, LogEntries, Attempts, Statuses, NoStatus, Follows, IsValidTransition,
         AllowedTransitions
<1>l. /\ tx[s].op = "createRelease" => log' = <<drafted>>
      /\ tx[s].op = "createQueuedRelease" => log' = <<drafted, validating, queued>>
  BY <1>0 DEF InsertRow, CreationLog
<1> HIDE DEF drafted, validating, queued
<1>3. /\ log' \in Seq(LogEntries)
      /\ log'[1] = drafted
      /\ tx[s].op = "createRelease" => Len(log') = 1
      /\ tx[s].op = "createQueuedRelease" =>
           Len(log') = 3 /\ log'[2] = validating /\ log'[3] = queued
  <2>1. CASE tx[s].op = "createRelease"
    <3>1. log' = <<drafted>> /\ drafted \in LogEntries
      BY <2>1, <1>e, <1>l
    <3>2. <<drafted>> \in Seq(LogEntries) /\ Len(<<drafted>>) = 1
      BY <3>1
    <3> QED
      BY <2>1, <3>1, <3>2
  <2>2. CASE tx[s].op = "createQueuedRelease"
    <3>1. log' = <<drafted, validating, queued>>
      BY <2>2, <1>l
    <3>2. <<drafted, validating, queued>> \in Seq(LogEntries)
      BY <1>e
    <3>3. Len(<<drafted, validating, queued>>) = 3
      OBVIOUS
    <3> QED
      BY <2>2, <3>1, <3>2, <3>3
  <2> QED
    BY <1>0, <2>1, <2>2
<1>4. TypeOK'
  BY <1>0, <1>1, <1>3, CloseKeepsOthers DEF TypeOK, InsertRow
<1>5. LogMatchesRow'
  <2>1. CASE tx[s].op = "createRelease"
    <3>1. /\ Len(log') = 1 /\ log'[1] = drafted
          /\ row'.version = 0 /\ row'.status = "DRAFT" /\ row'.attempt = 0
      BY <2>1, <1>1, <1>3
    <3> QED
      BY <3>1, <1>2, <1>e DEF LogMatchesRow
  <2>2. CASE tx[s].op = "createQueuedRelease"
    <3>1. /\ Len(log') = 3 /\ log'[3] = queued
          /\ row'.version = 2 /\ row'.status = "QUEUED" /\ row'.attempt = 0
      BY <2>2, <1>1, <1>3
    <3> QED
      BY <3>1, <1>2, <1>e DEF LogMatchesRow
  <2> QED
    BY <1>0, <2>1, <2>2
<1>6. LogIsAWalk'
  <2>1. log' # <<>> /\ log'[1] = Entry(0, NoStatus, "DRAFT")
    BY <1>0, <1>3 DEF drafted
  <2>2. \A i \in 1 .. Len(log') - 1 :
          tx[s].op = "createQueuedRelease" /\ (i = 1 \/ i = 2)
    <3>1. CASE tx[s].op = "createRelease"
      <4>1. Len(log') = 1
        BY <3>1, <1>3
      <4> QED
        BY <4>1
    <3>2. CASE tx[s].op = "createQueuedRelease"
      <4>1. Len(log') = 3
        BY <3>2, <1>3
      <4> QED
        BY <3>2, <4>1
    <3> QED
      BY <1>0, <3>1, <3>2
  <2>3. \A i \in 1 .. Len(log') - 1 : Follows(log'[i], log'[i + 1])
    BY <2>2, <1>3, <1>e
  <2> QED
    BY <2>1, <2>3 DEF LogIsAWalk, Follows
<1>7. ASSUME NEW t \in Sessions PROVE OpenTransaction(t)'
  <2>1. CASE t = s
    BY <2>1, CloseKeepsOthers, ClosedIsFine
  <2>2. CASE t # s
    <3>1. tx'[t] = tx[t] /\ OpenTransaction(t)
      BY <2>2, CloseKeepsOthers
    <3>2. Idle(t) \/ IsCreate(t)
      BY <3>1 DEF OpenTransaction
    <3> QED
      BY <3>1, <3>2 DEF OpenTransaction, Idle, IsCreate
  <2> QED
    BY <2>1, <2>2
<1>8. creators = {} /\ \A t \in Sessions : accepted[t] = NoComponent
  BY DEF CreatorsExist, AcceptedPayload, TypeOK
<1>9. CreatorsExist' /\ AtMostOneCreator' /\ AcceptedPayload'
  BY <1>1, <1>2, <1>8 DEF CreatorsExist, AtMostOneCreator, AcceptedPayload, InsertRow, TypeOK
<1> QED
  BY <1>4, <1>5, <1>6, <1>7, <1>9

\* The update: the row is the one that was read, so the entry it appends
\* follows from the last one of the log; every snapshot taken before it is
\* now older than the row.
LEMMA CommitInvariant ==
  ASSUME IInv, NEW s \in Sessions, ~Idle(s), ~IsCreate(s),
         NEW attempt \in Attempts, CommitUpdate(s, attempt),
         attempt = IF row.status = "ERROR" THEN row.attempt + 1 ELSE row.attempt,
         assessment' \in Assessments \cup {NoAssessment}
  PROVE  IInv'
<1> USE RepositoryAssumption DEF IInv
<1>0. /\ row \in Rows /\ tx[s] \in Transactions
      /\ RowExists
      /\ row.status \in Statuses
      /\ row.status = tx[s].snapshot.status
      /\ IsValidTransition(row.status, tx[s].next)
      /\ tx[s].next \in Statuses
  BY TableType DEF TypeOK, OpenTransaction, CommitUpdate, RowUnchanged
<1>1. row' = [status |-> tx[s].next, attempt |-> attempt,
              version |-> row.version + 1, component |-> row.component]
  BY <1>0 DEF CommitUpdate, Rows
<1>2. row' \in Rows /\ RowExists'
  BY <1>0, <1>1, TableType DEF Rows, RowExists
<1> DEFINE new == Entry(attempt, row.status, tx[s].next)
<1>3. log' = Append(log, new) /\ new \in LogEntries
  BY <1>0 DEF CommitUpdate, Entry, LogEntries
<1>4. /\ log \in Seq(LogEntries)
      /\ Len(log) = row.version + 1
      /\ log[Len(log)].to = row.status
      /\ log[Len(log)].attempt = row.attempt
      /\ log[1] = Entry(0, NoStatus, "DRAFT")
      /\ \A i \in 1 .. Len(log) - 1 : Follows(log[i], log[i + 1])
  BY <1>0 DEF TypeOK, LogMatchesRow, LogIsAWalk
<1>5. /\ log' \in Seq(LogEntries)
      /\ Len(log') = Len(log) + 1
      /\ \A i \in 1 .. Len(log) : log'[i] = log[i]
      /\ log'[Len(log) + 1] = new
      /\ Len(log) \in Nat \ {0}
  BY <1>0, <1>3, <1>4 DEF Rows
<1>6. TypeOK'
  BY <1>2, <1>5, CloseKeepsOthers DEF TypeOK, CommitUpdate
<1>7. LogMatchesRow'
  BY <1>1, <1>2, <1>4, <1>5 DEF LogMatchesRow, Entry
<1>8. LogIsAWalk'
  <2>1. log' # <<>> /\ log'[1] = Entry(0, NoStatus, "DRAFT")
    BY <1>4, <1>5
  <2>2. ASSUME NEW i \in 1 .. Len(log') - 1
        PROVE  Follows(log'[i], log'[i + 1])
    <3>1. CASE i = Len(log)
      <4>1. log'[i] = log[Len(log)] /\ log'[i + 1] = new
        BY <3>1, <1>5
      <4>2. Follows(log[Len(log)], new)
        BY <1>0, <1>4 DEF Follows, Entry
      <4> QED
        BY <4>1, <4>2
    <3>2. CASE i # Len(log)
      <4>1. i \in 1 .. Len(log) - 1
        BY <3>2, <1>5
      <4>2. log'[i] = log[i] /\ log'[i + 1] = log[i + 1]
        BY <4>1, <1>5
      <4> QED
        BY <4>1, <4>2, <1>4
    <3> QED
      BY <3>1, <3>2
  <2>3. \A i \in 1 .. Len(log') - 1 : Follows(log'[i], log'[i + 1])
    BY <2>2
  <2> QED
    BY <2>1, <2>3 DEF LogIsAWalk, Follows
<1>9. ASSUME NEW t \in Sessions PROVE OpenTransaction(t)'
  <2>1. CASE t = s
    BY <2>1, CloseKeepsOthers, ClosedIsFine DEF CommitUpdate
  <2>2. CASE t # s
    <3>1. tx'[t] = tx[t] /\ OpenTransaction(t) /\ tx[t] \in Transactions
      BY <2>2, CloseKeepsOthers DEF CommitUpdate, TypeOK
    <3>2. ~Idle(t) /\ ~IsCreate(t) => SnapshotIsCurrent(t)'
      <4> SUFFICES ASSUME ~Idle(t), ~IsCreate(t) PROVE SnapshotIsCurrent(t)'
        OBVIOUS
      <4>1. tx[t].snapshot.version \in Nat /\ row.version \in Nat
        BY <3>1, <1>0 DEF Transactions, Rows
      <4>2. tx[t].snapshot.version <= row.version
        BY <3>1 DEF OpenTransaction, SnapshotIsCurrent
      <4>3. row'.version = row.version + 1
        BY <1>1
      <4> QED
        BY <3>1, <4>1, <4>2, <4>3 DEF SnapshotIsCurrent
    <3> QED
      BY <3>1, <3>2, <1>2 DEF OpenTransaction, Idle, IsCreate
  <2> QED
    BY <2>1, <2>2
<1>10. CreatorsExist' /\ AtMostOneCreator' /\ AcceptedPayload'
  BY <1>0, <1>1, <1>2 DEF CreatorsExist, AtMostOneCreator, AcceptedPayload, CommitUpdate
<1> QED
  BY <1>6, <1>7, <1>8, <1>9, <1>10

-----------------------------------------------------------------------------
\* The reads: every one opens a transaction or answers from the row.
LEMMA ReadInvariant ==
  ASSUME IInv, NEW s \in Sessions, Read(s)
  PROVE  IInv'
<1> USE RepositoryAssumption
<1>0. row \in Rows /\ TypeOK
  BY DEF IInv, TypeOK
<1>1. ASSUME NEW op \in {"createRelease", "createQueuedRelease"},
             NEW component \in Components, ReadForCreate(s, op, component)
      PROVE  IInv'
  <2>1. CASE RowExists /\ ReturnExisting(s, component) /\ UNCHANGED tx
    <3>1. AcceptedPayload' /\ TypeOK'
      BY <2>1, <1>0 DEF IInv, AcceptedPayload, ReturnExisting, TypeOK, RowExists
    <3>2. UNCHANGED <<row, log, tx, creators>>
      BY <2>1 DEF ReturnExisting
    <3> QED
      BY <3>1, <3>2 DEF IInv, RowExists, LogMatchesRow, LogIsAWalk, Follows, Entry,
         OpenTransaction, SnapshotIsCurrent, Idle, IsCreate, CreatorsExist, AtMostOneCreator
  <2>2. CASE Open(s, op, IF op = "createRelease" THEN "DRAFT" ELSE "QUEUED",
                  component, NoAssessment)
    BY <2>2, OpenInvariant DEF Operations, Statuses
  <2> QED
    BY <1>1, <2>1, <2>2 DEF ReadForCreate
<1>2. ASSUME NEW arguments \in TransitionArguments, NEW attempt \in Attempts,
             ReadForTransition(s, arguments[1], attempt, arguments[2])
      PROVE  IInv'
  <2>1. PICK from \in Statuses, to \in Statuses :
          arguments = <<from, to>> /\ <<from, to>> # <<"ERROR", "QUEUED">>
    BY DEF TransitionArguments
  <2>2. /\ RowExists /\ row.status = from /\ IsValidTransition(from, to)
        /\ Open(s, "transitionRelease", to, NoComponent, NoAssessment)
    BY <1>2, <2>1 DEF ReadForTransition
  <2>3. row.status # "ERROR"
    BY <2>1, <2>2 DEF IsValidTransition, AllowedTransitions, Statuses, NoStatus
  <2> QED
    BY <2>1, <2>2, <2>3, OpenInvariant DEF Operations
<1>3. ASSUME NEW status \in ProcessingStatuses, NEW attempt \in Attempts,
             NEW content \in Assessments, ReadForFail(s, status, attempt, content)
      PROVE  IInv'
  <2>1. /\ RowExists /\ row.status = status /\ IsValidTransition(status, "ERROR")
        /\ Open(s, "failRelease", "ERROR", NoComponent, content)
    BY <1>3 DEF ReadForFail
  <2> QED
    BY <2>1, OpenInvariant DEF Operations, Statuses, ProcessingStatuses
<1>4. ASSUME ReadForRetry(s)
      PROVE  IInv'
  <2>1. /\ RowExists /\ row.status = "ERROR" /\ row.attempt < MaxAttempt
        /\ Open(s, "retryRelease", "QUEUED", NoComponent, NoAssessment)
    BY <1>4 DEF ReadForRetry, RowExists, NoStatus
  <2>2. IsValidTransition("ERROR", "QUEUED")
    BY DEF IsValidTransition, AllowedTransitions, Statuses, NoStatus
  <2> QED
    BY <2>1, <2>2, OpenInvariant DEF Operations, Statuses
<1> QED
  BY <1>1, <1>2, <1>3, <1>4 DEF Read

\* The attempt an update writes: the row's, or the next one for a retry.
LEMMA WriteInvariant ==
  ASSUME IInv, NEW s \in Sessions, Write(s)
  PROVE  IInv'
<1> USE RepositoryAssumption
<1>0. OpenTransaction(s) /\ tx[s] \in Transactions /\ row \in Rows
  BY DEF IInv, TypeOK
<1>1. CASE WriteCreate(s)
  <2>1. CASE ~RowExists
    BY <1>1, <2>1, InsertInvariant DEF WriteCreate
  <2>2. CASE RowExists
    <3>1. /\ ReturnExisting(s, tx[s].component) /\ Close(s)
          /\ tx[s].component \in Components
      BY <1>0, <1>1, <2>2 DEF WriteCreate, OpenTransaction
    <3>2. /\ UNCHANGED <<row, log, creators, assessment>>
          /\ accepted' \in [Sessions -> Components \cup {NoComponent}]
          /\ assessment' \in Assessments \cup {NoAssessment}
      BY <3>1 DEF ReturnExisting, IInv, TypeOK
    <3>3. AcceptedPayload'
      BY <3>1, <2>2 DEF ReturnExisting, IInv, TypeOK, AcceptedPayload, RowExists
    <3> QED
      BY <3>1, <3>2, <3>3, AbortInvariant
  <2> QED
    BY <2>1, <2>2
<1>2. CASE WriteTransition(s)
  <2>1. /\ ~Idle(s) /\ ~IsCreate(s) /\ CommitUpdate(s, row.attempt)
        /\ UNCHANGED assessment /\ tx[s].op # "retryRelease"
    BY <1>2 DEF WriteTransition, Idle, IsCreate
  <2>2. row.status # "ERROR" /\ row.attempt \in Attempts
    BY <1>0, <2>1 DEF CommitUpdate, RowUnchanged, OpenTransaction, Rows
  <2>3. assessment' \in Assessments \cup {NoAssessment}
    BY <2>1 DEF IInv, TypeOK
  <2> QED
    BY <2>1, <2>2, <2>3, CommitInvariant
<1>3. CASE WriteFail(s)
  <2>1. /\ ~Idle(s) /\ ~IsCreate(s) /\ CommitUpdate(s, row.attempt)
        /\ assessment' = tx[s].assessment /\ tx[s].op = "failRelease"
    BY <1>3 DEF WriteFail, Idle, IsCreate
  <2>2. row.status # "ERROR" /\ row.attempt \in Attempts
    BY <1>0, <2>1 DEF CommitUpdate, RowUnchanged, OpenTransaction, Rows
  <2>3. assessment' \in Assessments \cup {NoAssessment}
    BY <1>0, <2>1 DEF OpenTransaction
  <2> QED
    BY <2>1, <2>2, <2>3, CommitInvariant
<1>4. CASE WriteRetry(s)
  <2>1. /\ ~Idle(s) /\ ~IsCreate(s) /\ CommitUpdate(s, tx[s].snapshot.attempt + 1)
        /\ assessment' = NoAssessment /\ tx[s].op = "retryRelease"
    BY <1>4 DEF WriteRetry, Idle, IsCreate
  <2>2. /\ row.status = "ERROR"
        /\ row.attempt = tx[s].snapshot.attempt
        /\ row.attempt \in 0 .. MaxAttempt
        /\ row.attempt < MaxAttempt
    BY <1>0, <2>1 DEF CommitUpdate, RowUnchanged, OpenTransaction, SnapshotIsCurrent,
       Rows, Attempts
  <2>3. row.attempt + 1 \in Attempts
    BY <2>2 DEF Attempts
  <2>4. CommitUpdate(s, row.attempt + 1)
    BY <2>1, <2>2
  <2> QED
    BY <2>1, <2>2, <2>3, <2>4, CommitInvariant
<1> QED
  BY <1>1, <1>2, <1>3, <1>4 DEF Write

LEMMA NextInvariant == IInv /\ [Next]_vars => IInv'
<1> SUFFICES ASSUME IInv, [Next]_vars PROVE IInv'
  OBVIOUS
<1>1. ASSUME NEW s \in Sessions, Read(s) PROVE IInv'
  BY <1>1, ReadInvariant
<1>2. ASSUME NEW s \in Sessions, Write(s) PROVE IInv'
  BY <1>2, WriteInvariant
<1>3. ASSUME NEW s \in Sessions, Abort(s) PROVE IInv'
  <2>1. /\ Close(s) /\ UNCHANGED <<row, log, creators, accepted>>
        /\ assessment' = assessment
    BY <1>3 DEF Abort
  <2>2. /\ accepted' \in [Sessions -> Components \cup {NoComponent}]
        /\ assessment' \in Assessments \cup {NoAssessment}
        /\ AcceptedPayload'
    BY <2>1 DEF IInv, TypeOK, AcceptedPayload, RowExists
  <2> QED
    BY <2>1, <2>2, AbortInvariant
<1>4. ASSUME NEW content \in Assessments, UpsertAssessment(content) PROVE IInv'
  <2>1. UNCHANGED <<row, log, tx, creators, accepted>> /\ assessment' \in Assessments
    BY <1>4 DEF UpsertAssessment
  <2> QED
    BY <2>1 DEF IInv, TypeOK, RowExists, LogMatchesRow, LogIsAWalk, Follows, Entry,
       OpenTransaction, SnapshotIsCurrent, Idle, IsCreate, CreatorsExist,
       AtMostOneCreator, AcceptedPayload
<1>5. CASE UNCHANGED vars
  BY <1>5 DEF vars, IInv, TypeOK, RowExists, LogMatchesRow, LogIsAWalk, Follows, Entry,
     OpenTransaction, SnapshotIsCurrent, Idle, IsCreate, CreatorsExist,
     AtMostOneCreator, AcceptedPayload
<1> QED
  BY <1>1, <1>2, <1>3, <1>4, <1>5 DEF Next

\* IInv holds in every reachable state.
THEOREM Invariance == Spec => []IInv
<1>1. Init => IInv
  BY InitInvariant
<1>2. IInv /\ [Next]_vars => IInv'
  BY NextInvariant
<1> QED
  BY <1>1, <1>2, PTL DEF Spec

\* Rows, log, transactions and replies always have their types: in
\* particular no interleaving of retries carries the attempt past its bound.
THEOREM TypeCorrect == Spec => []TypeOK
<1>1. IInv => TypeOK
  BY DEF IInv
<1> QED
  BY <1>1, Invariance, PTL

\* The history of a release and its row agree, for any number of concurrent
\* transactions.
THEOREM HistoryIsFaithful == Spec => []LogMatchesRow
<1>1. IInv => LogMatchesRow
  BY DEF IInv
<1> QED
  BY <1>1, Invariance, PTL

\* And the history is one walk through the lifecycle.
THEOREM HistoryIsAWalk == Spec => []LogIsAWalk
<1>1. IInv => LogIsAWalk
  BY DEF IInv
<1> QED
  BY <1>1, Invariance, PTL

\* One idempotency key makes one release: one caller creates it.
THEOREM Idempotence == Spec => []AtMostOneCreator
<1>1. IInv => AtMostOneCreator
  BY DEF IInv
<1> QED
  BY <1>1, Invariance, PTL

\* Only callers with its payload are told that the release is theirs.
THEOREM OwnersNamedThePayload == Spec => []AcceptedPayload
<1>1. IInv => AcceptedPayload
  BY DEF IInv
<1> QED
  BY <1>1, Invariance, PTL

-----------------------------------------------------------------------------
\* What a commit of an update means for the store.
LEMMA CommitIsStoreStep ==
  ASSUME IInv, NEW s \in Sessions, ~Idle(s), ~IsCreate(s),
         NEW attempt \in Attempts, CommitUpdate(s, attempt)
  PROVE  /\ row.status = tx[s].snapshot.status /\ row.attempt \in Attempts
         /\ row'.status = tx[s].next /\ row'.attempt = attempt
         /\ IsValidTransition(row.status, tx[s].next)
BY DEF IInv, TypeOK, OpenTransaction, CommitUpdate, RowUnchanged, Rows

\* Every step of the transactions is one operation of the store or invisible
\* to its callers.
LEMMA StepImplementsStore == IInv /\ [Next]_vars => [Store!StoreNext]_(Store!storeVars)
<1> SUFFICES ASSUME IInv, [Next]_vars
             PROVE  [Store!StoreNext]_(Store!storeVars)
  OBVIOUS
<1> USE RepositoryAssumption DEF Store!storeVars
<1>0. row \in Rows /\ tx \in [Sessions -> Transactions]
  BY DEF IInv, TypeOK
<1>1. ASSUME NEW s \in Sessions, Read(s)
      PROVE  UNCHANGED <<row, assessment>>
  BY <1>1 DEF Read, ReadForCreate, ReadForTransition, ReadForFail, ReadForRetry, Open,
     ReturnExisting
<1>2. ASSUME NEW s \in Sessions, WriteCreate(s)
      PROVE  [Store!StoreNext]_(Store!storeVars)
  <2>1. CASE RowExists
    BY <1>2, <2>1 DEF WriteCreate, ReturnExisting
  <2>2. CASE ~RowExists
    <3>1. InsertRow(s) /\ IsCreate(s) /\ OpenTransaction(s)
      BY <1>2, <2>2 DEF WriteCreate, IInv
    <3>2. CASE tx[s].op = "createRelease"
      <4>1. Store!CreateRelease
        BY <1>0, <2>2, <3>1, <3>2 DEF Store!CreateRelease, Store!SetStatus, RowExists,
           InsertRow, OpenTransaction, IInv, LogMatchesRow, AbsentRow, Store!NoStatus, NoStatus
      <4> QED
        BY <4>1 DEF Store!StoreNext
    <3>3. CASE tx[s].op = "createQueuedRelease"
      <4>1. Store!CreateQueuedRelease
        BY <1>0, <2>2, <3>1, <3>3 DEF Store!CreateQueuedRelease, Store!SetStatus, RowExists,
           InsertRow, OpenTransaction, IInv, LogMatchesRow, AbsentRow, Store!NoStatus, NoStatus
      <4> QED
        BY <4>1 DEF Store!StoreNext
    <3> QED
      BY <3>1, <3>2, <3>3 DEF IsCreate
  <2> QED
    BY <2>1, <2>2
<1>3. ASSUME NEW s \in Sessions, WriteTransition(s)
      PROVE  Store!StoreNext
  <2>1. /\ ~Idle(s) /\ ~IsCreate(s) /\ CommitUpdate(s, row.attempt) /\ row.attempt \in Attempts
        /\ UNCHANGED assessment
        /\ <<tx[s].snapshot.status, tx[s].next>> \in TransitionArguments
    BY <1>0, <1>3 DEF WriteTransition, Idle, IsCreate, IInv, OpenTransaction, Rows
  <2>2. /\ row.status = tx[s].snapshot.status
        /\ row'.status = tx[s].next /\ row'.attempt = row.attempt
        /\ IsValidTransition(row.status, tx[s].next)
    BY <2>1, CommitIsStoreStep
  <2>3. Store!TransitionRelease(row.status, row.attempt, tx[s].next)
    BY <2>1, <2>2 DEF Store!TransitionRelease, Store!CanTransition, Store!SetStatus,
       Store!IsValidTransition, IsValidTransition, Store!AllowedTransitions,
       AllowedTransitions, Store!Statuses, Statuses, Store!NoStatus, NoStatus
  <2>4. /\ <<row.status, tx[s].next>> \in Store!TransitionArguments
        /\ row.attempt \in Store!Attempts
    BY <2>1, <2>2 DEF Store!TransitionArguments, TransitionArguments, Store!Attempts, Attempts,
       Store!Statuses, Statuses
  <2>5. PICK arguments \in Store!TransitionArguments : arguments = <<row.status, tx[s].next>>
    BY <2>4
  <2> QED
    BY <2>3, <2>4, <2>5 DEF Store!StoreNext
<1>4. ASSUME NEW s \in Sessions, WriteFail(s)
      PROVE  Store!StoreNext
  <2>1. /\ ~Idle(s) /\ ~IsCreate(s) /\ CommitUpdate(s, row.attempt) /\ row.attempt \in Attempts
        /\ assessment' = tx[s].assessment
        /\ tx[s].assessment \in Assessments
        /\ tx[s].snapshot.status \in ProcessingStatuses
        /\ tx[s].next = "ERROR"
    BY <1>0, <1>4 DEF WriteFail, Idle, IsCreate, IInv, OpenTransaction, Rows
  <2>2. /\ row.status = tx[s].snapshot.status
        /\ row'.status = "ERROR" /\ row'.attempt = row.attempt
        /\ IsValidTransition(row.status, "ERROR")
    BY <2>1, CommitIsStoreStep
  <2>3. Store!FailRelease(row.status, row.attempt, tx[s].assessment)
    BY <2>1, <2>2 DEF Store!FailRelease, Store!CanTransition, Store!SetStatus,
       Store!IsValidTransition, IsValidTransition, Store!AllowedTransitions,
       AllowedTransitions, Store!Statuses, Statuses, Store!NoStatus, NoStatus
  <2>4. row.status \in Store!ProcessingStatuses /\ row.attempt \in Store!Attempts
    BY <2>1, <2>2 DEF Store!ProcessingStatuses, ProcessingStatuses, Store!Attempts, Attempts
  <2> QED
    BY <2>1, <2>3, <2>4 DEF Store!StoreNext
<1>5. ASSUME NEW s \in Sessions, WriteRetry(s)
      PROVE  Store!StoreNext
  <2>1. /\ ~Idle(s) /\ ~IsCreate(s) /\ CommitUpdate(s, tx[s].snapshot.attempt + 1)
        /\ assessment' = NoAssessment /\ tx[s].op = "retryRelease"
        /\ tx[s].next = "QUEUED" /\ tx[s].snapshot.attempt < MaxAttempt
        /\ row.attempt = tx[s].snapshot.attempt
        /\ row.attempt \in 0 .. MaxAttempt /\ row.status = "ERROR"
    BY <1>0, <1>5 DEF WriteRetry, Idle, IsCreate, IInv, OpenTransaction, SnapshotIsCurrent,
       CommitUpdate, RowUnchanged, Rows, Attempts
  <2>2. row.attempt + 1 \in Attempts /\ CommitUpdate(s, row.attempt + 1)
    BY <2>1 DEF Attempts
  <2>3. row'.status = "QUEUED" /\ row'.attempt = row.attempt + 1
    BY <2>1, <2>2, CommitIsStoreStep
  <2>4. Store!RetryRelease
    BY <2>1, <2>3 DEF Store!RetryRelease
  <2> QED
    BY <2>4 DEF Store!StoreNext
<1>6. ASSUME NEW content \in Assessments, UpsertAssessment(content)
      PROVE  Store!StoreNext
  <2>1. Store!UpsertAssessment(content)
    BY <1>6 DEF UpsertAssessment, Store!UpsertAssessment, RowExists, Store!NoStatus, NoStatus
  <2> QED
    BY <2>1 DEF Store!StoreNext
<1>7. ASSUME NEW s \in Sessions, Abort(s)
      PROVE  UNCHANGED <<row, assessment>>
  BY <1>7 DEF Abort
<1>8. CASE UNCHANGED vars
  BY <1>8 DEF vars
<1> QED
  BY <1>1, <1>2, <1>3, <1>4, <1>5, <1>6, <1>7, <1>8 DEF Next, Write

\* The repository's transactions implement the one-step operations that
\* ReleaseStore promises and on which the model of the running system rests.
THEOREM Refinement == Spec => ImplementsStore
<1>1. Init => Store!StoreInit
  BY DEF Init, Store!StoreInit, AbsentRow, Store!NoStatus, NoStatus
<1>2. IInv /\ [Next]_vars => [Store!StoreNext]_(Store!storeVars)
  BY StepImplementsStore
<1> QED
  BY <1>1, <1>2, Invariance, PTL DEF Spec, ImplementsStore, Store!StoreSpec
=============================================================================
