----------------------------- MODULE EvidenceRun -----------------------------
(***************************************************************************)
(* runAndPersistChecks (release-processor.ts) with the real checks and the *)
(* local artifact store (local-artifact-store.ts): an attempt prepares its *)
(* rows, runs the checks and stores the evidence of each result: a file    *)
(* with the content, a file with the metadata and a row.  The job's next   *)
(* try starts over, also after the death of the runner.                    *)
(***************************************************************************)
EXTENDS TrustedChecks

CONSTANTS
  Tries,       \* how often the job is tried
  MaxFaults    \* how many calls of the store fail, and deaths, in all

ASSUME EvidenceAssumption == Tries \in Nat \ {0} /\ MaxFaults \in Nat

VARIABLES
  try,         \* the tries of the job so far
  next,        \* the result being persisted
  run,         \* the TestRun row of each test
  artifact,    \* the artifact row of each test: its id
  files,       \* the files on disk: an id and a part
  last,        \* the id of the last put
  unanswered,  \* rows whose commit was not answered
  disowned,    \* artifacts that lost their row or their owner
  faults

persistVars == <<next, run, artifact, files, last, unanswered, disowned>>
vars == <<checkVars, persistVars, try, faults>>

Parts == {"content", "metadata"}
NoArtifact == 0

PersistSteps == {"start", "put", "metadata", "row", "undo", "error", "complete"}

Steps ==
  {"contract"} \cup ApiSteps \cup BrowserSteps \cup PersistSteps \cup {"threw", "done"}

TypeOK ==
  /\ ChecksTypeOK
  /\ step \in Steps
  /\ try \in 1 .. Tries
  /\ next \in Nat
  /\ run \in [TestIds -> {"none", "RUNNING", "PASSED", "FAILED", "ERROR"}]
  /\ artifact \in [TestIds -> Nat]
  /\ files \subseteq Nat \X Parts
  /\ last \in Nat
  /\ unanswered \cup disowned \subseteq Nat
  /\ faults \in 0 .. MaxFaults

Init ==
  /\ ChecksInit
  /\ try = 1 /\ next = 1
  /\ run = [t \in TestIds |-> "none"]
  /\ artifact = [t \in TestIds |-> NoArtifact]
  /\ files = {}
  /\ last = 0 /\ unanswered = {} /\ disowned = {}
  /\ faults = 0

Fault == faults < MaxFaults /\ faults' = faults + 1

Stored == {artifact[t] : t \in TestIds} \ {NoArtifact}

FilesOf(i) == {part \in Parts : <<i, part>> \in files}

Test == results[next].id

-----------------------------------------------------------------------------
\* persistEvidence: start, put, complete, for one result after the other.
Persist == UNCHANGED <<candidate, results, apiVars, browserVars, answers, try>>

\* start takes a row of the same test again, without its artifact.
Start ==
  /\ GoOn("start", "put")
  /\ run' = [run EXCEPT ![Test] = "RUNNING"]
  /\ artifact' = [artifact EXCEPT ![Test] = NoArtifact]
  /\ disowned' = disowned \cup ({artifact[Test]} \ {NoArtifact})
  /\ Persist /\ UNCHANGED <<next, files, last, unanswered, faults>>

\* normalizeArtifact, the lookup of the run or mkdir throws: nothing is there
\* to take back.
PutRefused ==
  /\ GoOn("put", "error")
  /\ Fault
  /\ Persist /\ UNCHANGED persistVars

\* writeFile: a write that fails may leave its file.
Write(part, ok) ==
  \/ files' = files \cup {<<last', part>>}
  \/ ~ok /\ UNCHANGED files

WriteContent(ok) ==
  /\ step = "put" /\ step' = IF ok THEN "metadata" ELSE "undo"
  /\ last' = last + 1 /\ Write("content", ok)
  /\ Persist /\ UNCHANGED <<next, run, artifact, unanswered, disowned>>

WriteMetadata(ok) ==
  /\ step = "metadata" /\ step' = IF ok THEN "row" ELSE "undo"
  /\ last' = last /\ Write("metadata", ok)
  /\ Persist /\ UNCHANGED <<next, run, artifact, unanswered, disowned>>

CreateRow ==
  /\ GoOn("row", "complete")
  /\ artifact' = [artifact EXCEPT ![Test] = last]
  /\ Persist /\ UNCHANGED <<next, run, files, last, unanswered, disowned, faults>>

\* The commit fails, or succeeds and its answer is lost.
CreateRowThrows ==
  /\ GoOn("row", "undo")
  /\ \/ UNCHANGED <<artifact, unanswered>>
     \/ /\ artifact' = [artifact EXCEPT ![Test] = last]
        /\ unanswered' = unanswered \cup {last}
  /\ Fault
  /\ Persist /\ UNCHANGED <<next, run, files, last, disowned>>

\* A store that takes back its content only.
UndoContent ==
  /\ GoOn("undo", "error")
  /\ files' = files \ {<<last, "content">>}
  /\ Persist /\ UNCHANGED <<next, run, artifact, last, unanswered, disowned, faults>>

Undo ==
  /\ GoOn("undo", "error")
  /\ files' = files \ {<<last, part>> : part \in Parts}
  /\ Persist /\ UNCHANGED <<next, run, artifact, last, unanswered, disowned, faults>>

\* rm fails on one of the files, or on both.
UndoThrows ==
  /\ GoOn("undo", "error")
  /\ \E gone \in SUBSET Parts : files' = files \ {<<last, part>> : part \in gone}
  /\ disowned' = disowned \cup {last}
  /\ Fault
  /\ Persist /\ UNCHANGED <<next, run, artifact, last, unanswered>>

CompleteError ==
  /\ GoOn("error", "threw")
  /\ run' = [run EXCEPT ![Test] = "ERROR"]
  /\ Persist /\ UNCHANGED <<next, artifact, files, last, unanswered, disowned, faults>>

Complete ==
  /\ step = "complete" /\ step' = IF next = Len(results) THEN "done" ELSE "start"
  /\ run' = [run EXCEPT ![Test] = results[next].status]
  /\ next' = next + 1
  /\ Persist /\ UNCHANGED <<artifact, files, last, unanswered, disowned, faults>>

\* A call on the TestRun rows throws; whether it took effect does not matter,
\* for a throw ends the try.
RunThrows ==
  /\ step \in {"start", "error", "complete"} /\ step' = "threw"
  /\ Fault
  /\ Persist /\ UNCHANGED persistVars

PersistStep ==
  \/ Start \/ PutRefused \/ CreateRow \/ CreateRowThrows
  \/ (WriteContent(TRUE) \/ WriteMetadata(TRUE)) /\ UNCHANGED faults
  \/ (WriteContent(FALSE) \/ WriteMetadata(FALSE)) /\ Fault
  \/ Undo \/ UndoThrows \/ CompleteError \/ Complete \/ RunThrows

-----------------------------------------------------------------------------
\* BullMQ tries the job again; prepareAttempt removes the rows of the last try.
\* The files stay.
Prepare ==
  /\ step = "threw" /\ try < Tries
  /\ try' = try + 1 /\ step' = "contract"
  /\ results' = <<>> /\ answers' = {} /\ next' = 1
  /\ fetch' = "none" /\ timer' = "off"
  /\ page' = "none" /\ seen' = NothingSeen /\ shot' = "none"
  /\ run' = [t \in TestIds |-> "none"]
  /\ artifact' = [t \in TestIds |-> NoArtifact]
  /\ disowned' = disowned \cup Stored
  /\ UNCHANGED <<candidate, browser, files, last, unanswered, faults>>

PrepareThrows ==
  /\ step = "threw" /\ try < Tries /\ try' = try + 1
  /\ Fault
  /\ UNCHANGED <<checkVars, persistVars>>

\* The runner dies with its browser; the job stalls and is tried again.
Die ==
  /\ step \notin {"threw", "done"} /\ step' = "threw"
  /\ Fault
  /\ browser' = "closed"
  /\ disowned' = disowned \cup (IF step \in {"metadata", "row", "undo"} THEN {last} ELSE {})
  /\ UNCHANGED <<candidate, results, apiVars, page, seen, shot, answers, try, next, run,
                 artifact, files, last, unanswered>>

Stop == step \in {"threw", "done"} /\ (step = "threw" => try = Tries) /\ UNCHANGED vars

Next ==
  \/ (Check \/ Surroundings) /\ UNCHANGED <<persistVars, try, faults>>
  \/ PersistStep \/ Prepare \/ PrepareThrows \/ Die \/ Stop

Spec == Init /\ [][Next]_vars

\* Playwright's calls and those of the store settle, timers fire, jobs are
\* tried again.  Pricing owes no answer, and an aborted request no end.
Fairness ==
  /\ WF_vars((ContractCheck \/ SendRequest \/ TimerFires \/ BrowserCheck)
               /\ UNCHANGED <<persistVars, try, faults>>)
  /\ WF_vars(PersistStep) /\ WF_vars(Prepare)

FairSpec == Spec /\ Fairness

-----------------------------------------------------------------------------
\* A row refers to files that are there and whole, so that get() finds them,
\* whichever call failed and whenever the runner died, unless the answer of the
\* row's commit was lost; and a file belongs to a row, to the put in progress,
\* or to one whose owner died, lost its row or could not remove it
\* (local-artifact-store.ts:79-106).
FilesFollowRows ==
  /\ \A i \in Stored : FilesOf(i) = Parts \/ i \in unanswered
  /\ \A file \in files :
       \/ file[1] \in Stored \cup disowned
       \/ file[1] = last /\ step \in {"metadata", "row", "undo"}

\* An attempt comes to an end even if Pricing keeps silent, in front of its
\* headers or in the middle of its body (api-check.ts:137-153).
ChecksEnd == <>[](step = "done" \/ (step = "threw" /\ try = Tries))
=============================================================================
