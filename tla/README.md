# ReleaseMesh: specifications, model checks and proofs

ReleaseMesh decides whether a candidate version of a Pricing service may be
released. A user submits a candidate in the release UI; the control plane
writes a release row and puts one job on a BullMQ queue; a runner takes the
job, runs the trusted checks, stores their evidence and moves the release to
SAFE, BLOCKED or ERROR by a deterministic gate. A release in ERROR can be
retried, which makes a new *attempt* of the same release.

Every step of that path is an `await` on PostgreSQL or Redis, and nothing but
conditional updates, one job id and one lease keeps the processes apart. The
modules in this directory are about exactly that: what the release, its
evidence, its job and the page that shows it look like when requests, runners,
event handlers, recovery sweeps and a user overtake each other, fail or die
between two awaits. Around that core are the parts that keep it going and show
it: the runner as a process, the demo reset, the shell and the catalogue page.

Line numbers below are those of the repository at the modelled commit; the
complete correspondence, definition by definition, is the `map` of
`PROJECT.json`.

## 1. Inventory

| component (source) | state it keeps | operations | what is hard | what makes it correct |
|---|---|---|---|---|
| lifecycle table (`packages/contracts/src/release-lifecycle.ts`) | none | `isValidTransition`, `assertTransition` | every writer relies on it | no way out of SAFE or BLOCKED, one way out of ERROR |
| gate (`packages/contracts/src/release-gate.ts`), registry (`services/runner-worker/src/test-registry.ts`) | none | `resolveTrustedTests`, `decideReleaseGate` | repeated, missing, foreign results; runs cut short by a crash | ERROR unless all evidence is there, SAFE only if all of it is good, mandatory tests always run |
| release repository (`packages/database/src/repositories/release-repository.ts`) | release row, transition log, unique key | `createRelease`, `createQueuedRelease`, `transitionRelease`, `failRelease`, `retryRelease` | transactions that race for one row or one key | log and row agree, one creator per key, no lost update |
| risk-assessment repository | one assessment row per release | `upsert`, `loadEvidence` | the upsert is not fenced by the attempt | the assessment explains the verdict next to it |
| test-run repository, PostgreSQL artifact store | TestRun and EvidenceArtifact rows per attempt | `prepareAttempt`, `start`, `put`, `complete`, `loadAttemptSummary` | none is fenced by who owns the job | a verdict is what its durable evidence says |
| release processor (`services/runner-worker/src/release-processor.ts`) | results in memory | `process(job)` | crash and resumption in every status; partial evidence | see the gate; one processor at a time |
| release queue (`services/runner-worker/src/queues/release-queue.ts`) | one BullMQ job per release id; a Redis key with a lease | `enqueue`, `getJob`, `removeTerminalJob`, `withReleaseLock`, `reconcileQueuedReleases` | adding under a taken id is a silent no-op; removal goes by id; a lease can run out under its holder | a job somebody waits for is kept; the lock is freed |
| handlers and sweeps (`services/runner-worker/src/index.ts`, `recovery.ts`) | none | `completed`, `failed`, `persistExhaustedFailure`, two sweeps on a timer | run beside everything else, unlocked in parts, and nobody repeats them | no release is stranded |
| release orchestrator (`services/control-plane-api/src/release-orchestrator.ts`) | none | `submitRelease`, `retryRelease` | commit, then enqueue: two systems, no transaction | a committed release is worked on or visibly failed |
| release UI (`apps/release-mfe/src/ReleaseApp.tsx`, `idempotency.ts`, `api.ts`) | screen, request generation, pending keys in memory and in sessionStorage | four buttons, polling with a deadline | answers that are late, lost or of a superseded call | shows one attempt consistently, never makes two releases of one submission |
| risk engine (`packages/risk-engine/src`) | the request in flight and its timer | planning and analysis by a language model, with fallbacks | headers in time and a body that never comes, refusals beside a text, malformed output | may add tests, never decides; explains with evidence it was given; ends |
| trusted checks (`services/runner-worker/src/checks`), fixtures (`fixtures/pricing`, `fixtures/checkout`) | a request and its timer; a browser and its page | contract diff, API check, browser check | the request stalls; the page renders between two looks at it | the three agree; a check ends; the screenshot shows what was judged |
| local artifact store (`packages/database/src/artifacts/local-artifact-store.ts`), policy | two files and a row per artifact | `put`, `get` | any of the steps fails, or the process dies | a row has its files, and the other way round |
| demo reset (`demo-reset-service.ts`, `reset-demo.ts`) | the queue's `paused` flag | `reset` | everything else goes on meanwhile; a step throws | nobody works while the database is replaced; the queue comes back; nothing hangs |
| runner runtime and heartbeat (`services/runner-worker/src/index.ts`, `heartbeat.ts`), health service (`health-service.ts`) | two timers, two chains of promises, a heartbeat row | start, `record`, sweeps, `close`; `getHealth` | slow and failing heartbeats, a report that takes time, the order of `close` | alive is fresh, dead is reported, what `close` waits for is over before the connections go |
| catalogue (`catalog-repository.ts`, `seed.ts`, `routes/components.ts`, `apps/catalog-mfe`) | reference rows; the page's state | lists, a component by its id | a reset between two requests of one page | the components shown are of one seed |
| shell (`apps/shell`) | a slot and a boundary per remote | loading and rendering two remotes | either remote fails in its own way | the other one is shown |
| routes and server, config, telemetry, shared UI | none | | | see section 8 |

How they interact: UI → routes → orchestrator by HTTP; the orchestrator, the
processor, the handlers and the sweeps share the database; the orchestrator
and the runner share the job (whose id is the release id, so attempts reuse
it) and the release lock; BullMQ calls the processor and then the handlers
back in the worker that ran the job. The demo reset acts on the queue and on
the whole database from the API; the runner tells the API that it is alive
through one row; the shell hosts the release page and the catalogue page.

## 2. Modules

| module | of | extends / uses |
|---|---|---|
| `ReleaseLifecycle` | the transition table | |
| `ReleaseStore` | abstract specification of the database's release: each repository operation is one step | `ReleaseLifecycle` |
| `ReleaseRepository` | the same operations as read and write halves of transactions | `ReleaseLifecycle`; implements `ReleaseStore` |
| `ReleaseGate` | registry selection, summary of durable runs, gate: operators only | |
| `ReleaseQueue` | the job and the lock | |
| `ReleaseProcessor` | `process()` await by await, the evidence rows | `ReleaseStore`, `ReleaseGate`, `ReleaseQueue` |
| `ReleaseMesh` | the whole back end: requests, workers, handlers, sweeps, faults | `ReleaseProcessor`; implements `ReleaseStore` |
| `RiskEngine` | one attempt as the language model sees it: plan, verdict, analysis, stored assessment | `ReleaseGate` |
| `ReleaseApp` | the page in the browser | `ReleaseLifecycle` |
| `PricingContract` | contracts, documents, the diff: operators only | |
| `TrustedChecks` | the three checks await by await, Pricing and the Checkout page | `ReleaseGate`, `PricingContract` |
| `EvidenceRun` | an attempt with these checks and the local artifact store | `TrustedChecks` |
| `DemoReset` | the reset beside submissions, workers, handlers and sweeps | |
| `RunnerHost` | the runner as a process, its heartbeat, the health report | |
| `Catalogue` | the catalogue page, its requests, the seed | |
| `Shell` | the shell and the loading of its remotes | `Catalogue` |
| `MC…` | the instances TLC checks | one each |
| `…Proofs` | theorems and their proofs | the module named, and TLAPS; `ReleaseMeshProofs` also has the theorems of `ReleaseStore`, and both it and `RiskEngineProofs` use the lemmas of `ReleaseGateProofs`; `ReleaseAppProofs` is also about the catalogue page in the `Shell` |

### ReleaseStore and ReleaseRepository

`release` is the row's status and attempt, `assessment` the RiskAssessment
row. `CanTransition(status, attempt, next)` is the `WHERE` that every update
carries: the status and the attempt the caller expects, and a transition the
table allows. `FailRelease` writes the assessment of the failure in the same
transaction, `RetryRelease` deletes the assessment and counts the attempt up,
`UpsertAssessment` names the release only.

`ReleaseRepository` splits each operation where PostgreSQL lets others in:
`Read(s)` is the `findFirst`/`findUnique` at the top, `Write(s)` the rest, and
`Abort(s)` anything that rolls back. `RowUnchanged` is the `WHERE` of
`updateMany` (version, status and, except in a retry, attempt), `CommitUpdate` its data and the
row appended to the log. `WriteCreate` has the P2002 branch of two
submissions with one key. The property `ImplementsStore` says that these
interleaved halves are `ReleaseStore` steps: this is why the larger modules
may use the one-step store.

### ReleaseGate

`ResolveTrustedTests` is the registry's closure over what the planner named,
`SelectTrustedTests` the processor's use of it when planning fails. `Among` is
the filter that keeps the registry's order; it is a recursive function, since
the proofs expand it place by place.
`SummaryOf` is what `loadAttemptSummary` makes of a durable run (a RUNNING or
ERROR run counts as failed and without evidence), `GateOf` is
`decideReleaseGate` on such summaries.

### ReleaseQueue

One job: attempt in its data, BullMQ state, attempts made, stalls, and the
worker that holds its BullMQ lock. `Enqueue` under a taken id does nothing.
`RemoveJob` takes whatever has the id and refuses only a job that is locked.
`AcquireLock`/`ReleaseLock` are `SET NX PX` and the compare-and-delete script;
`Orphan` is a key whose holder died, which `ExpireOrphanedLock` frees, and
`ExpireHeldLock` is a lease that runs out under a holder that goes on.
Fetching, delaying, promoting and the stalled-job checker
(`maxStalledCount` 1) are BullMQ's and marked external.

### ReleaseProcessor

`worker[w].pc` is the await the worker is at:

```
find → toTesting → prepare → start → put → complete → … → toAnalyzing → upsert → toGate → return
                                      ↘ completeError → throw
find → summary → upsert → toGate → return         (a job resumed in ANALYZING)
```

`Find` picks the entry by the status it reads (QUEUED, TESTING or ANALYZING)
and throws on any other. `PrepareAndCheck` is `prepareAttempt` followed by the
checks, which touch nothing shared; their outcomes are chosen from what each
check can answer. `breaking` says whether the candidate breaks its contract:
the contract check finds that out, the other checks may pass or fail. The
verdict of an uninterrupted attempt comes from memory, that of a resumed one
from the durable rows, as in the code.

### ReleaseMesh

`proc` holds every call outside the processors: a slot per concurrent API
request, one event handler per worker, and two sweeps per sweeping worker. A
call runs through `acquire → read → getJob → getState → fail → removeGet →
removeState → remove → retry → enqueue → release`, each only as far as its
code does; `release` is the `finally` of `withReleaseLock`. `removeTerminalJob` is three
steps (`getJob`, `getState`, `remove`), since it is three commands.

Faults are actions with a budget: a runner or an API process dies (`crash`,
`apiCrash`: memory is gone, the job's lock and the release lock are
orphaned), a live worker loses its job's lock (`lockLoss`), a lease runs out
under its holder (`lease`), a database or Redis call throws (`call`),
`enqueue` throws whether or not Redis has added the job (`enqueue`), Redis
loses its data (`redis`).

### RiskEngine

Where `ReleaseProcessor` lets the planner answer anything, this module has the
code behind the two ports. `call` and `response` are one run of
`requestStructuredOutput`: `fetching`, then `reading` the body, `aborted` if
the timer fires meanwhile, and `closed` with a `reply` or `Failed`. The timer
is not cleared by the race with `fetch`, only when the request is over, so it
also bounds the body. A text is known by the ids it names; `Malformed` stands
for every text that breaks a schema (wrong shape, blank or overlong strings,
more than 20 entries). `PlanReleaseTests` and `AnalyzeRisk` are the parsers
with their fallbacks; `row` is the assessment in the database, which
`EndAnalysis`, `FailRelease` and `RetryRelease` write and
`ToRiskAssessmentView` accepts or rejects. `TryAgain` is the next try of the
job, which resumes if the tests were done. The artifacts of an attempt are any
subset of its tests, since other workers may delete and add some.

### ReleaseApp

Each click begins a call with a *generation* of its own and supersedes the one
before (`beginRequest`). `calls[g]` is where that call is and the answer under
way to it; `screen` is the React state; `pending` and `stored` are the two
places of the idempotency key, of which `Remount` (the page is left and opened
again) keeps the second. An abort ends polling at once; any other superseded
call waits for its request and is stopped by the comparison of generations,
which is what the code relies on when a client ignores the abort. The control
plane is reduced to one release per key that moves on by itself; `Loses` is a
`TypeError` or a 5xx, after which the request may still be handled (`adrift`,
`HandleLate`), and `IsRejected` a 4xx.

### PricingContract, TrustedChecks, EvidenceRun

`ReleaseProcessor` has the checks as one step with an outcome; these modules
open that step. `Compatible` is `diffContract` between v1 and the candidate,
`MissingInPayload` what both the API check and the Checkout page test of a
payload, so one can ask whether the diff of two declarations says what a
consumer meets (`CompatibleIsSubtyping` proves it of any two contracts).
`fetch` and `timer` are the two promises of the API check's race: the loser
goes on (`AbortedRequestEnds`). The page of the browser check makes a request
of its own, and `PageRenders` may come between any two of the check's awaits.
`answers` remembers what Pricing has answered in this attempt, since the
checks can only agree if Pricing does.

`EvidenceRun` is `runAndPersistChecks` and `LocalArtifactStore.put`: content,
metadata, row, and on any failure the removal of both files. `last` names the
files of the put in progress; `disowned` are the artifacts whose row was
deleted by the next try, whose owner died or whose removal failed, and whose
files therefore stay for good; `unanswered` are rows whose commit succeeded
although the client was told otherwise. `artifact-store.ts` of the runner
selects this store or the PostgreSQL one, which `ReleaseProcessor` has.

### DemoReset

`stage[x]` is the await of `reset()` a request is at; from `count` to
`database` it is inside the `try`, and `resume` is the `finally`. Every release
has its own job, submission, handler and sweep, each reduced to what a reset
can get in the way of; `ReleaseMesh` has them in full. An erased row stays
`erased`: the database gives out no id twice, and a submission that looked its
candidate up before the erasure is refused by a foreign key.

### RunnerHost

Time passes in ticks and a moment is known by its age, so that the model is
finite. `phase` is the await of `startRunnerRuntime` or of `close`; `waiting`
and `beat` are the chain `pending.then(...)` of the heartbeat, `sweep` and
`tasks` that of the sweeps. `Tick` is not enabled while something due has not
happened: this is how the limits `WriteTime` and `CheckTime` enter, instead of
fairness. `HostAssumption` is the inequality under which a working runner can
be reported fresh at all; with the defaults of the code (10 s, 30 s) it allows
one miss and leaves 10 s for the write, the check and the clocks together. One row stands
for all workers', since `findLatest` takes the latest; the write of a process
killed meanwhile may still land (`Exit`). `handling` says that a handler of the
worker's events is in progress: the end of a job, or a stall without one, starts it,
and no step of `close` waits for it, since `index.ts:70-80` awaits nothing.

### Catalogue and Shell

An id is known by the seed that made it. `fetches[n]` is one run of
`loadCatalog`, of which StrictMode starts two and only the second may set the
state; lists and components are separate requests, and what Prisma `include`s
is read by separate statements, so a reset fits between any two. `page` keeps the seed
of the components and that of the dependencies, which may differ (section 7). `Shell` adds
the way a remote takes: configuration, registration and module, slot,
boundary. `site` says what is wrong with each remote.

## 3. Runs

All times are with two TLC workers.

| run | instance | properties | result |
|---|---|---|---|
| `mc_repository` | 2 sessions, 2 payloads, 2 retries, symmetry | `TypeOK`, `LogMatchesRow`, `LogIsAWalk`, `AtMostOneCreator`, `AcceptedPayload`, `ImplementsStore` | hold, 65 thousand states, 35 s |
| `verdict` | 3 registered tests (2 mandatory) and a foreign id, texts that name up to 2 ids, results up to length 3, any number of tries and retries | `PlannerOnlyAdds`, `VerdictIsJustified`, `AssessmentIsGrounded`, `AssessmentIsShown`, `RequestsEnd` | hold, 136 thousand states, 20 s |
| `mesh_attempt` | 2 workers, 2 tests, breaking and sound candidate, a crash or a call that throws | `GateBackedByEvidence`, `AssessmentExplainsVerdict`, `OneProcessorAtATime` | hold, 555 thousand states, 100 s |
| `mesh_retry` | 2 workers, 1 test, 1 retry, one of: an enqueue that throws, an API crash, a worker crash | `MeshTypeOK`, `AnalyzingIsCarriedOn`, `NeededJobIsKept` | hold, 798 thousand states, 60 s |
| `mesh_zombie` | 2 workers, 2 tests, any two of: crash, lost job lock, expired lease, lost Redis | `SafeIsCompatible`, `VerdictIsFinal` | hold, 238 thousand states, 26 s |
| `mesh_live` | 1 worker with its sweeps, any one fault of: crash, lost Redis, enqueue that throws, API crash | `QueuedAndTestingAreLeft`, `RetryIsUnblocked`, `LockIsFreedAgain`, `SettledUnlessFaults` | hold, 62 thousand states, 140 s |
| `ui` | 1 candidate, 3 clicks after an optional lost submission, 1 retry | `NoReleaseIsForgotten`, `EvidenceIsOfShownAttempt`, `ShownNeverGoesBack`, `CallsEnd` | hold, 82 thousand states, 50 s |
| `reset` | 1 release, 2 resets, one fault each of: a failing call (an enqueue that throws after adding included), a failing pause or resume, the death of the API | `IdleWhenReset`, `QueueComesBack`, `NothingLingers` | hold, 33 thousand states, 11 s |
| `evidence` | v1, v2 and v2.1, three stray documents, 3 tries, 2 faults | `ChecksAgree`, `ResultsAreOutcomes`, `ScreenshotShowsVerdict`, `FilesFollowRows`, `ChecksEnd` | hold, 134 thousand states, 7 s |
| `runner` | interval 1, writes up to 2, 1 miss, checks up to 1, clocks 1 apart, time to live 8 | `AliveIsFresh`, `QuietAfterClose`, `DeadIsReported` | hold, 3.4 million states, 100 s |
| `shell` | 2 remotes, StrictMode, 2 seeds | `ComponentsBelongTogether`, `RemotesAreIndependent` | hold, 233 thousand states, 90 s |
| `stranded_analyzing` | 1 worker, 2 crashes | `AnalyzingIsLeft` | violated: finding 1 |

What they show:

- **The database tells one story.** `LogMatchesRow`, `LogIsAWalk`,
  `AtMostOneCreator` and `AcceptedPayload` hold of racing transactions, and
  `ImplementsStore` lets everything else treat an operation as one step.
- **A verdict is earned.** In an attempt that is resumed after a crash,
  repeated by the queue or hit by a failing call, SAFE and BLOCKED are what the gate
  says of the evidence in the database (`GateBackedByEvidence`) and the
  assessment explains that very verdict (`AssessmentExplainsVerdict`). This
  holds as long as no live worker loses the lock of its job; section 7
  shows what happens otherwise. Even then no breaking
  candidate is called SAFE and no verdict is left again (`SafeIsCompatible`,
  `VerdictIsFinal`).
- **The language model cannot do harm.** Whatever it answers, late, refused,
  malformed or never, every mandatory test runs (`PlannerOnlyAdds`), the
  verdict is that of the tests (`VerdictIsJustified`), the stored explanation
  links to supplied evidence only (`AssessmentIsGrounded`), the control plane
  can show it even when the attempt fails after its analysis was stored
  (`AssessmentIsShown`), and no request holds a release up for ever
  (`RequestsEnd`).
- **One processor.** With the release id as job id, checks of one release
  never run twice at the same time (`OneProcessorAtATime`, same proviso).
- **One crash is harmless.** A release in ANALYZING, which only its job can take
  further, has that job, of its attempt and still to be worked on
  (`AnalyzingIsCarriedOn`): a stall is forgiven once, and a crash costs no more.
  A second crash is not forgiven: see section 7.
- **Clean-up does no harm.** Although it looks at the job in three steps, no
  clean-up takes the job an unsettled release waits for (`NeededJobIsKept`).
- **Nothing gets stuck** except in ANALYZING: `QueuedAndTestingAreLeft`,
  `RetryIsUnblocked`, `LockIsFreedAgain`, and without faults every submitted
  release is settled (`SettledUnlessFaults`).
- **The page is honest.** It does not go back to an earlier attempt or status,
  does not put evidence of an earlier attempt next to a gate, repeats a
  submission with the key of the one whose answer was lost, and ends every
  call it begins.
- **The checks agree.** What the contract diff says of two declarations is what
  the API check and the Checkout page meet (`ChecksAgree`); the results of the three
  are always among those `ReleaseProcessor` takes the checks to have in one step
  (`ResultsAreOutcomes`), so what holds of the mesh holds with these checks; the picture kept as
  evidence shows what was judged although the page renders beside the check
  (`ScreenshotShowsVerdict`), and a Pricing service that keeps silent anywhere
  does not hold the attempt up (`ChecksEnd`).
- **Files and rows agree** whichever call of the local store fails and whenever
  the runner dies, up to files whose owner is gone (`FilesFollowRows`).
- **The demo reset is safe while it is alone.** Nobody works on a release while
  the database is replaced (`IdleWhenReset`), the queue is given back whatever
  step throws (`QueueComesBack`), and what others add meanwhile clears up by
  itself (`NothingLingers`).
- **Health tells the truth.** A working runner is not reported stale
  (`AliveIsFresh`), a dead one not fresh (`DeadIsReported`), within the stated
  limits. When `close` reaches the queue and the database, the job, heartbeats
  and sweeps are over (`QuietAfterClose`); event handlers need not be (section 7).
- **One remote does not take another with it** (`RemotesAreIndependent`), and
  the components the catalogue page shows are of one seed, its dependencies of that
  one or an earlier one (`ComponentsBelongTogether`).

## 4. Bounds, and why they are enough

- **One release.** Jobs, locks, rows, evidence and assessments are all keyed by
  the release; two releases share nothing but workers. A worker busy with
  another release is one that does not take a step.
- **Two workers.** The races are between pairs: an owner and a latecomer, a
  handler and a sweep. `Sweepers` names the workers whose sweeps are modelled;
  one set of sweeps already runs beside two workers and their handlers.
- **`JobAttempts` = 2**, 3 in the code. Both values have a first attempt that is
  delayed and a last one that exhausts the job; nothing depends on the number
  of attempts between.
- **`MaxAttempt`** bounds the retries: 1 lets an old attempt's job, handler and
  worker meet a new attempt. Where it is 0 the properties are about one attempt.
- **`Budget` and `KindsOfFault`** bound the faults, so that every run can list
  all interleavings of the faults it allows with everything else.
- **One handler per worker at a time.** A worker's next event waits for the
  handler of the one before. In the code both could be in progress; they are
  then about different jobs of the release, and two handlers of different
  workers do interleave.
- **Evidence operations are atomic.** `prepareAttempt`, `start`, `put` and
  `complete` are single statements or transactions; the interleaving modelled
  is between them. `RunIds` are reused once no row and no worker has them,
  which is not observable.
- **Durations** (backoff, age limits of the sweeps, lease length, polling
  interval) are abstracted to "some time later".
- **Texts of the model** name up to 2 ids, which is enough to repeat one, to
  mix a foreign one with a trusted one, and to name none; responses have up
  to 2 parts, so a refusal comes before, after or instead of a text. A third
  result lets a list have the right length with one test missing.
- **The page:** one candidate, since each candidate has its own entry in both
  key stores and the screen shows one release; three clicks, with an earlier
  lost submission in the initial state, which is the shortest way to have
  two calls in flight about a release the page was told of before; QUEUED
  apart from TESTING and ANALYZING, SAFE standing for BLOCKED too.

- **Reset:** one release, since a step of one release never looks at another
  one except in the count; two resets, so that the second meets what the first
  left behind. `Overlap` is FALSE: see section 7.
- **Evidence:** 3 tries give a try whose predecessor was cut short twice; 2
  faults let an undo fail after a failed write, or a death follow a lost
  answer. The stray documents lack a field, have one of the wrong type, or are
  no object.
- **Runner:** ticks are chosen so that a write may outlast the interval, which
  makes heartbeats queue up, and the limits use the whole time to live: one
  tick less and `HostAssumption` is FALSE.
- **Shell:** two seeds make one reset, of which the second run of an effect may
  see a part; each remote is one of fine, unconfigured, broken, throwing.

`CHECK_DEADLOCK FALSE` is set where the system may stop: a release is settled
and its job removed, everything there is to load has been loaded, or the page waits for a user whose clicks are used up.

## 5. Fairness

`ReleaseMesh!Fairness` is weak fairness of each worker's own steps, of each
call in progress and each sweep, of BullMQ's timers (promotion and the
stalled-job checker) and of the expiry of a lease nobody renews. The code
justifies each: `worker.run()` and the `setInterval` sweeps of `index.ts` run
as long as the process does, the runner is restarted by its supervisor, pending
promises settle because PostgreSQL and Redis clients answer or reject, and a
Redis key with `PX` expires. No fairness is assumed of submissions, of
retries or of faults. A sweep may start at any moment, so weak fairness of `Advance(p)`
is enough for it to run again and again while its status is there.

`RiskEngine!Fairness` is weak fairness of the timer and of the rejection an
abort causes (`setTimeout` fires, and the body of an aborted `fetch` rejects),
and of the worker's steps after a request. Nothing is assumed of the network.

`ReleaseApp!Fairness` is weak fairness of each call (its request settles, its
continuation runs) and of the polling deadline, a `setTimeout`. That a request
settles is an assumption about the browser and the server: `createRelease`,
`retryRelease` and `listArtifacts` have no deadline of their own
(`api.ts:113`). Nobody owes the page a click, and the control plane owes it
no progress.

`DemoReset!Fairness` is weak fairness of the awaits of a reset in progress, of
a submission that has committed, of workers and of sweeps, for the reasons
above, and strong fairness of the handlers: the failed handler polls for a lock
that the reconciler holds now and then, for an instant. Nobody owes a reset or a
submission. `EvidenceRun!Fairness` is weak fairness of the checks' own steps
and timer, of the store's calls and of the next try; Pricing owes no answer and
an aborted request no end. `Shell!Fairness` is weak fairness of each request,
which is answered or fails, and of rendering. `RunnerHost` assumes none.

## 6. What is proved

All theorems hold for every value of the constants that satisfies the named
assumptions: any number of sessions, workers, requests, retries, tests and
faults. `MaxAttempt` is an arbitrary natural number in every module that has one.
Where a theorem holds without some fault only, the fault's budget is 0 in its
statement and the table says so.

| theorem | says |
|---|---|
| `ReleaseMeshProofs!StoreTypeCorrect` | the abstract store is type correct |
| `ReleaseMeshProofs!VerdictsAreFinal` | no operation changes a release that is SAFE or BLOCKED |
| `ReleaseMeshProofs!AttemptsCountRetries` | the attempt moves by one, exactly when an ERROR release is queued again |
| `ReleaseRepositoryProofs!TypeCorrect` | `TypeOK` |
| `ReleaseRepositoryProofs!Invariance` | `IInv`, the inductive invariant of the repository |
| `ReleaseRepositoryProofs!HistoryIsFaithful`, `HistoryIsAWalk` | `LogMatchesRow`, `LogIsAWalk` |
| `ReleaseRepositoryProofs!Idempotence`, `OwnersNamedThePayload` | `AtMostOneCreator`, `AcceptedPayload` |
| `ReleaseRepositoryProofs!Refinement` | interleaved transactions implement `ReleaseStore` |
| `ReleaseGateProofs!GateNeedsEveryTest` | a gate other than ERROR has every expected test among its results |
| `ReleaseGateProofs!SafeNeedsEveryPass` | SAFE means the checks were completed with complete evidence, every expected test has exactly one result, that result is PASSED, and none was incompatible |
| `ReleaseGateProofs!SelectionIsSound` | whatever the planner names, the selection has every mandatory test, only registered ones, none twice |
| `ReleaseGateProofs!GateIsJustified` | the verdict is ERROR, BLOCKED or SAFE exactly as missing, unclean or complete clean results call for it |
| `ReleaseMeshProofs!MeshTypeCorrect` | `MeshTypeOK`, through every fault |
| `ReleaseMeshProofs!MeshImplementsStore` | the running system changes the release only by operations of the store |
| `ReleaseMeshProofs!MeshVerdictsAreFinal` | so verdicts are final in it, through every fault |
| `ReleaseMeshProofs!MeshAttemptsCountRetries` | and its attempt number counts the retries |
| `ReleaseMeshProofs!ProcessorsAreAlone` | `OneProcessorAtATime`, if no job lock is lost and Redis keeps its data |
| `ReleaseMeshProofs!VerdictsAreBacked` | `GateBackedByEvidence`, under the same condition |
| `ReleaseMeshProofs!AssessmentsExplainVerdicts` | `AssessmentExplainsVerdict`, under the same condition |
| `ReleaseMeshProofs!SafeIsNeverBreaking` | `SafeIsCompatible`, through every fault |
| `ReleaseMeshProofs!AnalyzingEndsInVerdict` | a release in ANALYZING has complete evidence, and a processor that returns leaves a verdict, under the same condition |
| `ReleaseMeshProofs!LockedCallsAreAlone` | calls under the release lock exclude each other, if no lease runs out under its holder and Redis keeps its data |
| `ReleaseMeshProofs!NeededJobsAreKept` | `NeededJobIsKept`, if neither lock is lost and Redis keeps its data |
| `ReleaseMeshProofs!AnalyzingGoesOn` | `AnalyzingIsCarriedOn`, if besides no call fails and workers die at most `MaxStalls` times |
| `ReleaseAppProofs!AppTypeCorrect` | the page is type correct |
| `ReleaseAppProofs!EvidenceIsNotOutdated` | `EvidenceIsOfShownAttempt` |
| `ReleaseAppProofs!ShownOnlyMovesOn` | `ShownNeverGoesBack` |
| `ReleaseAppProofs!SubmissionsAreRepeated` | `NoReleaseIsForgotten` |
| `ReleaseAppProofs!ComponentsAreOfOneSeed` | `ComponentsBelongTogether`, for any number of seeds |
| `RiskEngineProofs!PlannersOnlyAdd` | `PlannerOnlyAdds`, for any answer of the endpoint |
| `RiskEngineProofs!VerdictsAreJustified` | `VerdictIsJustified`, also for a job that was cut short and resumed |
| `RiskEngineProofs!AssessmentsAreGrounded` | `AssessmentIsGrounded`, the model's and the fallback |
| `RiskEngineProofs!AssessmentsAreShown` | `AssessmentIsShown` |
| `RiskEngineProofs!GptAssessmentsAreQuoted` | the GPT-5.6 part of `AssessmentIsGrounded` |
| `DemoResetProofs!TypesHold`, `ResetIsExclusive` | types; `IdleWhenReset`, if resets do not overlap |
| `EvidenceRunProofs!CompatibleIsSubtyping` | `diffContract` calls two contracts compatible exactly if every document of the one serves the other |
| `EvidenceRunProofs!ResultsAreOutcomesAlways` | `ResultsAreOutcomes`: the checks, await by await, give what `ReleaseProcessor` assumes of them |
| `EvidenceRunProofs!TypesHold`, `ChecksAgreeAlways`, `ScreenshotAlways`, `EvidenceIsStored` | types; `ChecksAgree`; `ScreenshotShowsVerdict`; `FilesFollowRows` |
| `RunnerHostProofs!HostTypes`, `AliveIsReported`, `DeadAreReported`, `CloseIsQuiet` | types; `AliveIsFresh`; `DeadIsReported`; `QuietAfterClose` |

**The repository.** The inductive invariant is `IInv`. Its core is
`SnapshotIsCurrent`: a transaction's snapshot is at most as recent as the row,
and if it has the row's version it *is* the row. Without it a write could
append to the log an entry whose `from` is not the last entry's `to`. To it come
that open transactions carry arguments the callers may give
(`OpenTransaction`) and that somebody has been told `created` exactly if the
row exists (`CreatorsExist`), which makes a second creator impossible.
`InitInvariant`, `NextInvariant` and the implications are separate lemmas, one
step per operation; TLC finds `IInv` true of the instance of `mc_repository`, too.
`StepImplementsStore` maps reads and aborts to stuttering and writes to store
operations. A by-product: the version in the `WHERE` is implied by status and
attempt there, because no walk through the table returns to a status within
one attempt.

**The gate.** `decideReleaseGate` compares lengths of sets and lists. That
equal lengths and membership force every expected test to appear is a counting
argument: the positions inject into the ids (`CompleteIsInjection`), and an
injection between finite sets of equal size is onto. `SelectionIsSound` rests on
what `Among` returns: its lemmas run over the places of the registry by
`NaturalInduction`, with the set of the lengths for which the claim holds in
place of a predicate.

**The explanation.** `AssessmentIsShown` is inductive by itself, since each of
the actions that write the row writes status and source together. That a GPT-5.6
assessment quotes its response needs `ReplyIsOfResponse`: no step of a request,
late or aborted, exchanges the response under a reply that was read from it.
`PlannerOnlyAdds` needs `RepliesAreTexts`: a reply is the failure or a text of
the response, so the selection is always made of something that can be read as a
plan or falls back. `VerdictIsJustified` says of the results in memory and of the
durable ones the same thing, because a resumed attempt decides by the latter.
For `AssessmentIsGrounded`, the evidence handed to the analysis is of the attempt
(`EvidenceIsTrusted`), and the links of a stored explanation are among it, each
once (`LinksAreGrounded`).

**The running system.** `WellFormed` says that every call, worker and job
works with an attempt that exists and a status a job may be in. `NextStep` shows, one
lemma per group of actions, that every step keeps it and is a store step or
leaves the store alone; the theorems about the store then carry over.

`TypeInv` is `MeshTypeOK` with what makes it inductive: a worker counts to its
results and not beyond, a job that is to run again has tries left. The
invariants on top of it are, in the order in which they need each other:

- *One owner.* `OwnInv`: a worker that is not idle owns the job
  (`WorkersOwnTheirJob`). A job has one owner, so nobody else processes.
- *Evidence.* `EvidenceInv`: what a worker has in memory is in the rows of its
  attempt (`EvidenceIsPersisted`), what it is about to publish is explained by the
  assessment it has just written (`VerdictIsExplained`), and nobody works in a
  release that is settled (`FinalIsNotProcessed`). The last needs `OwnInv`: a
  second worker could delete the rows below a verdict.
- *Safety.* `SafeInv`: a contract check recorded as PASSED, in a row or in
  memory, was made of a candidate that does not break (`PassedIsCompatible`).
  This holds of every row whoever wrote it, so no fault is excluded.
- *Jobs.* `CallInv`: who is between `acquire` and `release` of the lease holds it,
  every call is in a step its kind has, the attempt a call or the job was made for
  is not ahead of the release, and a call that acts on ERROR or on an exhausted
  job read it under the lease. `GateInv`: a release in ANALYZING has complete
  evidence, so its job can only end with a verdict, and a worker that returns
  leaves a verdict behind. Together they give that the `completed` handler, which
  takes no lock, finds the release settled (`CompletedIsFinal`, `KeptInv`), and
  that every other removal is of a job nobody waits for.
- *Carrying on.* `CarriedInv`: a job has stalled at most as often as workers have
  died, the stall it is in included, so its next one is forgiven
  (`StallsAreCrashes`); a worker works on the attempt of its job (`WorksOnItsJob`)
  and does not throw while that attempt is ANALYZING, because every step after the
  transition expects what it finds (`ThrowingIsNotAnalyzing`); and the reconciler,
  about to remove a job it saw terminal, still has a terminal one, or a settled
  release (`ReplacesTerminal`). With `KeptInv` nobody is left who could end the job
  of a release in ANALYZING without a verdict. TLC checked each part, with up to
  three kinds of fault, before it was proved. The condition is tight: `AnalyzingIsCarriedOn` is
  violated with a second crash, with one call that fails in the job's last try, and
  with a lost lease and a crash together.

That the conditions are needed is shown by the configurations of section 7:
with a lost job lock evidence below a verdict disappears (`MCLateEvidence.cfg`), and
a job can be removed that is a replacement (`MCReplacementRemoved.cfg`). In `Init`
the budget is `Budget`, which no step raises, so the condition of a theorem is on
that constant.

**The page.** `ShownInv` orders what the three places know of a release: no
answer is ahead of the server (`AnswersAreKnown`), what the page shows is known to
it and not ahead of an answer the current call has for it (`ShownIsKnown`), a
current retry, poll or reading of evidence is about the release on the screen
(`CurrentIsShown`), and evidence comes when polling is over (`EvidenceIsLast`). Since every write of the screen is preceded by the test of
the generation, nothing older ever reaches it. `KeyInv` is about submissions:
generations are given out in turn (`CallsInTurn`), a key belongs to the click and
the candidate it was made for (`KeysAreOwned`), and a submission that made its key
is the only request with it (`FirstIsAlone`), so that its rejection proves that
there is no release and the key may be forgotten; a key whose release exists or
may still be made is otherwise kept until the page was told (`KeysAreKept`). Both
invariants were model-checked with one and with two candidates before they were
proved.

**The catalogue page.** The module has the shell under a name of its own
(`App == INSTANCE Shell`), so the theorem is about the page where it is
mounted. A run of `loadCatalog` has found of each name nothing or a row of the seed
that was listed (`FoundAsListed`): a component is asked for by the id it was listed
with, and after a reset that id is gone. Its dependencies are of a seed that had been
made when a component was found, so of none later than that of the row
(`AsListed`). A page that is ready was made of a run that has found all names, and a
superseded run does not write it.

**The demo reset.** `ResetInv` adds to `IdleWhenReset` what makes it inductive:
while a reset is between its pause and its resume the queue is paused, because
no other reset is there to resume it. Only a fetch makes a job active, and it
needs a queue that is not paused.

**The attempt.** `CompatibleIsSubtyping` needs one document, the one made of the
actual contract's own fields. The results so far say which checks have been
made (`Progress`); each is one its check may give (`IsOutcome`), and each says
whether the candidate serves v1 or Pricing has answered something else. From
`IsOutcome` follows `ResultsAreOutcomes`, the assumption under which
`ReleaseProcessor` has the three checks in one step: `Outcomes` there and the
property here expand the same `CheckOutcomes`. For the screenshot, an alert once rendered stays, and a page
seen ready had been rendered before the second look. For the files, `last` is
above every id in a row, so a put writes and removes files of nobody else.

**The runner.** Time to live is a budget. `Lag` bounds the age of the row by the
misses so far, the timer and the heartbeat in progress, `LagBound` the sum of
these by `(Misses + 1) * Gap + WriteTime`, and a report adds its own duration and
the clocks (`HostAssumption`). `Dead` says the same of a runner that is gone:
the row is at least as old as its death. `Phases` says what is set and running in
which await of start and close. `QuietAfterClose` follows from it; `handling` is in none
of these, because `close` says nothing of it.

Assumptions: `RepositoryAssumption`, `StoreAssumption`, `RegistryAssumption`,
`QueueAssumption`, `ProcessorAssumption`, `MeshAssumption`, `AppAssumption`,
`EndpointAssumption`, `ChecksAssumption`, `EvidenceAssumption`, `ResetAssumption`,
`HostAssumption`, `CatalogueAssumption`, each declared with its constants and evaluated by TLC in every
run that extends its module. They say that numbers are numbers, that a registry
names each test once and has the contract check among its mandatory ones
(`test-registry.ts:10-43`), that there are finitely many workers, that what stands for "none"
is not a value of its kind, and that responses are sequences of texts. None
bounds a number of steps.

**Only model-checked:** liveness, since it depends on fairness and ENABLED:
`QueuedAndTestingAreLeft`, `RetryIsUnblocked`, `LockIsFreedAgain` and
`SettledUnlessFaults` of `mesh_live`, and `RequestsEnd`, `CallsEnd`, `QueueComesBack`,
`NothingLingers`, `ChecksEnd` and `RemotesAreIndependent`. Every invariant and
every action property of the runs is stated by a theorem; where the theorem has a
condition on the faults, the runs go no further than it, and section 7 names
what happens beyond.

## 7. Findings and observations

**A release can stay ANALYZING** (`index.ts:74`, run `stranded_analyzing`).
After a second crash BullMQ fails the job as stalled; the failed handler returns
early because attempts are left, the recovery sweep looks for TESTING only, the
reconciler for QUEUED only, and a retry needs ERROR. One crash does not lead
there, nor any number of API crashes and failing enqueues: this is
`AnalyzingIsCarriedOn`, checked and proved (section 6).

The following are behaviours of the code that a reader may not expect; each can
be reproduced with the configuration named.

- **Evidence of a published verdict can be deleted**
  (`test-run-repository.ts:14`; `MCReleaseMesh` with `MCLateEvidence.cfg`).
  Evidence is fenced by the attempt, not by the ownership of the job: a second
  worker that has read TESTING runs `prepareAttempt` after the first has
  published SAFE.
- **A terminal job can be removed before the database knows**
  (`release-queue.ts:157`; `MCReleaseMesh` with `MCEarlyRemoval.cfg`). The
  reconciler's lock does not exclude workers.
- **Clean-up can remove a replacement job** (`index.ts:71`; `MCReleaseMesh` with
  `MCReplacementRemoved.cfg`). Three steps, by id, without the lock; the release
  is settled by then, so no work is lost.
- **The page can stay in "Retrying release…"** (`ReleaseApp.tsx:139`;
  `MCReleaseApp` with `MCRetryWedged.cfg`). *Retry evidence* stays enabled during
  a retry and supersedes it; nobody resets `retrying`, so *Retry release* and
  both candidate buttons stay disabled until the page is reloaded.
- **A silent Pricing service can block a release**
  (`mandatory-check-executor.ts:55`; `MCEvidenceRun` with `MCUnanswered.cfg`).
  The Checkout page shows the same alert for an answer that lacks a field and for
  no answer, and the browser check calls both FAILED; the table of
  `docs/releasemesh-architecture.md:173-174` has ERROR for checks that could not
  finish.
- **Pricing can be shown as "Consumer contract only"**
  (`catalog-repository.ts:6`; `MCShell` with `MCBareComponent.cfg`). A reset
  between the statements of `findComponentById` leaves a component without
  its versions and contracts.
- **Overlapping resets lose their exclusion** (`demo-reset-service.ts:35`; set
  `Overlap = TRUE` in `MCDemoReset.cfg`): the first to end resumes the queue under
  the second. And a reset whose pause is not answered, whose resume throws or
  whose process dies leaves the queue paused until another reset has ended.
- **`close` can cut an event handler short** (`index.ts:188`; `MCRunnerHost` with
  `MCHandlerCut.cfg`). `worker.close()` waits for the job, not for the `completed`
  and `failed` handlers, which are started and forgotten (`index.ts:70-80`): one
  may hold the release lock, or be about to call `failRelease`, when queue and
  database are closed. For the release this is what the death of the runner is:
  a sweep settles it and the lease frees the lock (`QueuedAndTestingAreLeft`,
  `LockIsFreedAgain`).
- **The catalogue page can show dependencies of one seed and components of the
  next** (`api.ts:43`; `MCShell` with `MCMixedCatalogue.cfg`). The two lists are
  requests of their own, and a reset fits between their answers; the page then
  shows dependencies whose components are gone until it is loaded again.
- `drain(true)` takes the delayed job of a release in ANALYZING, too; if the
  erasure then fails, that release is left like the one of the finding.

Others, which no configuration shows: the upsert of a
late worker can leave an ERROR release with the assessment of a SAFE one,
until a retry deletes it; a recovery sweep can fail an attempt whose job a
worker has just taken up again; a retry begun while evidence still loads
cancels the loading, and if the retry and its reconciliation both fail,
"Loading persisted evidence…" stays; a retry reconciled as ERROR shows an
empty list of evidence that was never asked for; a browser that refuses
sessionStorage makes a new key after a reload.

## 8. What is not modelled, and why

- **Routes and server:** validation of requests, the reset token, CORS and the
  mapping of errors to status codes keep no state. What the pages make of a
  status is in their modules.
- **Redaction** (`sanitize-evidence.ts`, `sanitizeLog` in `artifact-policy.ts`)
  and the wording of plans and assessments: pure text processing. The size and
  type tests of the policy are the case "put throws".
- **Validation of configured origins** (`api-check.ts`, `browser-check.ts`):
  runs once, before anything else.
- **Config, telemetry, shared UI, migrations, routing of the Pricing fixture:**
  stateless, or done before the system runs.
- In the modelled parts: error codes, reasons and correlation ids of log
  entries, contents of evidence and of assessments beyond attempt and outcome,
  formatting, logging, rendering. `RunnerHost` ignores the drift of
  `setInterval`, and `Shell` that a site may get better or worse while it is
  loaded. `RunnerHost` knows of an event handler only that it is in progress; what it
  leaves undone when `close` cuts it short is a worker crash in `ReleaseMesh`.

## 9. Plan

Done: the repository and its refinement; the gate; queue, processor and the
running system; the page; the risk engine; the checks and the local store; the
demo reset; the runner as a process; the shell and the catalogue; the proofs of
section 6, which state every invariant and action property of the runs.

Next, model: error codes, so that the reasons in the transition log can be
stated; a composition of `DemoReset` with `ReleaseMesh`, for the release that a
drained job and a failed erasure leave in ANALYZING.
