------------------------------ MODULE RunnerHost ------------------------------
(***************************************************************************)
(* The runner as a process, and what the control plane says of it:         *)
(* startRunnerRuntime and its close (runner-worker/src/index.ts), the      *)
(* handlers of the worker's events, the heartbeat (heartbeat.ts), the      *)
(* recovery sweeps (release-queue.ts, recovery.ts) and the health report   *)
(* (health-service.ts).                                                    *)
(*                                                                         *)
(* Time passes in ticks, and a moment is known by its age.  What is due    *)
(* happens before the next tick.                                           *)
(***************************************************************************)
EXTENDS Integers

CONSTANTS
  Interval,    \* ticks between two heartbeats
  WriteTime,   \* the longest a heartbeat takes to be recorded, or to fail
  Misses,      \* how many heartbeats in a row may fail
  CheckTime,   \* the longest a health report takes
  Skew,        \* how far the clocks of the runner and of the API are apart
  Ttl,         \* the age up to which a heartbeat is fresh
  MaxAge,      \* ages are not told apart from here on
  MaxBacklog   \* how many heartbeats, or sweeps, may be waiting

\* The starts of two heartbeats in a row are this far apart at most.
Gap == IF Interval < WriteTime THEN WriteTime ELSE Interval

\* 10 s, 30 s and one miss in the code, which leaves 10 s for the rest.
ASSUME HostAssumption ==
  /\ Interval \in Nat \ {0} /\ WriteTime \in Nat /\ Misses \in Nat
  /\ CheckTime \in Nat /\ Skew \in Nat /\ Ttl \in Nat /\ MaxAge \in Nat
  /\ MaxBacklog \in Nat \ {0}
  /\ (Misses + 1) * Gap + WriteTime + CheckTime + Skew <= Ttl
  /\ Ttl + Skew < MaxAge

VARIABLES
  phase,       \* the await of startRunnerRuntime or of close
  processing,  \* whether a job is being processed
  handling,    \* whether a handler of the worker's events is in progress
  waiting,     \* the heartbeats and sweeps chained to those before them
  timers,      \* the intervals that are set
  timer,       \* the age of the last heartbeat's timer event
  beat,        \* the age of the heartbeat being recorded
  misses,      \* the heartbeats that failed since one was recorded
  ready,       \* the chains whose first run is over
  landed,      \* whether this process has recorded a heartbeat
  tasks,       \* the tasks of the current sweep that go on
  sweep,       \* whether a sweep is in progress
  seen,        \* the age of the heartbeat in the database
  skew,        \* how far the runner's clock is ahead
  dead,        \* for how long there has been no runner
  check        \* the health report being made, or the last one

hostVars == <<phase, processing, handling, waiting, timers, timer, beat, misses, ready,
              landed, tasks, sweep, seen, dead>>
vars == <<hostVars, skew, check>>

Chains == {"beat", "sweep"}
Tasks  == {"reconcile", "recover"}
Checks == {"database", "redis", "heartbeat"}

None == -1
Ages == 0 .. MaxAge

Starting == {"connect", "sweepReady", "workerReady", "heartReady"}
Closing  == {"closeWorker", "stopHeart", "stopSweep", "closeQueue", "disconnect"}

\* The phases in which the runner works and says so.
Beating == phase \in {"heartReady", "up", "closeWorker"}

TypeOK ==
  /\ phase \in Starting \cup {"up", "down"} \cup Closing
  /\ processing \in BOOLEAN /\ handling \in BOOLEAN
  /\ landed \in BOOLEAN /\ sweep \in BOOLEAN
  /\ waiting \in [Chains -> 0 .. MaxBacklog]
  /\ timers \subseteq Chains /\ ready \subseteq Chains /\ tasks \subseteq Tasks
  /\ timer \in 0 .. Interval
  /\ beat \in {None} \cup 0 .. WriteTime
  /\ misses \in 0 .. Misses
  /\ seen \in {None} \cup Ages /\ dead \in Ages
  /\ skew \in -Skew .. Skew
  /\ check \in [pending : SUBSET Checks, age : 0 .. CheckTime, latest : {None} \cup Ages,
                alive : BOOLEAN, report : {"none", "awaited", "fresh", "stale"}]

NoCheck ==
  [pending |-> {}, age |-> 0, latest |-> None, alive |-> FALSE, report |-> "none"]

Init ==
  /\ phase = "down" /\ processing = FALSE /\ handling = FALSE
  /\ waiting = [c \in Chains |-> 0] /\ timers = {} /\ timer = 0
  /\ beat = None /\ misses = 0 /\ ready = {} /\ landed = FALSE
  /\ tasks = {} /\ sweep = FALSE
  /\ seen = None /\ dead = MaxAge
  /\ skew \in -Skew .. Skew
  /\ check = NoCheck

GoOn(from, to) == phase = from /\ phase' = to

\* A chain starts with one run at once, and with its interval.
Begin(chain) ==
  /\ waiting' = [waiting EXCEPT ![chain] = 1]
  /\ timers' = timers \cup {chain}

\* clearInterval, then all that is chained.
Idle(chain) ==
  waiting[chain] = 0 /\ IF chain = "beat" THEN beat = None ELSE ~sweep

-----------------------------------------------------------------------------
\* startRunnerRuntime
Start ==
  /\ GoOn("down", "connect")
  /\ dead' = 0
  /\ UNCHANGED <<processing, handling, waiting, timers, timer, beat, misses, ready,
                 landed, tasks, sweep, seen, skew, check>>

StartSweeps ==
  /\ GoOn("connect", "sweepReady")
  /\ Begin("sweep")
  /\ UNCHANGED <<processing, handling, timer, beat, misses, ready, landed, tasks,
                 sweep, seen, dead, skew, check>>

StartWorker ==
  /\ GoOn("sweepReady", "workerReady") /\ "sweep" \in ready
  /\ UNCHANGED <<processing, handling, waiting, timers, timer, beat, misses, ready,
                 landed, tasks, sweep, seen, dead, skew, check>>

StartHeart ==
  /\ GoOn("workerReady", "heartReady")
  /\ Begin("beat") /\ timer' = 0
  /\ UNCHANGED <<processing, handling, beat, misses, ready, landed, tasks, sweep, seen,
                 dead, skew, check>>

Started ==
  /\ GoOn("heartReady", "up") /\ "beat" \in ready
  /\ UNCHANGED <<processing, handling, waiting, timers, timer, beat, misses, ready,
                 landed, tasks, sweep, seen, dead, skew, check>>

\* The worker takes a job from its construction to its close.
ProcessJob ==
  /\ phase \in {"workerReady", "heartReady", "up"}
  /\ ~processing /\ processing' = TRUE
  /\ UNCHANGED <<phase, handling, waiting, timers, timer, beat, misses, ready, landed,
                 tasks, sweep, seen, dead, skew, check>>

\* The job's event is emitted, and its handler begins, before the worker can be
\* closed.  A failed attempt that is to be tried again needs none.
EndJob ==
  /\ processing /\ processing' = FALSE
  /\ handling' \in {handling, TRUE}
  /\ UNCHANGED <<phase, waiting, timers, timer, beat, misses, ready, landed, tasks,
                 sweep, seen, dead, skew, check>>

\* A job of another runner's is failed as stalled, and its event comes here.
StalledJobFails ==
  /\ phase \in {"workerReady", "heartReady", "up", "closeWorker"}
  /\ handling' = TRUE
  /\ UNCHANGED <<phase, processing, waiting, timers, timer, beat, misses, ready,
                 landed, tasks, sweep, seen, dead, skew, check>>

\* Nobody awaits a handler; the last one in progress returns, or throws and is
\* logged.
HandlersEnd ==
  /\ handling /\ handling' = FALSE
  /\ UNCHANGED <<phase, processing, waiting, timers, timer, beat, misses, ready,
                 landed, tasks, sweep, seen, dead, skew, check>>

-----------------------------------------------------------------------------
\* startWorkerHeartbeat and startQueuedReleaseReconciler: a timer event chains
\* one more run.
BeatTimer ==
  /\ "beat" \in timers /\ timer = Interval /\ timer' = 0
  /\ waiting["beat"] < MaxBacklog
  /\ waiting' = [waiting EXCEPT !["beat"] = @ + 1]
  /\ UNCHANGED <<phase, processing, handling, timers, beat, misses, ready, landed,
                 tasks, sweep, seen, dead, skew, check>>

SweepTimer ==
  /\ "sweep" \in timers /\ waiting["sweep"] < MaxBacklog
  /\ waiting' = [waiting EXCEPT !["sweep"] = @ + 1]
  /\ UNCHANGED <<phase, processing, handling, timers, timer, beat, misses, ready,
                 landed, tasks, sweep, seen, dead, skew, check>>

\* The run before is over: the time is taken now.
Record ==
  /\ waiting["beat"] > 0 /\ beat = None
  /\ waiting' = [waiting EXCEPT !["beat"] = @ - 1]
  /\ beat' = 0
  /\ UNCHANGED <<phase, processing, handling, timers, timer, misses, ready, landed,
                 tasks, sweep, seen, dead, skew, check>>

BeatUnchanged ==
  UNCHANGED <<phase, processing, handling, waiting, timers, timer, tasks, sweep, dead,
              skew, check>>

Recorded ==
  /\ beat # None /\ beat' = None
  /\ seen' = beat
  /\ misses' = 0 /\ landed' = TRUE
  /\ ready' = ready \cup {"beat"}
  /\ BeatUnchanged

\* The error is logged, and the chain goes on.
RecordFails ==
  /\ beat # None /\ beat' = None
  /\ misses < Misses /\ misses' = misses + 1
  /\ ready' = ready \cup {"beat"}
  /\ BeatUnchanged /\ UNCHANGED <<landed, seen>>

Sweep ==
  /\ waiting["sweep"] > 0 /\ ~sweep
  /\ waiting' = [waiting EXCEPT !["sweep"] = @ - 1]
  /\ sweep' = TRUE /\ tasks' = Tasks
  /\ UNCHANGED <<phase, processing, handling, timers, timer, beat, misses, ready,
                 landed, seen, dead, skew, check>>

\* Sweeps that end with the first task that throws, as Promise.all does.
TaskEndsSweep(task) ==
  /\ task \in tasks /\ tasks' = tasks \ {task}
  /\ sweep' \in {tasks' # {}, FALSE}
  /\ ready' = IF sweep' THEN ready ELSE ready \cup {"sweep"}
  /\ UNCHANGED <<phase, processing, handling, waiting, timers, timer, beat, misses,
                 landed, seen, dead, skew, check>>

\* runRecoveryTasks: a task returns or throws, and all are waited for.
TaskSettles(task) ==
  /\ task \in tasks /\ tasks' = tasks \ {task}
  /\ sweep' = (tasks' # {})
  /\ ready' = IF sweep' THEN ready ELSE ready \cup {"sweep"}
  /\ UNCHANGED <<phase, processing, handling, waiting, timers, timer, beat, misses,
                 landed, seen, dead, skew, check>>

-----------------------------------------------------------------------------
\* close, on the first signal after the start.
SignalStopsHeart ==
  /\ GoOn("up", "closeWorker")
  /\ timers' = timers \ {"beat"}
  /\ UNCHANGED <<processing, handling, waiting, timer, beat, misses, ready, landed,
                 tasks, sweep, seen, dead, skew, check>>

Signal ==
  /\ GoOn("up", "closeWorker")
  /\ UNCHANGED <<processing, handling, waiting, timers, timer, beat, misses, ready,
                 landed, tasks, sweep, seen, dead, skew, check>>

\* worker.close waits for the job; heartbeat.stop clears its interval.
WorkerClosed ==
  /\ GoOn("closeWorker", "stopHeart") /\ ~processing
  /\ timers' = timers \ {"beat"}
  /\ UNCHANGED <<processing, handling, waiting, timer, beat, misses, ready, landed,
                 tasks, sweep, seen, dead, skew, check>>

HeartStopped ==
  /\ GoOn("stopHeart", "stopSweep") /\ Idle("beat")
  /\ timers' = timers \ {"sweep"}
  /\ UNCHANGED <<processing, handling, waiting, timer, beat, misses, ready, landed,
                 tasks, sweep, seen, dead, skew, check>>

SweepStopped ==
  /\ GoOn("stopSweep", "closeQueue") /\ Idle("sweep")
  /\ UNCHANGED <<processing, handling, waiting, timers, timer, beat, misses, ready,
                 landed, tasks, sweep, seen, dead, skew, check>>

QueueClosed ==
  /\ GoOn("closeQueue", "disconnect")
  /\ UNCHANGED <<processing, handling, waiting, timers, timer, beat, misses, ready,
                 landed, tasks, sweep, seen, dead, skew, check>>

\* process.exit; or an await of start or close throws, a signal comes before
\* the start is over or a second time, or the process is killed.  Its last
\* heartbeat may still be recorded.
Exit ==
  /\ phase # "down" /\ phase' = "down"
  /\ processing' = FALSE /\ handling' = FALSE
  /\ waiting' = [c \in Chains |-> 0] /\ timers' = {} /\ timer' = 0
  /\ beat' = None /\ misses' = 0 /\ ready' = {} /\ landed' = FALSE
  /\ tasks' = {} /\ sweep' = FALSE
  /\ seen' \in {seen} \cup ({beat} \ {None})
  /\ UNCHANGED <<dead, skew, check>>

-----------------------------------------------------------------------------
\* getHealth.  Whether the database and Redis are up is in the report, too.
Asking == check.report = "awaited"

Ask ==
  /\ ~Asking
  /\ check' = [NoCheck EXCEPT !.pending = Checks, !.report = "awaited"]
  /\ UNCHANGED <<hostVars, skew>>

\* One of the three promises settles.
CheckSettles(c) ==
  /\ c \in check.pending
  /\ \/ check' = [check EXCEPT !.pending = @ \ {c}]
     \/ /\ c = "heartbeat"
        /\ check' = [check EXCEPT !.pending = @ \ {c}, !.latest = seen,
                                  !.alive = Beating /\ landed]
  /\ UNCHANGED <<hostVars, skew>>

Report(now) ==
  /\ Asking /\ check.pending = {}
  /\ LET fresh == check.latest # None /\ check.latest + now - skew <= Ttl
     IN  check' = [NoCheck EXCEPT !.report = IF fresh THEN "fresh" ELSE "stale",
                                  !.alive = check.alive]
  /\ UNCHANGED <<hostVars, skew>>

\* A report that takes the time before it asks.
AnswerWithEarlyClock == Report(-check.age)

\* The clock is read when all three have settled.
Answer == Report(0)

-----------------------------------------------------------------------------
Older(age) == IF age \in 0 .. MaxAge - 1 THEN age + 1 ELSE age

\* Whatever is due comes first.
Tick ==
  /\ "beat" \in timers => timer < Interval
  /\ beat = None => waiting["beat"] = 0
  /\ beat # None => beat < WriteTime
  /\ Asking => check.age < CheckTime
  /\ timer' = IF "beat" \in timers THEN timer + 1 ELSE timer
  /\ beat' = IF beat = None THEN None ELSE beat + 1
  /\ seen' = Older(seen)
  /\ dead' = IF phase = "down" THEN Older(dead) ELSE 0
  /\ check' = IF Asking
                THEN [check EXCEPT !.age = @ + 1, !.latest = Older(@)]
                ELSE check
  /\ UNCHANGED <<phase, processing, handling, waiting, timers, misses, ready, landed,
                 tasks, sweep, skew>>

StartStep == Start \/ StartSweeps \/ StartWorker \/ StartHeart \/ Started
CloseStep == WorkerClosed \/ HeartStopped \/ SweepStopped \/ QueueClosed
BeatStep  == BeatTimer \/ Record \/ Recorded \/ RecordFails
SweepStep == Sweep \/ \E task \in Tasks : TaskSettles(task)
JobStep   == ProcessJob \/ EndJob \/ StalledJobFails \/ HandlersEnd
CheckStep == Ask \/ Answer \/ \E c \in Checks : CheckSettles(c)

Next ==
  \/ StartStep \/ JobStep \/ BeatStep \/ SweepTimer \/ SweepStep
  \/ Signal \/ CloseStep \/ Exit \/ CheckStep \/ Tick

Spec == Init /\ [][Next]_vars

-----------------------------------------------------------------------------
\* A report made while a runner works says so: from its first heartbeat in the
\* database until the last job of a runner that is being closed has ended, and
\* although heartbeats fail, take longer than their interval and are read in
\* advance (heartbeat.ts:15, index.ts:187, health-service.ts:17-24).
AliveIsFresh == check.alive => check.report # "stale"

\* A report says that a runner works only if there was one up to Ttl ago, give or
\* take the clocks, when the report was made, and not when it was asked for
\* (health-service.ts:23-24).
DeadIsReported ==
  [][Asking /\ check'.report = "fresh" => dead <= Ttl + Skew]_vars

\* When close goes on to the connections, all that it waits for has ended: the job,
\* the heartbeats, the sweeps, and every task of a sweep, also one whose fellow task
\* has thrown (index.ts:187-193, recovery.ts:66-72).  The handlers of the worker's
\* events are not among it.
QuietAfterClose ==
  phase \in {"closeQueue", "disconnect"} =>
    /\ ~processing /\ beat = None /\ tasks = {} /\ ~sweep
    /\ \A c \in Chains : waiting[c] = 0

\* Nor does a handler of the worker's events go on when the connections are closed.
\* This is not so: worker.close() does not wait for what on("completed") and
\* on("failed") have begun (index.ts:70-80).
HandlersAreAwaited == phase \in {"closeQueue", "disconnect"} => ~handling
=============================================================================
