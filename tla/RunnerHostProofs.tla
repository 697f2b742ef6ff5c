--------------------------- MODULE RunnerHostProofs ---------------------------
(***************************************************************************)
(* For any intervals and limits that fit into the limit of freshness, a    *)
(* working runner is reported as one and a stopped one is not; and what    *)
(* close waits for has ended before it goes on to the connections.         *)
(***************************************************************************)
EXTENDS RunnerHost, TLAPS

\* What goes on in which phase.
Phases ==
  /\ phase \notin {"heartReady", "up", "closeWorker", "stopHeart"} =>
       beat = None /\ waiting["beat"] = 0
  /\ Beating <=> "beat" \in timers
  /\ phase \in {"down", "connect", "closeQueue", "disconnect"} =>
       ~sweep /\ waiting["sweep"] = 0
  /\ phase \in {"down", "connect", "stopSweep", "closeQueue", "disconnect"} =>
       "sweep" \notin timers
  /\ sweep <=> tasks # {}
  /\ processing => phase \in {"workerReady", "heartReady", "up", "closeWorker"}
  /\ landed => phase \notin {"down", "connect", "sweepReady", "workerReady"}

\* The heartbeat in the database is not older than this.
Lag ==
  IF beat # None THEN (misses + 1) * Gap + beat
  ELSE IF waiting["beat"] > 0 THEN (misses + 1) * Gap
  ELSE misses * Gap + timer

Alive ==
  /\ landed /\ Beating => seen # None /\ seen <= Lag
  /\ Beating /\ waiting["beat"] = 0 /\ beat # None => beat <= timer

Dead ==
  /\ phase # "down" => dead = 0
  /\ seen # None => dead <= seen

Asked ==
  /\ ~Asking => check.pending = {}
  /\ Asking /\ check.latest # None => dead <= check.latest
  /\ "heartbeat" \in check.pending => check.latest = None /\ ~check.alive
  /\ Asking /\ check.alive =>
       /\ check.latest # None
       /\ check.latest <= (Misses + 1) * Gap + WriteTime + check.age

IInv == TypeOK /\ Phases /\ Alive /\ Dead /\ Asked /\ AliveIsFresh

-----------------------------------------------------------------------------
LEMMA GapFacts ==
  /\ Gap \in Nat /\ Interval <= Gap /\ WriteTime <= Gap
  /\ \A m \in Nat : m * Gap \in Nat /\ (m + 1) * Gap = m * Gap + Gap
  /\ \A m \in 0 .. Misses : (m + 1) * Gap <= (Misses + 1) * Gap
<1>1. Gap \in Nat /\ Interval <= Gap /\ WriteTime <= Gap
  BY HostAssumption DEF Gap
<1>2. ASSUME NEW m \in Nat PROVE m * Gap \in Nat /\ (m + 1) * Gap = m * Gap + Gap
  BY <1>1
<1>3. ASSUME NEW m \in 0 .. Misses PROVE (m + 1) * Gap <= (Misses + 1) * Gap
  <2>1. PICK k \in Nat : Misses + 1 = (m + 1) + k
    <3>1. Misses - m \in Nat /\ Misses + 1 = (m + 1) + (Misses - m)
      BY HostAssumption
    <3> QED
      BY <3>1
  <2>2. (Misses + 1) * Gap = (m + 1) * Gap + k * Gap
    BY <1>1, <2>1
  <2>3. k * Gap \in Nat /\ (m + 1) * Gap \in Nat
    BY <1>1
  <2> QED
    BY <2>2, <2>3
<1> QED
  BY <1>1, <1>2, <1>3

LEMMA OlderFacts ==
  ASSUME NEW a \in {None} \cup Ages
  PROVE  /\ Older(a) \in {None} \cup Ages
         /\ a = None <=> Older(a) = None
         /\ Older(a) <= a + 1 /\ a <= Older(a)
         /\ \A b \in Ages : b <= a => Older(b) <= Older(a)
BY HostAssumption DEF Older, Ages, None

LEMMA InitInv == Init => IInv
<1> SUFFICES ASSUME Init PROVE IInv
  OBVIOUS
<1> USE HostAssumption DEF Init, NoCheck, None, Ages
<1>1. TypeOK
  <2>1. waiting \in [Chains -> 0 .. MaxBacklog]
    OBVIOUS
  <2>2. check \in [pending : SUBSET Checks, age : 0 .. CheckTime, latest : {None} \cup Ages,
                   alive : BOOLEAN, report : {"none", "awaited", "fresh", "stale"}]
    OBVIOUS
  <2>3. /\ phase = "down" /\ dead \in 0 .. MaxAge /\ timer \in 0 .. Interval
        /\ misses \in 0 .. Misses /\ beat = -1 /\ seen = -1
    OBVIOUS
  <2> QED
    BY <2>1, <2>2, <2>3 DEF TypeOK
<1>2. Phases /\ Alive /\ Dead
  BY DEF Phases, Alive, Dead, Beating, Chains
<1>3. Asked /\ AliveIsFresh
  BY DEF Asked, AliveIsFresh, Asking
<1> QED
  BY <1>1, <1>2, <1>3 DEF IInv

-----------------------------------------------------------------------------
\* Start, close and jobs: no heartbeat is touched, but for its first and last.
LEMMA StartTypes ==
  ASSUME TypeOK, StartStep \/ CloseStep \/ Signal \/ JobStep
  PROVE  TypeOK'
<1> USE HostAssumption DEF TypeOK, GoOn, Starting, Closing, Chains
<1>1. CASE StartStep
  <2>1. waiting' \in [Chains -> 0 .. MaxBacklog]
    <3>1. 1 \in 0 .. MaxBacklog
      OBVIOUS
    <3> QED
      BY <1>1, <3>1 DEF StartStep, Start, StartSweeps, StartWorker, StartHeart, Started,
         Begin
  <2>2. dead' \in Ages /\ timer' \in 0 .. Interval
    BY <1>1 DEF StartStep, Start, StartSweeps, StartWorker, StartHeart, Started, Ages
  <2>3. /\ timers' \subseteq Chains
        /\ phase' \in {"connect", "sweepReady", "workerReady", "heartReady", "up"}
    BY <1>1 DEF StartStep, Start, StartSweeps, StartWorker, StartHeart, Started, Begin
  <2>4. UNCHANGED <<processing, handling, beat, misses, ready, landed, tasks, sweep, seen, skew,
                  check>>
    BY <1>1 DEF StartStep, Start, StartSweeps, StartWorker, StartHeart, Started
  <2> QED
    BY <2>1, <2>2, <2>3, <2>4
<1>2. CASE CloseStep
  BY <1>2 DEF CloseStep, WorkerClosed, HeartStopped, SweepStopped, QueueClosed
<1>3. CASE Signal \/ JobStep
  BY <1>3 DEF Signal, JobStep, ProcessJob, EndJob, StalledJobFails, HandlersEnd
<1> QED
  BY <1>1, <1>2, <1>3

LEMMA StartPhases ==
  ASSUME TypeOK, Phases, StartStep \/ CloseStep \/ Signal \/ JobStep
  PROVE  Phases'
<1> USE DEF TypeOK, Phases, Beating, GoOn, Chains, Starting
<1>1. CASE StartStep
  <2>1. CASE Start \/ StartSweeps
    BY <2>1 DEF Start, StartSweeps, Begin
  <2>2. CASE StartWorker \/ Started
    BY <2>2 DEF StartWorker, Started
  <2>3. CASE StartHeart
    BY <2>3 DEF StartHeart, Begin
  <2> QED
    BY <1>1, <2>1, <2>2, <2>3 DEF StartStep
<1>2. CASE CloseStep
  <2>1. CASE WorkerClosed
    <3>1. phase' = "stopHeart" /\ ~processing /\ timers' = timers \ {"beat"}
          /\ phase = "closeWorker"
          /\ UNCHANGED <<processing, waiting, beat, landed, tasks, sweep>>
      BY <2>1 DEF WorkerClosed
    <3> HIDE DEF TypeOK
    <3> QED
      BY <3>1
  <2>2. CASE HeartStopped
    <3>1. /\ phase = "stopHeart" /\ phase' = "stopSweep"
          /\ beat = None /\ waiting["beat"] = 0
          /\ timers' = timers \ {"sweep"}
          /\ UNCHANGED <<processing, waiting, beat, landed, tasks, sweep>>
      BY <2>2 DEF HeartStopped, Idle
    <3>2. "beat" \notin timers /\ "beat" \notin timers'
      BY <3>1
    <3> HIDE DEF TypeOK
    <3> QED
      BY <3>1, <3>2
  <2>3. CASE SweepStopped
    BY <2>3 DEF SweepStopped, Idle
  <2>4. CASE QueueClosed
    BY <2>4 DEF QueueClosed
  <2> QED
    BY <1>2, <2>1, <2>2, <2>3, <2>4 DEF CloseStep
<1>3. CASE Signal \/ JobStep
  <2>1. CASE Signal
    BY <2>1 DEF Signal
  <2>2. CASE JobStep
    <3> HIDE DEF TypeOK, Phases, Beating
    <3>1. UNCHANGED <<phase, waiting, timers, beat, landed, tasks, sweep>>
      BY <2>2 DEF JobStep, ProcessJob, EndJob, StalledJobFails, HandlersEnd
    <3>2. \/ processing' = processing \/ processing' = FALSE
          \/ phase \in {"workerReady", "heartReady", "up"}
      BY <2>2 DEF JobStep, ProcessJob, EndJob, StalledJobFails, HandlersEnd
    <3> QED
      BY <3>1, <3>2 DEF Phases, Beating
  <2> QED
    BY <1>3, <2>1, <2>2
<1> QED
  BY <1>1, <1>2, <1>3

LEMMA StartRest ==
  ASSUME TypeOK, Phases, Alive, Dead, Asked, AliveIsFresh,
         StartStep \/ CloseStep \/ Signal \/ JobStep
  PROVE  Alive' /\ Dead' /\ Asked' /\ AliveIsFresh'
<1>1. UNCHANGED <<beat, misses, landed, seen, check>>
  BY DEF StartStep, Start, StartSweeps, StartWorker, StartHeart, Started, CloseStep,
     WorkerClosed, HeartStopped, SweepStopped, QueueClosed, Signal, JobStep, ProcessJob,
     EndJob, StalledJobFails, HandlersEnd
<1>2. Dead' /\ (check.latest # None => dead' <= check.latest \/ dead' = dead)
  <2>1. CASE JobStep
    <3>1. UNCHANGED <<phase, dead>>
      BY <2>1 DEF JobStep, ProcessJob, EndJob, StalledJobFails, HandlersEnd
    <3> QED
      BY <1>1, <3>1 DEF Dead
  <2>2. CASE StartStep \/ CloseStep \/ Signal
    BY <1>1, <2>2 DEF StartStep, Start, StartSweeps, StartWorker, StartHeart, Started,
       CloseStep, WorkerClosed, HeartStopped, SweepStopped, QueueClosed, Signal, GoOn, Dead,
       TypeOK, Ages, None
  <2> QED
    BY <2>1, <2>2
<1>3. Asked' /\ AliveIsFresh'
  BY <1>1, <1>2 DEF Asked, AliveIsFresh, Asking
<1>4. Beating' /\ phase # "workerReady" =>
        Beating /\ waiting'["beat"] = waiting["beat"] /\ timer' = timer
  BY DEF StartStep, Start, StartSweeps, StartWorker, StartHeart, Started, CloseStep,
     WorkerClosed, HeartStopped, SweepStopped, QueueClosed, Signal, JobStep, ProcessJob,
     EndJob, StalledJobFails, HandlersEnd, GoOn, Begin, Beating, Phases, Starting, TypeOK,
     Chains
<1>5. phase = "workerReady" => ~landed /\ beat = None
  BY DEF Phases
<1>6. Alive'
  BY <1>1, <1>4, <1>5 DEF Alive, Lag
<1> QED
  BY <1>2, <1>3, <1>6

-----------------------------------------------------------------------------
\* The chains
LEMMA ChainTypes ==
  ASSUME TypeOK, BeatStep \/ SweepTimer \/ SweepStep
  PROVE  TypeOK'
<1> USE HostAssumption DEF TypeOK, Chains
<1>1. CASE BeatTimer \/ SweepTimer
  <2>1. waiting' \in [Chains -> 0 .. MaxBacklog]
    BY <1>1 DEF BeatTimer, SweepTimer
  <2>2. CASE BeatTimer
    BY <2>1, <2>2 DEF BeatTimer
  <2>3. CASE SweepTimer
    BY <2>1, <2>3 DEF SweepTimer
  <2> QED
    BY <1>1, <2>2, <2>3
<1>2. CASE Record \/ Sweep
  <2>1. waiting' \in [Chains -> 0 .. MaxBacklog]
    BY <1>2 DEF Record, Sweep
  <2>2. CASE Record
    BY <2>1, <2>2 DEF Record
  <2>3. CASE Sweep
    BY <2>1, <2>3 DEF Sweep
  <2> QED
    BY <1>2, <2>2, <2>3
<1>3. CASE Recorded
  <2>1. seen' \in Ages
    BY <1>3, GapFacts DEF Recorded, Ages, None, Gap
  <2> QED
    BY <1>3, <2>1 DEF Recorded, BeatUnchanged
<1>4. CASE RecordFails
  BY <1>4 DEF RecordFails, BeatUnchanged
<1>5. CASE \E task \in Tasks : TaskSettles(task)
  BY <1>5 DEF TaskSettles
<1> QED
  BY <1>1, <1>2, <1>3, <1>4, <1>5 DEF BeatStep, SweepStep

LEMMA ChainPhases ==
  ASSUME TypeOK, Phases, BeatStep \/ SweepTimer \/ SweepStep
  PROVE  Phases'
<1> USE DEF TypeOK, Phases, Beating, Chains, Starting
<1>1. CASE BeatTimer
  BY <1>1 DEF BeatTimer
<1>2. CASE SweepTimer
  BY <1>2 DEF SweepTimer
<1>3. CASE Record
  BY <1>3 DEF Record
<1>4. CASE Recorded
  BY <1>4 DEF Recorded, BeatUnchanged
<1>5. CASE RecordFails
  BY <1>5 DEF RecordFails, BeatUnchanged
<1>6. CASE Sweep
  BY <1>6 DEF Sweep, Tasks
<1>7. ASSUME NEW task \in Tasks, TaskSettles(task) PROVE Phases'
  <2>1. sweep /\ (sweep' <=> tasks' # {})
    BY <1>7 DEF TaskSettles
  <2>2. UNCHANGED <<phase, processing, waiting, timers, beat, landed>>
    BY <1>7 DEF TaskSettles
  <2> QED
    BY <2>1, <2>2
<1> QED
  BY <1>1, <1>2, <1>3, <1>4, <1>5, <1>6, <1>7 DEF BeatStep, SweepStep

LEMMA ChainRest ==
  ASSUME TypeOK, Phases, Alive, Dead, Asked, AliveIsFresh,
         BeatStep \/ SweepTimer \/ SweepStep
  PROVE  Alive' /\ Dead' /\ Asked' /\ AliveIsFresh'
<1>1. UNCHANGED <<phase, dead, check>>
  BY DEF BeatStep, BeatTimer, Record, Recorded, RecordFails, BeatUnchanged, SweepTimer,
     SweepStep, Sweep, TaskSettles
<1>2. Asked' /\ AliveIsFresh'
  BY <1>1 DEF Asked, AliveIsFresh, Asking
<1>3. seen' = seen \/ (phase # "down" /\ seen' = beat /\ beat # None)
  BY DEF BeatStep, BeatTimer, Record, Recorded, RecordFails, BeatUnchanged, SweepTimer,
     SweepStep, Sweep, TaskSettles, Phases
<1>4. Dead'
  BY <1>1, <1>3 DEF Dead, TypeOK, None
<1>5. /\ Gap \in Nat /\ Interval <= Gap /\ WriteTime <= Gap
      /\ misses * Gap \in Nat /\ (misses + 1) * Gap = misses * Gap + Gap
  BY GapFacts DEF TypeOK
<1> USE DEF TypeOK, Chains
<1>6. CASE BeatTimer
  <2>1. /\ UNCHANGED <<phase, beat, misses, landed, seen>> /\ timer = Interval /\ timer' = 0
        /\ waiting'["beat"] > 0
    BY <1>6 DEF BeatTimer
  <2>2. Alive'
    BY <1>5, <2>1 DEF Alive, Lag, Beating, None
  <2> QED
    BY <1>2, <1>4, <2>2
<1>7. CASE Record
  <2>1. /\ UNCHANGED <<phase, timer, misses, landed, seen>> /\ beat = None /\ beat' = 0
        /\ waiting["beat"] > 0
    BY <1>7 DEF Record
  <2>2. Alive'
    BY <1>5, <2>1 DEF Alive, Lag, Beating, None
  <2> QED
    BY <1>2, <1>4, <2>2
<1>8. CASE Recorded
  <2>1. /\ UNCHANGED <<phase, timer, waiting>> /\ beat # None /\ beat' = None
        /\ seen' = beat /\ misses' = 0 /\ landed'
    BY <1>8 DEF Recorded, BeatUnchanged
  <2>2. 0 * Gap = 0 /\ (0 + 1) * Gap = Gap
    BY <1>5
  <2>3. Lag' = IF waiting["beat"] > 0 THEN Gap ELSE timer
    BY <1>5, <2>1, <2>2 DEF Lag
  <2>4. beat \in Nat /\ beat <= Gap /\ beat # -1 /\ waiting["beat"] \in Nat
    BY <1>5, <2>1, HostAssumption DEF None
  <2>5. Beating => beat <= Lag'
    BY <2>1, <2>3, <2>4 DEF Alive
  <2>6. Alive'
    BY <2>1, <2>4, <2>5 DEF Alive, Beating, None
  <2> QED
    BY <1>2, <1>4, <2>6
<1>9. CASE RecordFails
  <2>1. /\ UNCHANGED <<phase, timer, waiting, seen, landed>> /\ beat # None /\ beat' = None
        /\ misses' = misses + 1
    BY <1>9 DEF RecordFails, BeatUnchanged
  <2>2. (misses' + 1) * Gap = (misses + 1) * Gap + Gap
        /\ misses' * Gap = (misses + 1) * Gap
    BY <2>1, GapFacts
  <2>3. beat \in Nat /\ beat <= Gap /\ waiting["beat"] \in Nat
        /\ (misses + 1) * Gap \in Nat
    BY <1>5, <2>1, HostAssumption DEF None
  <2>4. Lag = (misses + 1) * Gap + beat
    BY <2>1 DEF Lag
  <2>5. Lag' = IF waiting["beat"] > 0 THEN (misses + 1) * Gap + Gap
               ELSE (misses + 1) * Gap + timer
    BY <2>1, <2>2 DEF Lag
  <2>6. Beating => Lag <= Lag'
    BY <1>5, <2>1, <2>3, <2>4, <2>5 DEF Alive
  <2>7. Lag \in Nat /\ Lag' \in Nat
    BY <1>5, <2>3, <2>4, <2>5
  <2>8. Alive'
    BY <2>1, <2>6, <2>7 DEF Alive, Beating, Ages, None
  <2> QED
    BY <1>2, <1>4, <2>8
<1>10. CASE SweepTimer \/ SweepStep
  <2>1. UNCHANGED <<phase, timer, beat, misses, landed, seen>>
        /\ waiting'["beat"] = waiting["beat"]
    BY <1>10 DEF SweepTimer, SweepStep, Sweep, TaskSettles
  <2>2. Alive'
    BY <2>1 DEF Alive, Lag, Beating
  <2> QED
    BY <1>2, <1>4, <2>2
<1> QED
  BY <1>6, <1>7, <1>8, <1>9, <1>10 DEF BeatStep
-----------------------------------------------------------------------------
LEMMA ExitInv ==
  ASSUME IInv, Exit
  PROVE  IInv'
<1> USE DEF IInv, Exit
<1>1. Phases'
  BY DEF Phases, Beating, Chains
<1>2. TypeOK'
  <2>1. waiting' \in [Chains -> 0 .. MaxBacklog]
    BY HostAssumption
  <2>2. seen' \in {None} \cup Ages
    BY GapFacts, HostAssumption DEF TypeOK, Ages, None, Gap
  <2>3. /\ timer' \in 0 .. Interval /\ misses' \in 0 .. Misses /\ beat' = None
        /\ phase' = "down" /\ processing' = FALSE /\ handling' = FALSE /\ landed' = FALSE /\ sweep' = FALSE
        /\ timers' = {} /\ ready' = {} /\ tasks' = {}
        /\ UNCHANGED <<dead, skew, check>>
    BY HostAssumption
  <2> QED
    BY <2>1, <2>2, <2>3 DEF TypeOK
<1>3. Dead'
  <2>1. phase # "down" /\ dead = 0 /\ dead' = 0
    BY DEF Dead
  <2>2. seen' # None => seen' \in Ages
    BY <1>2 DEF TypeOK
  <2> QED
    BY <2>1, <2>2 DEF Dead, Ages
<1>4. Alive'
  BY DEF Alive, Beating
<1>5. Asked' /\ AliveIsFresh'
  BY DEF Asked, AliveIsFresh, Asking, Dead
<1> QED
  BY <1>1, <1>2, <1>3, <1>4, <1>5

LEMMA LagBound ==
  ASSUME TypeOK, Alive, Beating, landed
  PROVE  seen \in Ages /\ seen # None /\ seen <= (Misses + 1) * Gap + WriteTime
<1>1. /\ Gap \in Nat /\ Interval <= Gap /\ WriteTime \in Nat
      /\ misses * Gap \in Nat /\ (misses + 1) * Gap = misses * Gap + Gap
      /\ (misses + 1) * Gap <= (Misses + 1) * Gap
      /\ (Misses + 1) * Gap \in Nat
  BY GapFacts, HostAssumption DEF TypeOK
<1>2. timer \in 0 .. Interval /\ (beat = None \/ beat \in 0 .. WriteTime)
  BY DEF TypeOK
<1>3. Lag <= (Misses + 1) * Gap + WriteTime /\ Lag \in Int
  BY <1>1, <1>2, HostAssumption DEF Lag
<1>4. seen \in Ages /\ seen # None /\ seen <= Lag
  BY DEF Alive, TypeOK
<1> QED
  BY <1>1, <1>3, <1>4, HostAssumption DEF Ages

LEMMA CheckInv ==
  ASSUME IInv, CheckStep
  PROVE  IInv' /\ (Asking /\ check'.report = "fresh" => dead <= Ttl + Skew)
<1> USE DEF IInv
<1>1. UNCHANGED <<hostVars, skew>>
  BY DEF CheckStep, Ask, Answer, Report, CheckSettles
<1>2. Phases' /\ Alive' /\ Dead'
  BY <1>1 DEF hostVars, Phases, Alive, Lag, Dead, Beating
<1>3. /\ check.pending \subseteq Checks /\ check.age \in 0 .. CheckTime
      /\ check.latest \in {None} \cup Ages /\ check.alive \in BOOLEAN
      /\ check.report \in {"none", "awaited", "fresh", "stale"}
      /\ seen \in {None} \cup Ages /\ dead \in Ages /\ skew \in -Skew .. Skew
      /\ check = [pending |-> check.pending, age |-> check.age, latest |-> check.latest,
                  alive |-> check.alive, report |-> check.report]
  BY DEF TypeOK
<1>4. ASSUME check' \in [pending : SUBSET Checks, age : 0 .. CheckTime,
                         latest : {None} \cup Ages, alive : BOOLEAN,
                         report : {"none", "awaited", "fresh", "stale"}]
      PROVE  TypeOK'
  BY <1>1, <1>4 DEF TypeOK, hostVars
<1>5. CASE Ask
  <2>1. check' = [pending |-> Checks, age |-> 0, latest |-> None, alive |-> FALSE,
                  report |-> "awaited"]
    BY <1>5 DEF Ask, NoCheck
  <2>2. TypeOK'
    BY <1>4, <2>1, HostAssumption
  <2>3. Asked' /\ AliveIsFresh'
    BY <2>1 DEF Asked, AliveIsFresh, Asking
  <2> QED
    BY <1>2, <1>5, <2>2, <2>3 DEF Ask
<1>6. CASE Answer
  <2> DEFINE fresh == check.latest # None /\ check.latest + 0 - skew <= Ttl
  <2>1. /\ Asking /\ check.pending = {}
        /\ check' = [pending |-> {}, age |-> 0, latest |-> None, alive |-> check.alive,
                     report |-> IF fresh THEN "fresh" ELSE "stale"]
    BY <1>6 DEF Answer, Report, NoCheck
  <2>2. TypeOK'
    BY <1>3, <1>4, <2>1, HostAssumption
  <2>3. Asked'
    BY <2>1 DEF Asked, Asking
  <2>4. check.alive => fresh
    <3> SUFFICES ASSUME check.alive PROVE fresh
      OBVIOUS
    <3>1. /\ check.latest # None
          /\ check.latest <= (Misses + 1) * Gap + WriteTime + check.age
      BY <2>1 DEF Asked
    <3>2. (Misses + 1) * Gap \in Nat
      BY GapFacts, HostAssumption
    <3> QED
      BY <1>3, <3>1, <3>2, HostAssumption DEF Ages
  <2>5. AliveIsFresh'
    BY <2>1, <2>4 DEF AliveIsFresh
  <2>6. check'.report = "fresh" => dead <= Ttl + Skew
    <3> SUFFICES ASSUME fresh PROVE dead <= Ttl + Skew
      BY <2>1
    <3>1. dead <= check.latest /\ check.latest \in Ages
      BY <1>3, <2>1 DEF Asked
    <3> QED
      BY <1>3, <3>1, HostAssumption DEF Ages
  <2> QED
    BY <1>2, <2>2, <2>3, <2>5, <2>6
<1>7. ASSUME NEW c \in Checks, CheckSettles(c)
      PROVE  IInv' /\ check'.report = "awaited"
  <2>1. Asking /\ c \in check.pending
    BY <1>7 DEF CheckSettles, Asked
  <2>2. CASE check' = [pending |-> check.pending \ {c}, age |-> check.age,
                       latest |-> check.latest, alive |-> check.alive,
                       report |-> check.report]
    <3>1. TypeOK'
      BY <1>3, <1>4, <2>2
    <3>2. Asked' /\ AliveIsFresh' /\ check'.report = "awaited"
      BY <1>1, <2>1, <2>2 DEF Asked, AliveIsFresh, Asking, hostVars
    <3> QED
      BY <1>2, <3>1, <3>2
  <2>3. CASE /\ c = "heartbeat"
             /\ check' = [pending |-> check.pending \ {c}, age |-> check.age,
                          latest |-> seen, alive |-> Beating /\ landed,
                          report |-> check.report]
    <3>1. (Beating /\ landed) \in BOOLEAN
      BY DEF TypeOK, Beating
    <3>2. TypeOK'
      BY <1>3, <1>4, <2>3, <3>1
    <3>3. /\ check'.alive => check'.latest # None
                            /\ check'.latest <= (Misses + 1) * Gap + WriteTime + check'.age
      <4> SUFFICES ASSUME Beating, landed
                   PROVE  seen # None
                          /\ seen <= (Misses + 1) * Gap + WriteTime + check.age
        BY <2>3
      <4>1. (Misses + 1) * Gap \in Nat
        BY GapFacts, HostAssumption
      <4> QED
        BY <1>3, <4>1, LagBound, HostAssumption DEF Ages
    <3>4. seen # None => dead <= seen
      BY DEF Dead
    <3>5. Asked' /\ AliveIsFresh' /\ check'.report = "awaited"
      BY <1>1, <2>1, <2>3, <3>3, <3>4 DEF Asked, AliveIsFresh, Asking, hostVars
    <3> QED
      BY <1>2, <3>2, <3>5
  <2>4. \/ check' = [check EXCEPT !.pending = @ \ {c}]
        \/ /\ c = "heartbeat"
           /\ check' = [check EXCEPT !.pending = @ \ {c}, !.latest = seen,
                                     !.alive = Beating /\ landed]
    BY <1>7 DEF CheckSettles
  <2> QED
    BY <1>3, <2>1, <2>2, <2>3, <2>4 DEF Asking
<1> QED
  BY <1>5, <1>6, <1>7 DEF CheckStep

LEMMA TickInv ==
  ASSUME IInv, Tick
  PROVE  IInv'
<1> USE DEF IInv
<1>1. UNCHANGED <<phase, processing, handling, waiting, timers, misses, ready, landed, tasks,
                  sweep, skew>>
  BY DEF Tick
<1>2. /\ timer' = IF "beat" \in timers THEN timer + 1 ELSE timer
      /\ "beat" \in timers => timer < Interval
      /\ beat' = IF beat = None THEN None ELSE beat + 1
      /\ beat # None => beat < WriteTime
      /\ beat = None => waiting["beat"] = 0
  BY DEF Tick
<1>3. timer \in 0 .. Interval /\ beat \in {None} \cup 0 .. WriteTime
      /\ seen \in {None} \cup Ages /\ dead \in Ages
  BY DEF TypeOK
<1>4. timer' \in 0 .. Interval /\ beat' \in {None} \cup 0 .. WriteTime
  BY <1>2, <1>3, HostAssumption DEF None
<1>5. /\ seen' = Older(seen) /\ seen' \in {None} \cup Ages
      /\ (seen = None <=> seen' = None) /\ (seen # None => seen' <= seen + 1)
      /\ dead' = IF phase = "down" THEN Older(dead) ELSE 0
      /\ dead' \in Ages /\ dead' <= Older(dead)
  <2>1. dead \in {None} \cup Ages /\ dead # None /\ Older(dead) \in Ages
        /\ 0 \in Ages /\ 0 <= Older(dead)
    BY <1>3, OlderFacts, HostAssumption DEF None, Ages
  <2>2. dead' = IF phase = "down" THEN Older(dead) ELSE 0
    BY DEF Tick
  <2>3. seen' = Older(seen)
    BY DEF Tick
  <2>4. dead' \in Ages /\ dead' <= Older(dead)
    BY <2>1, <2>2 DEF Ages
  <2> QED
    BY <1>3, <2>2, <2>3, <2>4, OlderFacts
<1>6. Phases'
  BY <1>1, <1>2 DEF Phases, Beating
<1>7. Dead'
  <2>1. phase' # "down" => dead' = 0
    BY <1>1, <1>5
  <2>2. ASSUME seen' # None PROVE dead' <= seen'
    <3>1. Older(dead) <= Older(seen)
      BY <1>3, <1>5, <2>2, OlderFacts DEF Dead
    <3>2. Older(seen) \in Ages /\ Older(dead) \in Ages
      BY <1>3, <1>5, <2>2, OlderFacts, HostAssumption DEF None, Ages
    <3> QED
      BY <1>5, <3>1, <3>2 DEF Ages
  <2> QED
    BY <2>1, <2>2 DEF Dead
<1>8. Alive'
  <2>1. Beating' <=> Beating
    BY <1>1 DEF Beating
  <2>2. ASSUME landed', Beating' PROVE seen' # None /\ seen' <= Lag'
    <3>1. landed /\ Beating /\ "beat" \in timers
      BY <1>1, <2>1, <2>2 DEF Phases
    <3>2. seen # None /\ seen <= Lag /\ seen \in Ages
      BY <1>3, <3>1 DEF Alive
    <3>3. misses * Gap \in Nat /\ (misses + 1) * Gap \in Nat
      BY GapFacts DEF TypeOK
    <3>4. Lag \in Int /\ Lag' = Lag + 1
      <4>1. CASE beat # None
        BY <1>1, <1>2, <1>3, <3>3, <4>1 DEF Lag, None
      <4>2. CASE beat = None
        BY <1>1, <1>2, <1>3, <3>1, <3>3, <4>2 DEF Lag, None
      <4> QED
        BY <4>1, <4>2
    <3> QED
      BY <1>5, <3>2, <3>4 DEF Ages
  <2>3. Beating' /\ waiting'["beat"] = 0 /\ beat' # None => beat' <= timer'
    BY <1>1, <1>2, <1>3, <2>1 DEF Alive, Phases, None
  <2> QED
    BY <2>2, <2>3 DEF Alive
<1>9. CASE ~Asking
  <2>1. check' = check
    BY <1>9 DEF Tick
  <2>2. TypeOK'
    BY <1>1, <1>4, <1>5, <2>1 DEF TypeOK
  <2>3. Asked' /\ AliveIsFresh'
    BY <1>9, <2>1 DEF Asked, AliveIsFresh, Asking
  <2> QED
    BY <1>6, <1>7, <1>8, <2>2, <2>3
<1>10. CASE Asking
  <2>1. /\ check.pending \subseteq Checks /\ check.age \in 0 .. CheckTime
        /\ check.latest \in {None} \cup Ages /\ check.alive \in BOOLEAN
        /\ check.report = "awaited" /\ check.age < CheckTime
    BY <1>10 DEF TypeOK, Tick, Asking
  <2>2. check' = [pending |-> check.pending, age |-> check.age + 1,
                  latest |-> Older(check.latest), alive |-> check.alive,
                  report |-> check.report]
    BY <1>10 DEF Tick, TypeOK
  <2>3. /\ Older(check.latest) \in {None} \cup Ages
        /\ check.latest = None <=> Older(check.latest) = None
        /\ check.latest # None => Older(check.latest) <= check.latest + 1
    BY <2>1, OlderFacts
  <2>4. check' \in [pending : SUBSET Checks, age : 0 .. CheckTime,
                    latest : {None} \cup Ages, alive : BOOLEAN,
                    report : {"none", "awaited", "fresh", "stale"}]
    <3>1. check.age + 1 \in 0 .. CheckTime
      BY <2>1, HostAssumption
    <3> QED
      BY <2>1, <2>2, <2>3, <3>1
  <2>5. TypeOK'
    BY <1>1, <1>4, <1>5, <2>4 DEF TypeOK
  <2>6. ASSUME check.latest # None PROVE dead' <= Older(check.latest)
    <3>1. dead <= check.latest /\ check.latest \in Ages
      BY <1>10, <2>1, <2>6 DEF Asked
    <3>2. Older(dead) <= Older(check.latest)
      BY <1>3, <2>1, <3>1, OlderFacts
    <3>3. Older(dead) \in Ages /\ Older(check.latest) \in Ages
      BY <1>3, <2>3, <2>6, OlderFacts, HostAssumption DEF None, Ages
    <3> QED
      BY <1>5, <3>2, <3>3 DEF Ages
  <2>7. ASSUME check.alive
        PROVE  /\ check'.latest # None
               /\ check'.latest <= (Misses + 1) * Gap + WriteTime + check'.age
    <3>1. /\ check.latest # None
          /\ check.latest <= (Misses + 1) * Gap + WriteTime + check.age
      BY <1>10, <2>7 DEF Asked
    <3>2. (Misses + 1) * Gap + WriteTime \in Nat
      BY GapFacts, HostAssumption
    <3>3. check.latest \in Int /\ Older(check.latest) \in Int
      BY <2>1, <2>3, HostAssumption DEF None, Ages
    <3> QED
      BY <2>1, <2>2, <2>3, <3>1, <3>2, <3>3
  <2>8. Asked' /\ AliveIsFresh'
    BY <1>10, <2>1, <2>2, <2>3, <2>6, <2>7 DEF Asked, AliveIsFresh, Asking
  <2> QED
    BY <1>6, <1>7, <1>8, <2>5, <2>8
<1> QED
  BY <1>9, <1>10

LEMMA NextInv == IInv /\ [Next]_vars => IInv'
<1> SUFFICES ASSUME IInv, [Next]_vars PROVE IInv'
  OBVIOUS
<1>1. CASE StartStep \/ CloseStep \/ Signal \/ JobStep
  BY <1>1, StartTypes, StartPhases, StartRest DEF IInv
<1>2. CASE BeatStep \/ SweepTimer \/ SweepStep
  BY <1>2, ChainTypes, ChainPhases, ChainRest DEF IInv
<1>3. CASE Exit
  BY <1>3, ExitInv
<1>4. CASE CheckStep
  BY <1>4, CheckInv
<1>5. CASE Tick
  BY <1>5, TickInv
<1>6. CASE UNCHANGED vars
  <2>1. UNCHANGED <<phase, processing, handling, waiting, timers, timer, beat, misses, ready,
                    landed, tasks, sweep, seen, dead, skew, check>>
    BY <1>6 DEF vars, hostVars
  <2>2. TypeOK' /\ Phases'
    BY <2>1 DEF IInv, TypeOK, Phases, Beating
  <2>3. Alive' /\ Dead' /\ Asked' /\ AliveIsFresh'
    BY <2>1 DEF IInv, Alive, Lag, Beating, Dead, Asked, Asking, AliveIsFresh
  <2> QED
    BY <2>2, <2>3 DEF IInv
<1> QED
  BY <1>1, <1>2, <1>3, <1>4, <1>5, <1>6 DEF Next

LEMMA Invariance == Spec => []IInv
BY InitInv, NextInv, PTL DEF Spec

-----------------------------------------------------------------------------
\* Every variable of the runner, of the clocks and of the report has its type,
\* and every queue of heartbeats or sweeps its limit.
THEOREM HostTypes == Spec => []TypeOK
<1>1. IInv => TypeOK
  BY DEF IInv
<1> QED
  BY <1>1, Invariance, PTL

\* No report made while a runner works says that there is none, whatever the
\* intervals and the limit, if the limit leaves room for a lost heartbeat.
THEOREM AliveIsReported == Spec => []AliveIsFresh
<1>1. IInv => AliveIsFresh
  BY DEF IInv
<1> QED
  BY <1>1, Invariance, PTL

\* No report made later than the limit after the end of the last runner says
\* that there is one.
THEOREM DeadAreReported == Spec => DeadIsReported
<1>1. IInv /\ [Next]_vars => [Asking /\ check'.report = "fresh" => dead <= Ttl + Skew]_vars
  <2> SUFFICES ASSUME IInv, Next, Asking, check'.report = "fresh", check' # check
               PROVE  dead <= Ttl + Skew
    BY DEF vars, Asking
  <2>1. ~(StartStep \/ CloseStep \/ Signal \/ JobStep \/ Exit)
    BY DEF StartStep, Start, StartSweeps, StartWorker, StartHeart, Started, CloseStep,
       WorkerClosed, HeartStopped, SweepStopped, QueueClosed, Signal, JobStep, ProcessJob,
       EndJob, StalledJobFails, HandlersEnd, Exit
  <2>2. ~(BeatStep \/ SweepTimer \/ SweepStep)
    BY DEF BeatStep, BeatTimer, Record, Recorded, RecordFails, BeatUnchanged, SweepTimer,
       SweepStep, Sweep, TaskSettles
  <2>3. ~Tick
    BY DEF Tick, Asking, IInv, TypeOK
  <2> QED
    BY <2>1, <2>2, <2>3, CheckInv DEF Next
<1> QED
  BY <1>1, Invariance, PTL DEF Spec, DeadIsReported

\* When a runner closes its connections, its job, its heartbeats, its sweeps and
\* their tasks have ended; of the handlers of its worker's events this is not said
\* (index.ts:187-193, recovery.ts:66-72).
THEOREM CloseIsQuiet == Spec => []QuietAfterClose
<1>1. IInv => QuietAfterClose
  BY DEF IInv, Phases, QuietAfterClose, Chains
<1> QED
  BY <1>1, Invariance, PTL
=============================================================================
