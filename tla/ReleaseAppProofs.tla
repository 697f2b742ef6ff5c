-------------------------- MODULE ReleaseAppProofs --------------------------
(***************************************************************************)
(* What the release page keeps, for any number of candidates, clicks and   *)
(* retries, however the answers to its requests are delayed, lost or       *)
(* overtaken, and however often it is mounted again; and that the          *)
(* catalogue page beside it shows one catalogue.                           *)
(***************************************************************************)
EXTENDS ReleaseApp, Catalogue, TLAPS

-----------------------------------------------------------------------------
\* What a release may become, and what handling a request makes of it.
Exists(release) == release.status # NoStatus

IsKnown(release) == release = NoRelease \/ Exists(release)

LEMMA ReleaseFields ==
  ASSUME NEW release \in Snapshots
  PROVE  /\ release.status \in PageStatuses \cup {NoStatus}
         /\ release.attempt \in Attempts /\ release.attempt \in Nat
         /\ release = [status |-> release.status, attempt |-> release.attempt]
BY AppAssumption DEF Snapshots, Attempts

LEMMA ReleasesMoveOn ==
  ASSUME NEW release \in Snapshots, NEW later \in Becomes(release)
  PROVE  /\ later \in Snapshots /\ later.attempt = release.attempt
         /\ Exists(release) => Exists(later) /\ NotBefore(release, later)
         /\ release = NoRelease => later = NoRelease
<1>1. /\ release.status \in PageStatuses \cup {NoStatus} /\ release.attempt \in Attempts
      /\ release = [status |-> release.status, attempt |-> release.attempt]
  BY ReleaseFields
<1> DEFINE reach == CASE release.status = "QUEUED"  -> PageStatuses
                      [] release.status = "TESTING" -> PageStatuses \ {"QUEUED"}
                      [] OTHER                      -> {release.status}
<1>2. later \in [status : reach, attempt : {release.attempt}]
  BY DEF Becomes
<1>3. \A status \in reach :
        \/ status = release.status
        \/ release.status = "QUEUED" /\ status \in PageStatuses
        \/ release.status = "TESTING" /\ status \in PageStatuses \ {"QUEUED"}
  BY <1>1 DEF PageStatuses
<1> HIDE DEF reach
<1>4. /\ later = [status |-> later.status, attempt |-> release.attempt]
      /\ later.attempt = release.attempt
  BY <1>2
<1>5. \/ later.status = release.status
      \/ release.status = "QUEUED" /\ later.status \in PageStatuses
      \/ release.status = "TESTING" /\ later.status \in PageStatuses \ {"QUEUED"}
  BY <1>2, <1>3
<1>6. later \in Snapshots
  <2>1. later.status \in PageStatuses \cup {NoStatus}
    BY <1>1, <1>5
  <2> QED
    BY <1>1, <1>4, <2>1 DEF Snapshots
<1>7. Exists(release) => Exists(later)
  BY <1>5 DEF Exists, PageStatuses, NoStatus
<1>8. NotBefore(release, later)
  <2>1. later.status = release.status => later = release
    BY <1>1, <1>4
  <2> QED
    BY <1>1, <1>4, <1>5, <2>1 DEF NotBefore, Phase, PageStatuses
<1>9. release = NoRelease => later = NoRelease
  BY <1>1, <1>4, <1>5 DEF NoRelease, NoStatus
<1> QED
  BY <1>4, <1>6, <1>7, <1>8, <1>9

LEMMA NotBeforeIsAnOrder ==
  ASSUME NEW one \in Snapshots, NEW two \in Snapshots, NEW three \in Snapshots
  PROVE  /\ NotBefore(one, one)
         /\ NotBefore(one, two) /\ NotBefore(two, three) => NotBefore(one, three)
         /\ NotBefore(one, two) => two.attempt >= one.attempt
<1>1. /\ one.attempt \in Nat /\ two.attempt \in Nat /\ three.attempt \in Nat
      /\ Phase(one) \in Nat /\ Phase(two) \in Nat /\ Phase(three) \in Nat
  BY ReleaseFields DEF Phase
<1> QED
  BY <1>1 DEF NotBefore

\* A release is only made by a submission, and never goes back.
LEMMA RequestsMoveOn ==
  ASSUME server \in [Keys -> Snapshots], NEW key \in Keys, NEW method, Handle(method, key)
  PROVE  \E release \in Snapshots :
           /\ server' = [server EXCEPT ![key] = release]
           /\ Exists(server[key]) => Exists(release) /\ NotBefore(server[key], release)
           /\ server[key] = NoRelease =>
                IF method = "create" THEN Exists(release) ELSE release = NoRelease
<1>0. PICK later \in Becomes(server[key]) :
        /\ Accepts(method, later)
        /\ \E handled \in Handled(method, later) : server' = [server EXCEPT ![key] = handled]
  BY DEF Handle
<1>1. PICK release \in Handled(method, later) : server' = [server EXCEPT ![key] = release]
  BY <1>0
<1>2. /\ later \in Snapshots /\ later.attempt = server[key].attempt
      /\ Exists(server[key]) => Exists(later) /\ NotBefore(server[key], later)
      /\ server[key] = NoRelease => later = NoRelease
  BY ReleasesMoveOn
<1>3. CASE method = "create" /\ later = NoRelease
  <2>1. release = [status |-> "QUEUED", attempt |-> 0]
    BY <1>3 DEF Handled
  <2>2. release \in Snapshots /\ Exists(release) /\ ~Exists(NoRelease)
    BY <2>1, AppAssumption DEF Snapshots, PageStatuses, Attempts, Exists, NoStatus, NoRelease
  <2> QED
    BY <1>1, <1>2, <1>3, <2>2
<1>4. CASE method = "retry"
  <2> DEFINE queued == [status |-> "QUEUED", attempt |-> later.attempt + 1]
  <2>1. release \in Becomes(queued) /\ later.status = "ERROR" /\ later.attempt < MaxAttempt
    BY <1>0, <1>1, <1>4 DEF Handled, Accepts
  <2>2. queued \in Snapshots /\ Exists(queued) /\ later # NoRelease
    BY <1>2, <2>1, ReleaseFields, AppAssumption
       DEF Snapshots, PageStatuses, Attempts, Exists, NoStatus, NoRelease
  <2>3. /\ release \in Snapshots /\ Exists(release) /\ release.attempt = later.attempt + 1
    <3> HIDE DEF queued
    <3>1. release \in Snapshots /\ Exists(release) /\ release.attempt = queued.attempt
      BY <2>1, <2>2, ReleasesMoveOn
    <3> QED
      BY <3>1 DEF queued
  <2>4. NotBefore(server[key], release)
    BY <1>2, <2>3, ReleaseFields DEF NotBefore
  <2> QED
    BY <1>1, <1>2, <2>2, <2>3, <2>4
<1>5. CASE method # "retry" /\ ~(method = "create" /\ later = NoRelease)
  <2>1. release = later
    BY <1>5 DEF Handled
  <2> QED
    BY <1>1, <1>2, <1>5, <2>1
<1> QED
  BY <1>3, <1>4, <1>5

-----------------------------------------------------------------------------
(***************************************************************************)
(* Every variable keeps its type.                                          *)
(***************************************************************************)
LEMMA Constants ==
  /\ MaxCalls \in Nat /\ MaxAttempt \in Nat
  /\ 0 \in Generations /\ 0 \in Attempts /\ Generations \subseteq Nat
  /\ Keys = Generations /\ NoKey \notin Keys /\ NoRelease \in Snapshots
BY AppAssumption DEF Generations, Attempts, Keys, NoKey, NoRelease, Snapshots

LEMMA ScreenStates ==
  ASSUME NEW key \in Keys, NEW release \in Snapshots
  PROVE  /\ CreateActiveState(key, release) \in Screens
         /\ [CreateActiveState(key, release) EXCEPT !.polling = FALSE] \in Screens
         /\ \A status \in {"idle", "submitting", "error"} : Inactive(status) \in Screens
BY Constants DEF CreateActiveState, Inactive, Screens

LEMMA RequestIsACall ==
  ASSUME NEW call \in Calls, NEW pc \in Steps
  PROVE  /\ Request(call, pc) \in Calls
         /\ Request(call, pc).pc = pc /\ Request(call, pc).answer = NoRelease
         /\ Request(call, pc).key = call.key /\ Request(call, pc).candidate = call.candidate
BY Constants DEF Request, Calls

\* What supersedes a call leaves it its key, and never begins or ends another
\* step than polling.
LEMMA SupersededCall ==
  ASSUME AppTypeOK, NEW g \in Generations
  PROVE  /\ Superseded(g) \in Calls
         /\ Superseded(g).key = calls[g].key /\ Superseded(g).candidate = calls[g].candidate
         /\ \/ Superseded(g) = calls[g]
            \/ Superseded(g).pc = "done" /\ calls[g].pc = "poll" /\ g = current
               /\ Superseded(g).answer = NoRelease
BY RequestIsACall DEF AppTypeOK, Superseded, Steps

\* The calls after a click.
BeginsCall(g, pc, candidate, key) ==
  /\ calls' \in [Generations -> Calls]
  /\ \A h \in Generations \ {g} : calls'[h] = Superseded(h)
  /\ calls'[g] = [pc |-> pc, candidate |-> candidate, key |-> key, answer |-> NoRelease]

LEMMA ClickBeginsCall ==
  ASSUME AppTypeOK, NEW g \in Generations, NEW pc \in Steps, NEW candidate \in Candidates,
         NEW key \in Keys, BeginRequest(g, pc, candidate, key)
  PROVE  /\ BeginsCall(g, pc, candidate, key)
         /\ current' = g /\ UNCHANGED <<server, adrift, told>>
         /\ calls'[g].pc = pc /\ calls'[g].candidate = candidate /\ calls'[g].key = key
         /\ calls'[g].answer = NoRelease
<1>1. [Request(calls[g], pc) EXCEPT !.candidate = candidate, !.key = key]
        = [pc |-> pc, candidate |-> candidate, key |-> key, answer |-> NoRelease]
  <2>1. calls[g] \in Calls
    BY DEF AppTypeOK
  <2>2. /\ Request(calls[g], pc) \in Calls
        /\ Request(calls[g], pc).pc = pc /\ Request(calls[g], pc).answer = NoRelease
    BY <2>1, RequestIsACall
  <2>3. ASSUME NEW call \in Calls
        PROVE  [call EXCEPT !.candidate = candidate, !.key = key]
                 = [pc |-> call.pc, candidate |-> candidate, key |-> key, answer |-> call.answer]
    <3> DEFINE renamed == [call EXCEPT !.candidate = candidate, !.key = key]
    <3>1. renamed \in Calls
      BY Constants DEF Calls
    <3>2. /\ renamed.pc = call.pc /\ renamed.candidate = candidate
          /\ renamed.key = key /\ renamed.answer = call.answer
      BY DEF Calls
    <3> HIDE DEF renamed
    <3>3. renamed = [pc |-> call.pc, candidate |-> candidate, key |-> key, answer |-> call.answer]
      BY <3>1, <3>2 DEF Calls
    <3> QED
      BY <3>3 DEF renamed
  <2> QED
    BY <2>2, <2>3
<1>2. [pc |-> pc, candidate |-> candidate, key |-> key, answer |-> NoRelease] \in Calls
  BY Constants DEF Calls
<1>3. BeginsCall(g, pc, candidate, key)
  BY <1>1, <1>2, SupersededCall DEF BeginRequest, BeginsCall
<1>4. current' = g /\ UNCHANGED <<server, adrift, told>>
  BY DEF BeginRequest, serverVars
<1> QED
  BY <1>3, <1>4 DEF BeginsCall

\* The calls after a call has gone on.
SendsNext(g, pc) ==
  /\ calls' \in [Generations -> Calls]
  /\ \A h \in Generations \ {g} : calls'[h] = calls[h]
  /\ calls'[g] = [pc |-> pc, candidate |-> calls[g].candidate, key |-> calls[g].key,
                  answer |-> NoRelease]

LEMMA SendIsTyped ==
  ASSUME AppTypeOK, NEW g \in Generations, NEW pc \in Steps, Send(g, pc)
  PROVE  /\ SendsNext(g, pc)
         /\ calls'[g].pc = pc /\ calls'[g].candidate = calls[g].candidate
         /\ calls'[g].key = calls[g].key /\ calls'[g].answer = NoRelease
<1>0. calls[g] \in Calls
  BY DEF AppTypeOK
<1>1. Request(calls[g], pc) = [pc |-> pc, candidate |-> calls[g].candidate,
                               key |-> calls[g].key, answer |-> NoRelease]
  BY <1>0, RequestIsACall DEF Calls
<1>2. Request(calls[g], pc) \in Calls
  BY RequestIsACall DEF AppTypeOK
<1>3. SendsNext(g, pc)
  BY <1>1, <1>2 DEF Send, SendsNext, AppTypeOK
<1> QED
  BY <1>3 DEF SendsNext

-----------------------------------------------------------------------------
LEMMA KeyForIsAKey ==
  ASSUME AppTypeOK, NEW candidate \in Candidates, NEW g \in Generations
  PROVE  /\ KeyFor(candidate, g) \in Keys
         /\ KeyFor(candidate, g) \in {pending[candidate], stored[candidate], g}
         /\ KeyFor(candidate, g) = g \/ KeyFor(candidate, g) # NoKey
BY Constants DEF KeyFor, AppTypeOK

LEMMA ClickIsTyped ==
  ASSUME AppTypeOK, NEW g \in Generations, Click(g)
  PROVE  AppTypeOK'
<1>1. ASSUME NEW pc \in Steps, NEW candidate \in Candidates, NEW key \in Keys,
             BeginRequest(g, pc, candidate, key)
      PROVE  /\ calls' \in [Generations -> Calls] /\ current' \in Generations
             /\ UNCHANGED <<serverVars, told>>
  BY <1>1, ClickBeginsCall DEF BeginsCall, BeginRequest
<1>2. ASSUME NEW candidate \in Candidates, CreateRelease(candidate, g) PROVE AppTypeOK'
  <2>1. KeyFor(candidate, g) \in Keys
    BY KeyForIsAKey
  <2>2. /\ calls' \in [Generations -> Calls] /\ current' \in Generations
        /\ UNCHANGED <<serverVars, told>>
    BY <1>1, <1>2, <2>1 DEF CreateRelease, Steps
  <2>3. screen' \in Screens
    BY <1>2, ScreenStates, Constants DEF CreateRelease
  <2>4. pending' \in [Candidates -> Keys \cup {NoKey}] /\ stored' \in [Candidates -> Keys \cup {NoKey}]
    BY <1>2, <2>1 DEF CreateRelease, AppTypeOK
  <2> QED
    BY <2>2, <2>3, <2>4 DEF AppTypeOK, serverVars
<1>3. ASSUME NEW pc \in Steps, BeginOnShown(g, pc), screen' \in Screens PROVE AppTypeOK'
  <2>1. screen.key \in Keys /\ calls[screen.key].candidate \in Candidates
    BY Constants DEF AppTypeOK, Screens, Calls
  <2>2. /\ calls' \in [Generations -> Calls] /\ current' \in Generations
        /\ UNCHANGED <<serverVars, told>>
    BY <1>1, <1>3, <2>1 DEF BeginOnShown
  <2> QED
    BY <1>3, <2>2 DEF AppTypeOK, serverVars, BeginOnShown, keyVars
<1>4. CASE ResumeStatusChecks(g) \/ RetryEvidence(g) \/ RetryRelease(g)
  <2>1. screen' \in Screens
    BY <1>4 DEF ResumeStatusChecks, RetryEvidence, RetryRelease, Loading, AppTypeOK, Screens
  <2> QED
    BY <1>3, <1>4, <2>1 DEF ResumeStatusChecks, RetryEvidence, RetryRelease, Steps
<1> QED
  BY <1>2, <1>4 DEF Click

LEMMA HandlingIsTyped ==
  ASSUME AppTypeOK, NEW method, NEW key \in Keys, Handle(method, key)
  PROVE  server' \in [Keys -> Snapshots]
BY RequestsMoveOn DEF AppTypeOK

LEMMA AnswerIsTyped ==
  ASSUME AppTypeOK, NEW g \in Generations, Answer(g)
  PROVE  /\ AppTypeOK'
         /\ \A h \in Generations \ {g} : calls'[h] = calls[h]
         /\ calls'[g] = [calls[g] EXCEPT !.answer = server'[calls[g].key]]
<1>1. calls[g] \in Calls /\ calls[g].key \in Keys
  BY DEF AppTypeOK, Calls
<1>2. server' \in [Keys -> Snapshots]
  BY <1>1, HandlingIsTyped DEF Answer
<1>3. [calls[g] EXCEPT !.answer = server'[calls[g].key]] \in Calls
  BY <1>1, <1>2 DEF Calls
<1> QED
  BY <1>2, <1>3 DEF Answer, AppTypeOK, keyVars

LEMMA LateIsTyped ==
  ASSUME AppTypeOK, NEW request \in adrift, HandleLate(request)
  PROVE  AppTypeOK'
<1>1. request[2] \in Keys
  BY DEF AppTypeOK
<1>2. server' \in [Keys -> Snapshots]
  BY <1>1, HandlingIsTyped DEF HandleLate
<1> QED
  BY <1>2 DEF HandleLate, AppTypeOK, keyVars

LEMMA RemountIsTyped ==
  ASSUME AppTypeOK, Remount
  PROVE  AppTypeOK'
<1>1. calls' \in [Generations -> Calls]
  BY SupersededCall DEF Remount
<1>2. screen' \in Screens
  BY ScreenStates, Constants DEF Remount
<1> QED
  BY <1>1, <1>2, Constants DEF Remount, AppTypeOK, serverVars

\* What every continuation of a call does.
GoesOn(g) ==
  /\ \E pc \in Steps \ {"none", "create"} : SendsNext(g, pc)
  /\ calls[g].pc \in Requesting
  /\ \/ adrift' = adrift
     \/ Waits(g) /\ adrift' = adrift \cup ({<<calls[g].pc, calls[g].key>>}
                                             \cap ({"create", "retry"} \X Keys))
  /\ UNCHANGED <<current, server>>
  /\ \/ UNCHANGED keyVars
     \/ IsCurrent(g) /\ calls[g].pc = "create" /\ ClearKey(calls[g].candidate)
  /\ told' \in {told, told \cup {calls[g].key}}

LEMMA ContinuationGoesOn ==
  ASSUME AppTypeOK, NEW g \in Generations,
         Continue(g) \/ (PollTimesOut(g) /\ UNCHANGED <<current, server>>)
  PROVE  GoesOn(g)
<1>1. ASSUME NEW pc \in Steps \ {"none", "create"}, Send(g, pc)
      PROVE  \E next \in Steps \ {"none", "create"} : SendsNext(g, next)
  BY <1>1, SendIsTyped
<1>2. "done" \in Steps \ {"none", "create"} /\ "poll" \in Steps \ {"none", "create"}
      /\ "reconcile" \in Steps \ {"none", "create"} /\ "artifacts" \in Steps \ {"none", "create"}
  BY DEF Steps
<1>3. ASSUME NEW pc \in Requesting, Gets(g, pc) \/ Loses(g, pc) \/ IsRejected(g, pc)
      PROVE  /\ calls[g].pc \in Requesting
             /\ \/ adrift' = adrift
                \/ Waits(g) /\ adrift' = adrift \cup ({<<calls[g].pc, calls[g].key>>}
                                                       \cap ({"create", "retry"} \X Keys))
  BY <1>3 DEF Gets, Loses, IsRejected
<1> USE DEF GoesOn, Requesting
<1>4. CASE PollTimesOut(g) /\ UNCHANGED <<current, server>>
  BY <1>1, <1>2, <1>4 DEF PollTimesOut, Paused, End
<1>5. CASE EndSuperseded(g) /\ UNCHANGED <<current, server>>
  BY <1>1, <1>2, <1>3, <1>5 DEF EndSuperseded, End
<1>6. CASE Created(g) /\ UNCHANGED <<current, server>>
  BY <1>1, <1>2, <1>3, <1>6 DEF Created, ShowAndPoll, Gets
<1>7. CASE NotCreated(g) /\ UNCHANGED <<current, server>>
  BY <1>1, <1>2, <1>3, <1>7 DEF NotCreated, End, Loses, IsRejected
<1>8. CASE (Retried(g) \/ NotRetried(g)) /\ UNCHANGED <<current, server>>
  BY <1>1, <1>2, <1>3, <1>8 DEF Retried, NotRetried, ShowAndPoll
<1>9. CASE Reconciled(g) /\ UNCHANGED <<current, server>>
  BY <1>1, <1>2, <1>3, <1>9 DEF Reconciled, ShowAndPoll, End
<1>10. CASE Polled(g) /\ UNCHANGED <<current, server>>
  BY <1>1, <1>2, <1>3, <1>10 DEF Polled, Paused, End
<1>11. CASE ArtifactsLoaded(g) /\ UNCHANGED <<current, server>>
  BY <1>1, <1>2, <1>3, <1>11 DEF ArtifactsLoaded, ArtifactsShown, End
<1> QED
  BY <1>4, <1>5, <1>6, <1>7, <1>8, <1>9, <1>10, <1>11 DEF Continue

\* What it makes of the screen.
ScreenGoesOn(g) ==
  LET answer == calls[g].answer
      polled == [screen EXCEPT !.shown = answer, !.pollError = FALSE, !.polling = TRUE]
  IN
  \/ UNCHANGED screen
  \/ NotCreated(g) /\ screen' = Inactive("error")
  \/ /\ Created(g) \/ Retried(g) \/ Reconciled(g)
     /\ answer # NoRelease
     /\ screen' \in {CreateActiveState(calls[g].key, answer),
                     [CreateActiveState(calls[g].key, answer) EXCEPT !.polling = FALSE]}
  \/ /\ screen.status = "active" /\ screen.key = calls[g].key
     /\ \/ calls[g].pc = "reconcile" /\ screen' = [screen EXCEPT !.retrying = FALSE]
        \/ calls[g].pc = "poll" /\ screen' = [screen EXCEPT !.pollError = TRUE, !.polling = FALSE]
        \/ /\ calls[g].pc = "poll" /\ answer # NoRelease
           /\ screen' \in {polled, Loading(polled)}
        \/ /\ calls[g].pc = "artifacts" /\ answer # NoRelease
           /\ screen' = [screen EXCEPT !.artifacts = answer.attempt]
        \/ calls[g].pc = "artifacts" /\ screen' = [screen EXCEPT !.evidenceError = TRUE]

LEMMA ContinuationOnScreen ==
  ASSUME NEW g \in Generations, Continue(g) \/ PollTimesOut(g)
  PROVE  ScreenGoesOn(g) /\ (UNCHANGED screen \/ IsCurrent(g))
<1>1. CASE EndSuperseded(g) \/ NotRetried(g)
  BY <1>1 DEF EndSuperseded, NotRetried, ScreenGoesOn
<1>2. CASE NotCreated(g)
  BY <1>2 DEF NotCreated, ScreenGoesOn
<1>3. CASE Created(g) \/ Retried(g)
  BY <1>3 DEF Created, Retried, ShowAndPoll, Gets, ScreenGoesOn
<1>4. CASE Reconciled(g)
  BY <1>4 DEF Reconciled, ShowAndPoll, Gets, Loses, UpdateActiveState, ScreenGoesOn
<1>5. CASE PollTimesOut(g)
  BY <1>5 DEF PollTimesOut, Paused, UpdateActiveState, ScreenGoesOn
<1>6. CASE Polled(g)
  BY <1>6 DEF Polled, Paused, Gets, Loses, UpdateActiveState, ScreenGoesOn
<1>7. CASE ArtifactsLoaded(g)
  BY <1>7 DEF ArtifactsLoaded, ArtifactsShown, Gets, Loses, UpdateActiveState, ScreenGoesOn
<1> QED
  BY <1>1, <1>2, <1>3, <1>4, <1>5, <1>6, <1>7 DEF Continue

LEMMA ContinuationIsTyped ==
  ASSUME AppTypeOK, NEW g \in Generations, GoesOn(g), ScreenGoesOn(g)
  PROVE  AppTypeOK'
<1>1. calls[g].candidate \in Candidates /\ calls[g].key \in Keys /\ calls[g].answer \in Snapshots
  BY DEF AppTypeOK, Calls
<1>2. screen' \in Screens
  <2>1. \/ screen' \in Screens
        \/ /\ screen.status = "active" /\ screen.key = calls[g].key
           /\ \/ screen' = [screen EXCEPT !.retrying = FALSE]
              \/ screen' = [screen EXCEPT !.pollError = TRUE, !.polling = FALSE]
              \/ screen' \in {[screen EXCEPT !.shown = calls[g].answer, !.pollError = FALSE,
                                             !.polling = TRUE],
                              Loading([screen EXCEPT !.shown = calls[g].answer,
                                                     !.pollError = FALSE, !.polling = TRUE])}
              \/ screen' = [screen EXCEPT !.artifacts = calls[g].answer.attempt]
              \/ screen' = [screen EXCEPT !.evidenceError = TRUE]
    BY <1>1, ScreenStates DEF ScreenGoesOn, AppTypeOK
  <2>2. calls[g].answer.attempt \in Attempts
    BY <1>1, ReleaseFields
  <2> QED
    BY <1>1, <2>1, <2>2 DEF AppTypeOK, Screens, Loading
<1>3. pending' \in [Candidates -> Keys \cup {NoKey}] /\ stored' \in [Candidates -> Keys \cup {NoKey}]
  BY <1>1 DEF GoesOn, keyVars, ClearKey, AppTypeOK
<1>4. adrift' \subseteq {"create", "retry"} \X Keys /\ told' \subseteq Keys
  BY <1>1 DEF GoesOn, AppTypeOK
<1> QED
  BY <1>2, <1>3, <1>4 DEF GoesOn, SendsNext, AppTypeOK

LEMMA TypesAreKept ==
  ASSUME AppTypeOK, [Next]_vars
  PROVE  AppTypeOK'
<1>1. CASE UNCHANGED vars
  BY <1>1 DEF vars, AppTypeOK
<1>2. ASSUME NEW g \in Generations,
             Continue(g) \/ (PollTimesOut(g) /\ UNCHANGED <<current, server>>)
      PROVE  AppTypeOK'
  BY <1>2, ContinuationGoesOn, ContinuationOnScreen, ContinuationIsTyped
<1> QED
  BY <1>1, <1>2, ClickIsTyped, AnswerIsTyped, RemountIsTyped, LateIsTyped DEF Next, Deadline

LEMMA InitIsTyped == Init => AppTypeOK
<1> SUFFICES ASSUME Init PROVE AppTypeOK
  OBVIOUS
<1>1. (CHOOSE c \in Candidates : TRUE) \in Candidates
  BY AppAssumption
<1>2. calls \in [Generations -> Calls]
  BY <1>1, Constants DEF Init, Calls, Steps
<1>3. screen \in Screens
  BY ScreenStates, Constants DEF Init
<1>4. pending \in [Candidates -> Keys \cup {NoKey}] /\ stored \in [Candidates -> Keys \cup {NoKey}]
  BY Constants DEF Init
<1>5. adrift \subseteq {"create", "retry"} \X Keys
  BY Constants DEF Init
<1> QED
  BY <1>2, <1>3, <1>4, <1>5, Constants DEF Init, AppTypeOK

\* The page's state, its calls and the requests under way keep their form:
\* no key, attempt or answer is used that no click or release has.
THEOREM AppTypeCorrect == Spec => []AppTypeOK
BY InitIsTyped, TypesAreKept, PTL DEF Spec

-----------------------------------------------------------------------------
(***************************************************************************)
(* What is shown.  An answer is never ahead of the server, and the page    *)
(* never ahead of an answer its current call still gets; a poll goes on,   *)
(* or may be resumed, only while no evidence is shown.                     *)
(***************************************************************************)
AnswersAreKnown ==
  /\ \A k \in Keys : server[k] # NoRelease => Exists(server[k])
  /\ \A g \in Generations : calls[g].answer # NoRelease =>
       /\ Exists(calls[g].answer) /\ Exists(server[calls[g].key])
       /\ NotBefore(calls[g].answer, server[calls[g].key])

ShownIsKnown ==
  screen.status = "active" =>
    /\ Exists(screen.shown) /\ Exists(server[screen.key])
    /\ NotBefore(screen.shown, server[screen.key])
    /\ calls[current].key = screen.key /\ calls[current].answer # NoRelease =>
         NotBefore(screen.shown, calls[current].answer)

OnScreen == {"retry", "reconcile", "poll", "artifacts"}

CurrentIsShown ==
  calls[current].pc \in OnScreen => screen.status = "active" /\ screen.key = calls[current].key

EvidenceIsLast ==
  /\ calls[current].pc = "poll" \/ screen.pollError =>
       ~screen.evidenceError /\ screen.artifacts = NoArtifacts
  /\ calls[current].pc = "artifacts" => ~screen.pollError

ScreenInv == ShownIsKnown /\ CurrentIsShown /\ EvidenceIsLast /\ EvidenceIsOfShownAttempt

ShownInv == AnswersAreKnown /\ ScreenInv

ServerMovesOn ==
  \A k \in Keys :
    /\ Exists(server[k]) => Exists(server'[k]) /\ NotBefore(server[k], server'[k])
    /\ server'[k] # NoRelease => Exists(server'[k])

LEMMA HandlingMovesOn ==
  ASSUME AppTypeOK, AnswersAreKnown, NEW method, NEW key \in Keys, Handle(method, key)
  PROVE  ServerMovesOn
<1>1. PICK release \in Snapshots :
        /\ server' = [server EXCEPT ![key] = release]
        /\ Exists(server[key]) => Exists(release) /\ NotBefore(server[key], release)
        /\ server[key] = NoRelease =>
             IF method = "create" THEN Exists(release) ELSE release = NoRelease
  BY RequestsMoveOn DEF AppTypeOK
<1>2. release # NoRelease => Exists(release)
  BY <1>1 DEF AnswersAreKnown
<1>3. \A k \in Keys : server[k] \in Snapshots /\ NotBefore(server[k], server[k])
  BY NotBeforeIsAnOrder DEF AppTypeOK
<1> QED
  BY <1>1, <1>2, <1>3 DEF ServerMovesOn, AnswersAreKnown, AppTypeOK

\* A call keeps its answer or has none, unless it has just got the server's.
LEMMA AnswersStayKnown ==
  ASSUME AppTypeOK, AppTypeOK', AnswersAreKnown, ServerMovesOn \/ UNCHANGED server,
         \A g \in Generations :
           \/ calls'[g].answer = NoRelease
           \/ calls'[g].key = calls[g].key /\ calls'[g].answer = calls[g].answer
           \/ calls'[g].answer = server'[calls'[g].key]
  PROVE  AnswersAreKnown'
<1>1. \A k \in Keys : server[k] \in Snapshots /\ server'[k] \in Snapshots
  BY DEF AppTypeOK
<1>2. \A k \in Keys :
        /\ Exists(server[k]) => Exists(server'[k]) /\ NotBefore(server[k], server'[k])
        /\ server'[k] # NoRelease => Exists(server'[k])
  BY <1>1, NotBeforeIsAnOrder DEF ServerMovesOn, AnswersAreKnown
<1>3. ASSUME NEW g \in Generations, calls'[g].answer # NoRelease
      PROVE  /\ Exists(calls'[g].answer) /\ Exists(server'[calls'[g].key])
             /\ NotBefore(calls'[g].answer, server'[calls'[g].key])
  <2>1. /\ calls[g].key \in Keys /\ calls'[g].key \in Keys
        /\ calls[g].answer \in Snapshots /\ calls'[g].answer \in Snapshots
    BY DEF AppTypeOK, Calls
  <2>2. CASE calls'[g].key = calls[g].key /\ calls'[g].answer = calls[g].answer
    <3>1. /\ Exists(calls[g].answer) /\ Exists(server[calls[g].key])
          /\ NotBefore(calls[g].answer, server[calls[g].key])
      BY <1>3, <2>2 DEF AnswersAreKnown
    <3>2. NotBefore(calls[g].answer, server'[calls[g].key])
      BY <1>1, <1>2, <2>1, <3>1, NotBeforeIsAnOrder
    <3> QED
      BY <1>2, <2>1, <2>2, <3>1, <3>2
  <2>3. CASE calls'[g].answer = server'[calls'[g].key]
    BY <1>1, <1>2, <1>3, <2>1, <2>3, NotBeforeIsAnOrder
  <2> QED
    BY <1>3, <2>2, <2>3
<1> QED
  BY <1>2, <1>3 DEF AnswersAreKnown

LEMMA AnswersAreKept ==
  ASSUME AppTypeOK, AnswersAreKnown, [Next]_vars
  PROVE  AnswersAreKnown'
<1>0. AppTypeOK'
  BY TypesAreKept
<1>1. ASSUME NEW g \in Generations, NEW pc \in Steps, NEW candidate \in Candidates,
             NEW key \in Keys, BeginRequest(g, pc, candidate, key)
      PROVE  AnswersAreKnown'
  <2>1. BeginsCall(g, pc, candidate, key) /\ UNCHANGED server
    BY <1>1, ClickBeginsCall
  <2>2. \A h \in Generations :
          \/ calls'[h].answer = NoRelease
          \/ calls'[h].key = calls[h].key /\ calls'[h].answer = calls[h].answer
    BY <2>1, SupersededCall DEF BeginsCall
  <2> QED
    BY <1>0, <2>1, <2>2, AnswersStayKnown
<1>2. ASSUME NEW g \in Generations, Click(g) PROVE AnswersAreKnown'
  <2>1. CASE \E candidate \in Candidates : CreateRelease(candidate, g)
    BY <1>1, <2>1, KeyForIsAKey DEF CreateRelease, Steps
  <2>2. ASSUME NEW pc \in Steps, BeginOnShown(g, pc) PROVE AnswersAreKnown'
    <3>1. screen.key \in Keys /\ calls[screen.key].candidate \in Candidates
      BY Constants DEF AppTypeOK, Screens, Calls
    <3> QED
      BY <1>1, <2>2, <3>1 DEF BeginOnShown
  <2> QED
    BY <1>2, <2>1, <2>2 DEF Click, ResumeStatusChecks, RetryEvidence, RetryRelease, Steps
<1>3. ASSUME NEW g \in Generations, Answer(g) PROVE AnswersAreKnown'
  <2>1. calls[g] \in Calls /\ calls[g].key \in Keys
    BY DEF AppTypeOK, Calls
  <2>2. ServerMovesOn
    BY <1>3, <2>1, HandlingMovesOn DEF Answer
  <2>3. /\ \A h \in Generations \ {g} : calls'[h] = calls[h]
        /\ calls'[g].key = calls[g].key /\ calls'[g].answer = server'[calls[g].key]
    BY <1>3, <2>1, AnswerIsTyped DEF Calls
  <2> QED
    BY <1>0, <2>2, <2>3, AnswersStayKnown
<1>4. ASSUME NEW request \in adrift, HandleLate(request) PROVE AnswersAreKnown'
  <2>1. request[2] \in Keys
    BY DEF AppTypeOK
  <2>2. ServerMovesOn
    BY <1>4, <2>1, HandlingMovesOn DEF HandleLate
  <2> QED
    BY <1>0, <1>4, <2>2, AnswersStayKnown DEF HandleLate
<1>5. CASE Remount
  <2>1. \A g \in Generations : calls'[g] = Superseded(g)
    BY <1>5 DEF Remount
  <2>2. UNCHANGED server
    BY <1>5 DEF Remount, serverVars
  <2> QED
    BY <1>0, <2>1, <2>2, SupersededCall, AnswersStayKnown
<1>6. ASSUME NEW g \in Generations,
             Continue(g) \/ (PollTimesOut(g) /\ UNCHANGED <<current, server>>)
      PROVE  AnswersAreKnown'
  <2>1. GoesOn(g)
    BY <1>6, ContinuationGoesOn
  <2>2. PICK pc \in Steps : SendsNext(g, pc)
    BY <2>1 DEF GoesOn
  <2>3. UNCHANGED server
    BY <2>1 DEF GoesOn
  <2> QED
    BY <1>0, <2>2, <2>3, AnswersStayKnown DEF SendsNext
<1>7. CASE UNCHANGED vars
  BY <1>0, <1>7, AnswersStayKnown DEF vars
<1> QED
  BY <1>2, <1>3, <1>4, <1>5, <1>6, <1>7 DEF Next, Deadline

-----------------------------------------------------------------------------
\* An earlier visit of the page has no call any more.
FirstIsOver == calls[0].pc = "done"

LEMMA FirstStaysOver ==
  ASSUME AppTypeOK, FirstIsOver, [Next]_vars
  PROVE  FirstIsOver'
<1>1. ASSUME NEW g \in Generations, NEW pc \in Steps, NEW candidate \in Candidates,
             NEW key \in Keys, BeginRequest(g, pc, candidate, key)
      PROVE  FirstIsOver'
  <2>1. g # 0
    BY <1>1 DEF BeginRequest, IsNext, FirstIsOver
  <2>2. calls'[0] = Superseded(0)
    BY <1>1, <2>1, ClickBeginsCall, Constants DEF BeginsCall
  <2> QED
    BY <2>2 DEF Superseded, FirstIsOver
<1>2. ASSUME NEW g \in Generations, Click(g) PROVE FirstIsOver'
  <2>1. CASE \E candidate \in Candidates : CreateRelease(candidate, g)
    BY <1>1, <2>1, KeyForIsAKey DEF CreateRelease, Steps
  <2>2. ASSUME NEW pc \in Steps, BeginOnShown(g, pc) PROVE FirstIsOver'
    <3>1. screen.key \in Keys /\ calls[screen.key].candidate \in Candidates
      BY Constants DEF AppTypeOK, Screens, Calls
    <3> QED
      BY <1>1, <2>2, <3>1 DEF BeginOnShown
  <2> QED
    BY <1>2, <2>1, <2>2 DEF Click, ResumeStatusChecks, RetryEvidence, RetryRelease, Steps
<1>3. ASSUME NEW g \in Generations, Answer(g) PROVE FirstIsOver'
  BY <1>3, AnswerIsTyped, Constants DEF Answer, Waits, Requesting, FirstIsOver
<1>4. CASE Remount
  BY <1>4, Constants DEF Remount, Superseded, FirstIsOver
<1>5. ASSUME NEW g \in Generations,
             Continue(g) \/ (PollTimesOut(g) /\ UNCHANGED <<current, server>>)
      PROVE  FirstIsOver'
  BY <1>5, ContinuationGoesOn, Constants DEF GoesOn, SendsNext, Requesting, FirstIsOver
<1> QED
  BY <1>2, <1>3, <1>4, <1>5 DEF Next, Deadline, HandleLate, vars, FirstIsOver

\* A step that is not the page's own leaves the screen true.
LEMMA ScreenStaysTrue ==
  ASSUME AppTypeOK, AppTypeOK', ShownInv, ServerMovesOn \/ UNCHANGED server,
         UNCHANGED <<screen, current>>,
         calls'[current].pc = calls[current].pc, calls'[current].key = calls[current].key,
         calls'[current].answer \in {calls[current].answer, server'[calls[current].key]}
  PROVE  ScreenInv'
<1>1. /\ \A k \in Keys : server[k] \in Snapshots /\ server'[k] \in Snapshots
      /\ current \in Generations /\ screen.key \in Keys /\ screen.shown \in Snapshots
  BY DEF AppTypeOK, Screens
<1>2. \A k \in Keys : Exists(server[k]) => Exists(server'[k]) /\ NotBefore(server[k], server'[k])
  BY <1>1, NotBeforeIsAnOrder DEF ServerMovesOn
<1>3. ShownIsKnown'
  <2> SUFFICES ASSUME screen.status = "active"
               PROVE  /\ Exists(screen.shown) /\ Exists(server'[screen.key])
                      /\ NotBefore(screen.shown, server'[screen.key])
                      /\ calls'[current].key = screen.key /\ calls'[current].answer # NoRelease =>
                           NotBefore(screen.shown, calls'[current].answer)
    BY DEF ShownIsKnown
  <2>1. /\ Exists(screen.shown) /\ Exists(server[screen.key])
        /\ NotBefore(screen.shown, server[screen.key])
        /\ calls[current].key = screen.key /\ calls[current].answer # NoRelease =>
             NotBefore(screen.shown, calls[current].answer)
    BY DEF ShownInv, ScreenInv, ShownIsKnown
  <2>2. NotBefore(screen.shown, server'[screen.key])
    BY <1>1, <1>2, <2>1, NotBeforeIsAnOrder
  <2> QED
    BY <1>1, <1>2, <2>1, <2>2
<1>4. CurrentIsShown' /\ EvidenceIsLast' /\ EvidenceIsOfShownAttempt'
  BY DEF ShownInv, ScreenInv, CurrentIsShown, EvidenceIsLast, EvidenceIsOfShownAttempt
<1> QED
  BY <1>3, <1>4 DEF ScreenInv

LEMMA ClickKeepsScreen ==
  ASSUME AppTypeOK, ShownInv, NEW g \in Generations, Click(g)
  PROVE  ScreenInv'
<1>1. ASSUME NEW candidate \in Candidates, CreateRelease(candidate, g) PROVE ScreenInv'
  <2>1. /\ current' = g /\ calls'[g].pc = "create"
        /\ screen' = Inactive("submitting")
    BY <1>1, KeyForIsAKey, ClickBeginsCall DEF CreateRelease, Steps
  <2>2. /\ screen'.status = "submitting" /\ ~screen'.pollError
        /\ screen'.artifacts = NoArtifacts
    BY <2>1 DEF Inactive, CreateActiveState
  <2> QED
    BY <2>1, <2>2 DEF ScreenInv, ShownIsKnown, CurrentIsShown, OnScreen, EvidenceIsLast,
                      EvidenceIsOfShownAttempt
<1>2. ASSUME NEW pc \in Steps, BeginOnShown(g, pc), screen' \in Screens,
             screen'.status = screen.status, screen'.key = screen.key,
             screen'.shown = screen.shown, screen'.artifacts = screen.artifacts, EvidenceIsLast'
      PROVE  ScreenInv'
  <2>1. screen.key \in Keys /\ calls[screen.key].candidate \in Candidates
    BY Constants DEF AppTypeOK, Screens, Calls
  <2>2. /\ current' = g /\ UNCHANGED server /\ screen.status = "active"
        /\ calls'[g].key = screen.key /\ calls'[g].answer = NoRelease
    BY <1>2, <2>1, ClickBeginsCall DEF BeginOnShown
  <2> QED
    BY <1>2, <2>2 DEF ShownInv, ScreenInv, ShownIsKnown, CurrentIsShown, EvidenceIsOfShownAttempt
<1>3. ASSUME NEW pc \in Steps, BeginOnShown(g, pc)
      PROVE  current' = g /\ calls'[g].pc = pc
  <2>1. screen.key \in Keys /\ calls[screen.key].candidate \in Candidates
    BY Constants DEF AppTypeOK, Screens, Calls
  <2> QED
    BY <1>3, <2>1, ClickBeginsCall DEF BeginOnShown
<1>4. screen \in Screens
  BY DEF AppTypeOK
<1>5. CASE ResumeStatusChecks(g)
  <2>1. /\ screen' \in Screens
        /\ screen'.status = screen.status /\ screen'.key = screen.key
        /\ screen'.shown = screen.shown /\ screen'.artifacts = screen.artifacts
        /\ screen'.evidenceError = screen.evidenceError /\ ~screen'.pollError
    BY <1>4, <1>5 DEF ResumeStatusChecks, Screens
  <2>2. EvidenceIsLast'
    BY <1>3, <1>5, <2>1 DEF ResumeStatusChecks, Steps, ShownInv, ScreenInv, EvidenceIsLast
  <2> QED
    BY <1>2, <1>5, <2>1, <2>2 DEF ResumeStatusChecks, Steps
<1>6. CASE RetryEvidence(g)
  <2>1. /\ screen' \in Screens
        /\ screen'.status = screen.status /\ screen'.key = screen.key
        /\ screen'.shown = screen.shown /\ screen'.artifacts = screen.artifacts
        /\ screen'.pollError = screen.pollError /\ screen.evidenceError
    BY <1>4, <1>6 DEF RetryEvidence, Loading, Screens
  <2>2. EvidenceIsLast'
    BY <1>3, <1>6, <2>1 DEF RetryEvidence, Steps, ShownInv, ScreenInv, EvidenceIsLast
  <2> QED
    BY <1>2, <1>6, <2>1, <2>2 DEF RetryEvidence, Steps
<1>7. CASE RetryRelease(g)
  <2>1. /\ screen' \in Screens
        /\ screen'.status = screen.status /\ screen'.key = screen.key
        /\ screen'.shown = screen.shown /\ screen'.artifacts = screen.artifacts
        /\ screen'.pollError = screen.pollError /\ screen'.evidenceError = screen.evidenceError
    BY <1>4, <1>7 DEF RetryRelease, Screens
  <2>2. EvidenceIsLast'
    BY <1>3, <1>7, <2>1 DEF RetryRelease, Steps, ShownInv, ScreenInv, EvidenceIsLast
  <2> QED
    BY <1>2, <1>7, <2>1, <2>2 DEF RetryRelease, Steps
<1> QED
  BY <1>1, <1>5, <1>6, <1>7 DEF Click

\* The page shows what a call was answered with, polling it further or not.
LEMMA ShowingKeepsScreen ==
  ASSUME AppTypeOK, ShownInv, NEW g \in Generations, IsCurrent(g), UNCHANGED <<current, server>>,
         NEW pc \in {"poll", "done"}, Send(g, pc), calls[g].answer # NoRelease,
         screen' \in {CreateActiveState(calls[g].key, calls[g].answer),
                      [CreateActiveState(calls[g].key, calls[g].answer) EXCEPT !.polling = FALSE]}
  PROVE  ScreenInv'
<1>1. /\ calls'[g].pc = pc /\ calls'[g].key = calls[g].key /\ calls'[g].answer = NoRelease
      /\ current' = g /\ UNCHANGED server
  BY SendIsTyped DEF IsCurrent, Steps
<1>2. /\ screen'.status = "active" /\ screen'.key = calls[g].key
      /\ screen'.shown = calls[g].answer
      /\ ~screen'.pollError /\ ~screen'.evidenceError /\ screen'.artifacts = NoArtifacts
  BY DEF CreateActiveState
<1>3. /\ Exists(calls[g].answer) /\ Exists(server[calls[g].key])
      /\ NotBefore(calls[g].answer, server[calls[g].key])
  BY DEF ShownInv, AnswersAreKnown
<1> QED
  BY <1>1, <1>2, <1>3 DEF ScreenInv, ShownIsKnown, CurrentIsShown, EvidenceIsLast,
                          EvidenceIsOfShownAttempt

\* The page changes what it says of the release on the screen.
LEMMA UpdateKeepsScreen ==
  ASSUME AppTypeOK, ShownInv, NEW g \in Generations, IsCurrent(g), UNCHANGED <<current, server>>,
         NEW pc \in Steps \ {"none", "create"}, Send(g, pc), calls[g].pc \in OnScreen,
         screen'.status = "active", screen'.key = calls[g].key,
         \/ screen'.shown = screen.shown
         \/ calls[g].answer # NoRelease /\ screen'.shown = calls[g].answer,
         EvidenceIsLast', EvidenceIsOfShownAttempt'
  PROVE  ScreenInv'
<1>1. /\ calls'[g].pc = pc /\ calls'[g].key = calls[g].key /\ calls'[g].answer = NoRelease
      /\ current' = g /\ UNCHANGED server
  BY SendIsTyped DEF IsCurrent
<1>2. screen.status = "active" /\ screen.key = calls[g].key
  BY DEF ShownInv, ScreenInv, CurrentIsShown, IsCurrent
<1>3. /\ Exists(screen'.shown) /\ Exists(server[calls[g].key])
      /\ NotBefore(screen'.shown, server[calls[g].key])
  BY <1>2 DEF ShownInv, ScreenInv, ShownIsKnown, AnswersAreKnown
<1> QED
  BY <1>1, <1>2, <1>3 DEF ScreenInv, ShownIsKnown, CurrentIsShown

LEMMA ContinuationKeepsScreen ==
  ASSUME AppTypeOK, ShownInv, NEW g \in Generations, IsCurrent(g),
         Continue(g) \/ PollTimesOut(g), UNCHANGED <<current, server>>
  PROVE  ScreenInv'
<1>0. /\ screen \in Screens /\ calls[g] \in Calls /\ calls[g].answer \in Snapshots
      /\ g = current
  BY DEF AppTypeOK, Calls, IsCurrent
<1>1. /\ calls[g].pc \in OnScreen => screen.status = "active" /\ screen.key = calls[g].key
      /\ calls[g].pc = "poll" \/ screen.pollError =>
           ~screen.evidenceError /\ screen.artifacts = NoArtifacts
      /\ calls[g].pc = "artifacts" => ~screen.pollError
      /\ EvidenceIsOfShownAttempt
  BY <1>0 DEF ShownInv, ScreenInv, CurrentIsShown, EvidenceIsLast
<1>2. ASSUME NEW pc \in Steps \ {"none", "create"}, Send(g, pc), calls[g].pc \in OnScreen,
             UpdateActiveState(g, [screen EXCEPT !.retrying = FALSE]) \/ UNCHANGED screen,
             pc \in {"done", "reconcile"}
      PROVE  ScreenInv'
  <2>1. /\ screen'.status = "active" /\ screen'.key = calls[g].key
        /\ screen'.shown = screen.shown /\ screen'.artifacts = screen.artifacts
        /\ screen'.pollError = screen.pollError /\ screen'.evidenceError = screen.evidenceError
    BY <1>0, <1>1, <1>2 DEF UpdateActiveState, Screens
  <2>2. calls'[g].pc = pc
    BY <1>2, SendIsTyped
  <2>3. EvidenceIsLast' /\ EvidenceIsOfShownAttempt'
    BY <1>0, <1>1, <1>2, <2>1, <2>2 DEF EvidenceIsLast, EvidenceIsOfShownAttempt
  <2> QED
    BY <1>2, <2>1, <2>3, UpdateKeepsScreen
<1>3. ASSUME Paused(g), calls[g].pc = "poll" PROVE ScreenInv'
  <2>1. /\ screen'.status = "active" /\ screen'.key = calls[g].key
        /\ screen'.shown = screen.shown /\ screen'.artifacts = screen.artifacts
        /\ screen'.evidenceError = screen.evidenceError
    BY <1>0, <1>1, <1>3 DEF Paused, UpdateActiveState, Screens, OnScreen
  <2>2. Send(g, "done") /\ "done" \in Steps \ {"none", "create"} /\ calls[g].pc \in OnScreen
    BY <1>3 DEF Paused, End, Steps, OnScreen
  <2>3. calls'[g].pc = "done"
    BY <2>2, SendIsTyped
  <2>4. EvidenceIsLast' /\ EvidenceIsOfShownAttempt'
    BY <1>0, <1>1, <1>3, <2>1, <2>3 DEF EvidenceIsLast, EvidenceIsOfShownAttempt
  <2> QED
    BY <2>1, <2>2, <2>4, UpdateKeepsScreen
<1>4. CASE EndSuperseded(g)
  BY <1>4, <1>0 DEF EndSuperseded, IsCurrent
<1>5. CASE Created(g) \/ Retried(g)
  <2>1. /\ Send(g, "poll") /\ calls[g].answer # NoRelease
        /\ screen' = CreateActiveState(calls[g].key, calls[g].answer)
    BY <1>5 DEF Created, Retried, ShowAndPoll, Gets
  <2> QED
    BY <2>1, ShowingKeepsScreen
<1>6. CASE NotCreated(g)
  <2>1. Send(g, "done") /\ screen' = Inactive("error")
    BY <1>6 DEF NotCreated, End
  <2>2. /\ screen'.status = "error" /\ ~screen'.pollError /\ screen'.artifacts = NoArtifacts
    BY <2>1 DEF Inactive, CreateActiveState
  <2>3. calls'[g].pc = "done"
    BY <2>1, SendIsTyped DEF Steps
  <2> QED
    BY <1>0, <2>2, <2>3 DEF ScreenInv, ShownIsKnown, CurrentIsShown, OnScreen, EvidenceIsLast,
                            EvidenceIsOfShownAttempt
<1>7. CASE NotRetried(g)
  <2>1. Send(g, "reconcile") /\ UNCHANGED screen /\ calls[g].pc = "retry"
    BY <1>7 DEF NotRetried, Loses, IsRejected
  <2> QED
    BY <1>2, <2>1 DEF Steps, OnScreen
<1>8. CASE Reconciled(g)
  <2>1. \/ /\ Send(g, "poll") /\ calls[g].answer # NoRelease
           /\ screen' = CreateActiveState(calls[g].key, calls[g].answer)
        \/ /\ Send(g, "done") /\ calls[g].answer # NoRelease
           /\ screen' = [CreateActiveState(calls[g].key, calls[g].answer) EXCEPT !.polling = FALSE]
        \/ /\ Send(g, "done") /\ calls[g].pc = "reconcile"
           /\ UpdateActiveState(g, [screen EXCEPT !.retrying = FALSE])
    BY <1>8 DEF Reconciled, ShowAndPoll, Gets, Loses, End
  <2> QED
    BY <1>2, <2>1, ShowingKeepsScreen DEF Steps, OnScreen
<1>9. CASE PollTimesOut(g)
  BY <1>3, <1>9 DEF PollTimesOut
<1>10. CASE Polled(g)
  <2> DEFINE updated == [screen EXCEPT !.shown = calls[g].answer, !.pollError = FALSE,
                                       !.polling = TRUE]
  <2>1. /\ calls[g].pc = "poll"
        /\ \/ Paused(g)
           \/ /\ calls[g].answer # NoRelease
              /\ \/ Send(g, "poll") /\ UpdateActiveState(g, updated)
                 \/ Send(g, "artifacts") /\ UpdateActiveState(g, Loading(updated))
    BY <1>10 DEF Polled, Gets, Loses
  <2>2. ASSUME NEW pc \in {"poll", "artifacts"}, Send(g, pc), calls[g].answer # NoRelease,
               screen' \in {updated, Loading(updated)}
        PROVE  ScreenInv'
    <3>1. updated \in Screens
      BY <1>0 DEF Screens
    <3>2. /\ updated.status = screen.status /\ updated.key = screen.key
          /\ updated.shown = calls[g].answer /\ updated.artifacts = screen.artifacts
          /\ updated.evidenceError = screen.evidenceError /\ ~updated.pollError
      BY <1>0 DEF Screens
    <3> HIDE DEF updated
    <3>3. /\ screen'.status = screen.status /\ screen'.key = screen.key
          /\ screen'.shown = calls[g].answer /\ screen'.artifacts = screen.artifacts
          /\ screen'.evidenceError \in {screen.evidenceError, FALSE} /\ ~screen'.pollError
      BY <2>2, <3>1, <3>2 DEF Loading, Screens
    <3>4. calls'[g].pc = pc
      BY <2>2, SendIsTyped DEF Steps
    <3>5. EvidenceIsLast' /\ EvidenceIsOfShownAttempt'
      BY <1>0, <1>1, <2>1, <3>3, <3>4 DEF EvidenceIsLast, EvidenceIsOfShownAttempt
    <3> QED
      BY <1>1, <2>1, <2>2, <3>3, <3>5, UpdateKeepsScreen DEF OnScreen, Steps
  <2>3. screen.status = "active" /\ screen.key = calls[g].key
    BY <1>1, <2>1 DEF OnScreen
  <2> QED
    BY <1>3, <2>1, <2>2, <2>3 DEF UpdateActiveState
<1>11. CASE ArtifactsLoaded(g)
  <2>1. /\ calls[g].pc = "artifacts" /\ Send(g, "done")
        /\ \/ /\ calls[g].answer # NoRelease
              /\ UpdateActiveState(g, [screen EXCEPT !.artifacts = calls[g].answer.attempt])
           \/ UpdateActiveState(g, [screen EXCEPT !.evidenceError = TRUE])
    BY <1>11 DEF ArtifactsLoaded, ArtifactsShown, Gets, Loses, End
  <2>2. /\ screen.status = "active" /\ screen.key = calls[g].key /\ ~screen.pollError
        /\ calls[g].pc \in OnScreen
    BY <1>1, <2>1 DEF OnScreen
  <2>3. calls'[g].pc = "done"
    BY <2>1, SendIsTyped DEF Steps
  <2>4. /\ screen'.status = "active" /\ screen'.key = calls[g].key
        /\ screen'.shown = screen.shown /\ ~screen'.pollError
        /\ \/ screen'.artifacts = screen.artifacts
           \/ calls[g].answer # NoRelease /\ screen'.artifacts = calls[g].answer.attempt
    BY <1>0, <2>1, <2>2 DEF UpdateActiveState, Screens
  <2>5. calls[g].answer # NoRelease => calls[g].answer.attempt >= screen.shown.attempt
    <3>1. calls[g].answer # NoRelease => NotBefore(screen.shown, calls[g].answer)
      BY <1>0, <2>2 DEF ShownInv, ScreenInv, ShownIsKnown
    <3>2. screen.shown \in Snapshots
      BY <1>0 DEF Screens
    <3> QED
      BY <1>0, <3>1, <3>2, NotBeforeIsAnOrder
  <2>6. EvidenceIsLast' /\ EvidenceIsOfShownAttempt'
    BY <1>0, <1>1, <2>3, <2>4, <2>5 DEF EvidenceIsLast, EvidenceIsOfShownAttempt
  <2> QED
    BY <2>1, <2>2, <2>4, <2>6, UpdateKeepsScreen DEF Steps
<1> QED
  BY <1>4, <1>5, <1>6, <1>7, <1>8, <1>9, <1>10, <1>11 DEF Continue

LEMMA ShownIsKept ==
  ASSUME AppTypeOK, FirstIsOver, ShownInv, [Next]_vars
  PROVE  ShownInv'
<1>0. AppTypeOK' /\ AnswersAreKnown' /\ current \in Generations
  BY TypesAreKept, AnswersAreKept DEF ShownInv, AppTypeOK
<1>1. ASSUME NEW g \in Generations, Answer(g) PROVE ScreenInv'
  <2>1. calls[g] \in Calls /\ calls[g].key \in Keys
    BY DEF AppTypeOK, Calls
  <2>2. ServerMovesOn
    BY <1>1, <2>1, HandlingMovesOn DEF Answer, ShownInv
  <2>3. /\ \A h \in Generations \ {g} : calls'[h] = calls[h]
        /\ calls'[g].pc = calls[g].pc
        /\ calls'[g].key = calls[g].key /\ calls'[g].answer = server'[calls[g].key]
    BY <1>1, <2>1, AnswerIsTyped DEF Calls
  <2>4. UNCHANGED <<screen, current>>
    BY <1>1 DEF Answer
  <2> QED
    BY <1>0, <2>2, <2>3, <2>4, ScreenStaysTrue
<1>2. ASSUME NEW request \in adrift, HandleLate(request) PROVE ScreenInv'
  <2>1. request[2] \in Keys
    BY DEF AppTypeOK
  <2>2. ServerMovesOn
    BY <1>2, <2>1, HandlingMovesOn DEF HandleLate, ShownInv
  <2>3. UNCHANGED <<screen, current, calls>>
    BY <1>2 DEF HandleLate
  <2> QED
    BY <1>0, <2>2, <2>3, ScreenStaysTrue
<1>3. ASSUME Remount PROVE ScreenInv'
  <2>1. /\ screen'.status = "idle" /\ ~screen'.pollError /\ screen'.artifacts = NoArtifacts
    BY <1>3 DEF Remount, Inactive, CreateActiveState
  <2>2. (calls[current].pc)' = "done"
    BY <1>3, Constants DEF Remount, Superseded, FirstIsOver
  <2> QED
    BY <2>1, <2>2 DEF ScreenInv, ShownIsKnown, CurrentIsShown, OnScreen, EvidenceIsLast,
                      EvidenceIsOfShownAttempt
<1>4. ASSUME NEW g \in Generations,
             Continue(g) \/ (PollTimesOut(g) /\ UNCHANGED <<current, server>>)
      PROVE  ScreenInv'
  <2>1. UNCHANGED <<current, server>>
    BY <1>4, ContinuationGoesOn DEF GoesOn
  <2>2. CASE IsCurrent(g)
    BY <1>4, <2>1, <2>2, ContinuationKeepsScreen
  <2>3. CASE ~IsCurrent(g)
    <3>1. UNCHANGED screen
      BY <1>4, <2>3, ContinuationOnScreen
    <3>2. calls'[current] = calls[current]
      BY <1>0, <1>4, <2>3, ContinuationGoesOn DEF GoesOn, SendsNext, IsCurrent
    <3> QED
      BY <1>0, <2>1, <3>1, <3>2, ScreenStaysTrue
  <2> QED
    BY <2>2, <2>3
<1>5. ASSUME UNCHANGED vars PROVE ScreenInv'
  BY <1>0, <1>5, ScreenStaysTrue DEF vars
<1> QED
  BY <1>0, <1>1, <1>2, <1>3, <1>4, <1>5, ClickKeepsScreen DEF Next, Deadline, ShownInv

LEMMA InitIsShown == Init => FirstIsOver /\ ShownInv
<1> SUFFICES ASSUME Init PROVE FirstIsOver /\ ShownInv
  OBVIOUS
<1>1. /\ current = 0 /\ calls[0].pc = "done" /\ \A g \in Generations : calls[g].answer = NoRelease
      /\ \A k \in Keys : server[k] = NoRelease
  BY Constants DEF Init
<1>2. /\ screen.status = "idle" /\ ~screen.pollError /\ screen.artifacts = NoArtifacts
  BY DEF Init, Inactive, CreateActiveState
<1> QED
  BY <1>1, <1>2 DEF FirstIsOver, ShownInv, AnswersAreKnown, ScreenInv, ShownIsKnown,
                    CurrentIsShown, OnScreen, EvidenceIsLast, EvidenceIsOfShownAttempt

LEMMA ShownAlways == Spec => [](AppTypeOK /\ FirstIsOver /\ ShownInv)
<1>1. Init => AppTypeOK /\ FirstIsOver /\ ShownInv
  BY InitIsTyped, InitIsShown
<1>2. AppTypeOK /\ FirstIsOver /\ ShownInv /\ [Next]_vars => (AppTypeOK /\ FirstIsOver /\ ShownInv)'
  BY TypesAreKept, FirstStaysOver, ShownIsKept
<1> QED
  BY <1>1, <1>2, PTL DEF Spec

\* The evidence on the page is never of an attempt before the one the gate it
\* stands next to is of: loadArtifacts checks its generation after the
\* artifacts have come, so a list that was asked for before a retry never
\* gets there after it (ReleaseApp.tsx:508-554).
THEOREM EvidenceIsNotOutdated == Spec => []EvidenceIsOfShownAttempt
BY ShownAlways, PTL DEF ShownInv, ScreenInv

LEMMA ShownMovesOn ==
  ASSUME AppTypeOK, ShownInv, [Next]_vars,
         screen.status = "active", screen'.status = "active", screen'.key = screen.key
  PROVE  NotBefore(screen.shown, screen'.shown)
<1>0. screen \in Screens /\ NotBefore(screen.shown, screen.shown)
  BY NotBeforeIsAnOrder DEF AppTypeOK, Screens
<1>1. ASSUME NEW g \in Generations, Click(g) PROVE screen'.shown = screen.shown
  <2>1. CASE \E candidate \in Candidates : CreateRelease(candidate, g)
    BY <2>1 DEF CreateRelease, Inactive, CreateActiveState
  <2>2. CASE ResumeStatusChecks(g) \/ RetryEvidence(g) \/ RetryRelease(g)
    BY <1>0, <2>2 DEF ResumeStatusChecks, RetryEvidence, RetryRelease, Loading, Screens
  <2> QED
    BY <1>1, <2>1, <2>2 DEF Click
<1>2. ASSUME NEW g \in Generations, Continue(g) \/ PollTimesOut(g), ~(UNCHANGED screen)
      PROVE  \/ screen'.shown = screen.shown
             \/ /\ calls[current].key = screen.key /\ calls[current].answer # NoRelease
                /\ screen'.shown = calls[current].answer
  <2> DEFINE answer == calls[g].answer
             polled == [screen EXCEPT !.shown = answer, !.pollError = FALSE, !.polling = TRUE]
  <2>1. ScreenGoesOn(g) /\ g = current
    BY <1>2, ContinuationOnScreen DEF IsCurrent
  <2>2. ~ (screen' = Inactive("error"))
    BY DEF Inactive, CreateActiveState
  <2>3. ASSUME answer # NoRelease,
               screen' \in {CreateActiveState(calls[g].key, answer),
                            [CreateActiveState(calls[g].key, answer) EXCEPT !.polling = FALSE]}
        PROVE  calls[g].key = screen.key /\ screen'.shown = answer
    BY <2>3 DEF CreateActiveState
  <2>4. ASSUME screen' \in {polled, Loading(polled)} PROVE screen'.shown = answer
    <3>1. polled \in [status : {screen.status}, key : {screen.key}, shown : {answer},
                      polling : BOOLEAN, retrying : BOOLEAN, pollError : BOOLEAN,
                      evidenceError : BOOLEAN, artifacts : {screen.artifacts}]
      BY <1>0 DEF Screens
    <3> HIDE DEF polled
    <3> QED
      BY <2>4, <3>1 DEF Loading
  <2>5. CASE /\ screen.status = "active" /\ screen.key = calls[g].key
             /\ answer # NoRelease /\ screen' \in {polled, Loading(polled)}
    BY <2>1, <2>4, <2>5
  <2>6. CASE \/ screen' = [screen EXCEPT !.retrying = FALSE]
             \/ screen' = [screen EXCEPT !.pollError = TRUE, !.polling = FALSE]
             \/ screen' = [screen EXCEPT !.artifacts = answer.attempt]
             \/ screen' = [screen EXCEPT !.evidenceError = TRUE]
    BY <1>0, <2>6 DEF Screens
  <2> QED
    BY <1>2, <2>1, <2>2, <2>3, <2>5, <2>6 DEF ScreenGoesOn
<1>3. ASSUME NEW g \in Generations, Continue(g) \/ PollTimesOut(g)
      PROVE  NotBefore(screen.shown, screen'.shown)
  BY <1>0, <1>2, <1>3 DEF ShownInv, ScreenInv, ShownIsKnown
<1>4. CASE Remount
  BY <1>4 DEF Remount, Inactive, CreateActiveState
<1> QED
  BY <1>0, <1>1, <1>3, <1>4 DEF Next, Deadline, Answer, HandleLate, vars

\* What the page shows of one release never goes back to an earlier attempt
\* or status: only the call of the latest generation writes to the screen,
\* and no answer it still gets is older than what the page already shows
\* (ReleaseApp.tsx:90, 153, 171, 429).
THEOREM ShownOnlyMovesOn == Spec => ShownNeverGoesBack
<1>1. AppTypeOK /\ ShownInv /\ [Next]_vars =>
        [screen.status = "active" /\ screen'.status = "active" /\ screen'.key = screen.key =>
           NotBefore(screen.shown, screen'.shown)]_vars
  BY ShownMovesOn
<1> QED
  BY <1>1, ShownAlways, PTL DEF Spec, ShownNeverGoesBack

-----------------------------------------------------------------------------
(***************************************************************************)
(* Which key is kept.  A key belongs to the click that made it and to that *)
(* click's candidate; as long as a submission with it may still be handled *)
(* or has been, and the page was not told, it is the stored key.           *)
(***************************************************************************)
Begun(g) == calls[g].pc # "none"

\* The click g made the key g.
InUse(key) == Begun(key) /\ calls[key].key = key

\* A submission with the key may still be handled.
MayBeCreated(key) ==
  \/ <<"create", key>> \in adrift
  \/ \E g \in Generations : calls[g].pc = "create" /\ calls[g].key = key /\ Waits(g)

CallsInTurn ==
  /\ \A g, h \in Generations : h < g /\ Begun(g) => Begun(h)
  /\ current # 0 => \A g \in Generations : g > current => ~Begun(g)
  /\ \A g \in Generations : Begun(g) =>
       /\ calls[g].key <= g /\ InUse(calls[g].key)
       /\ calls[calls[g].key].candidate = calls[g].candidate

KeysAreOwned ==
  /\ \A c \in Candidates : stored[c] # NoKey => InUse(stored[c]) /\ calls[stored[c]].candidate = c
  /\ \A c \in Candidates : pending[c] # NoKey => pending[c] = stored[c]
  /\ \A request \in adrift : InUse(request[2])
  /\ \A k \in Keys : Exists(server[k]) => InUse(k)
  /\ calls[current].pc = "create" => stored[calls[current].candidate] = calls[current].key
  /\ screen.status = "active" => InUse(screen.key)

\* A submission with a key of its own is the only request with that key.
FirstIsAlone ==
  calls[current].pc = "create" /\ calls[current].key = current =>
    /\ \A request \in adrift : request[2] # current
    /\ Waits(current) => ~Exists(server[current])

KeysAreKept ==
  \A k \in Keys : InUse(k) /\ (Exists(server[k]) \/ MayBeCreated(k)) =>
    k \in told \/ stored[calls[k].candidate] = k

KeyInv == CallsInTurn /\ KeysAreOwned /\ FirstIsAlone /\ KeysAreKept

\* Calls keep their keys, and none begins or begins to wait.
CallsStay ==
  \A h \in Generations :
    /\ calls'[h].pc = "none" <=> calls[h].pc = "none"
    /\ calls'[h].key = calls[h].key /\ calls'[h].candidate = calls[h].candidate
    /\ calls'[h].pc = "create" =>
         calls[h].pc = "create" /\ (calls'[h].answer = NoRelease => calls[h].answer = NoRelease)

LEMMA CallFields ==
  ASSUME AppTypeOK, NEW g \in Generations
  PROVE  /\ calls[g] \in Calls /\ calls[g].pc \in Steps /\ calls[g].candidate \in Candidates
         /\ calls[g].key \in Keys /\ calls[g].key \in Generations /\ calls[g].answer \in Snapshots
BY Constants DEF AppTypeOK, Calls

LEMMA CallsStayInTurn ==
  ASSUME AppTypeOK, CallsInTurn, CallsStay, current' \in {current, 0}
  PROVE  /\ CallsInTurn'
         /\ \A k \in Keys : (InUse(k)' <=> InUse(k)) /\ calls'[k].candidate = calls[k].candidate
<1>1. \A k \in Generations : Begun(k)' <=> Begun(k)
  BY DEF CallsStay, Begun
<1>2. \A k \in Keys : (InUse(k)' <=> InUse(k)) /\ calls'[k].candidate = calls[k].candidate
  BY <1>1, Constants DEF CallsStay, InUse
<1>3. \A g \in Generations : calls'[g].key = calls[g].key /\ calls[g].key \in Keys
  BY CallFields DEF CallsStay
<1>4. ASSUME NEW g \in Generations, Begun(g)'
      PROVE  /\ calls'[g].key <= g /\ InUse(calls[g].key)'
             /\ calls'[calls'[g].key].candidate = calls'[g].candidate
  BY <1>1, <1>2, <1>3, <1>4, Constants DEF CallsInTurn
<1>5. /\ (\A g, h \in Generations : h < g /\ Begun(g) => Begun(h))'
      /\ (current # 0 => \A g \in Generations : g > current => ~Begun(g))'
  BY <1>1 DEF CallsInTurn
<1> QED
  BY <1>2, <1>4, <1>5 DEF CallsInTurn

\* Only one call has a key that the latest click has made.
LEMMA LatestIsAlone ==
  ASSUME AppTypeOK, FirstIsOver, CallsInTurn, calls[current].pc \in {"create", "none"},
         NEW g \in Generations, Begun(g), calls[g].key = current
  PROVE  g = current
<1>1. current # 0 /\ current \in Generations
  BY DEF FirstIsOver, AppTypeOK
<1>2. current <= g /\ ~(g > current)
  BY <1>1 DEF CallsInTurn
<1> QED
  BY <1>1, <1>2, Constants

LEMMA SubmissionsStay ==
  ASSUME AppTypeOK, CallsStay, NEW k \in Keys,
         MayBeCreated(k)', <<"create", k>> \in adrift' => <<"create", k>> \in adrift
  PROVE  MayBeCreated(k)
BY DEF CallsStay, MayBeCreated, Waits, Requesting

-----------------------------------------------------------------------------
LEMMA ClickKeepsKeys ==
  ASSUME AppTypeOK, FirstIsOver, KeyInv, NEW g \in Generations, Click(g)
  PROVE  KeyInv'
<1>0. /\ CallsInTurn /\ KeysAreOwned /\ FirstIsAlone /\ KeysAreKept
      /\ AppTypeOK' /\ g \in Nat /\ g \in Keys /\ Keys = Generations
  BY ClickIsTyped, Constants DEF KeyInv
<1>1. ASSUME NEW pc \in Steps \ {"none"}, NEW candidate \in Candidates, NEW key \in Keys,
             BeginRequest(g, pc, candidate, key),
             key = g \/ (InUse(key) /\ calls[key].candidate = candidate)
      PROVE  /\ CallsInTurn' /\ current' = g /\ ~Begun(g) /\ UNCHANGED <<server, adrift, told>>
             /\ calls'[g].pc = pc /\ calls'[g].key = key /\ calls'[g].candidate = candidate
             /\ \A k \in Keys : InUse(k) =>
                  k # g /\ InUse(k)' /\ calls'[k].candidate = calls[k].candidate
             /\ \A k \in Keys : InUse(k)' => InUse(k) \/ (k = g /\ key = g)
             /\ \A k \in Keys : MayBeCreated(k)' => MayBeCreated(k) \/ (pc = "create" /\ k = key)
  <2>1. /\ BeginsCall(g, pc, candidate, key) /\ current' = g /\ UNCHANGED <<server, adrift, told>>
        /\ calls'[g].pc = pc /\ calls'[g].candidate = candidate /\ calls'[g].key = key
    BY <1>1, ClickBeginsCall
  <2>2. /\ ~Begun(g)
        /\ \A h \in Generations : h < g => Begun(h)
    BY <1>0, <1>1, Constants DEF BeginRequest, IsNext, Begun, FirstIsOver
  <2>3. ASSUME NEW h \in Generations, h # g
        PROVE  /\ Begun(h)' <=> Begun(h)
               /\ calls'[h].key = calls[h].key /\ calls'[h].candidate = calls[h].candidate
               /\ calls'[h].pc = "create" =>
                    calls[h].pc = "create" /\ calls'[h].answer = calls[h].answer
    BY <2>1, <2>3, SupersededCall DEF BeginsCall, Begun
  <2>4. /\ Begun(g)'
        /\ \A h \in Generations : h > g => ~Begun(h)
    BY <1>0, <2>1, <2>2 DEF CallsInTurn, Begun
  <2>5. \A k \in Keys : InUse(k) => k # g /\ InUse(k)' /\ calls'[k].candidate = calls[k].candidate
    BY <1>0, <2>2, <2>3 DEF InUse
  <2>6. \A k \in Keys : InUse(k)' => InUse(k) \/ (k = g /\ key = g)
    BY <1>0, <2>1, <2>3 DEF InUse
  <2>7. \A k \in Keys : MayBeCreated(k)' => MayBeCreated(k) \/ (pc = "create" /\ k = key)
    BY <2>1, <2>3 DEF MayBeCreated, Waits
  <2>8. ASSUME NEW h \in Generations, Begun(h)'
        PROVE  /\ calls'[h].key <= h /\ InUse(calls[h].key)'
               /\ calls'[calls'[h].key].candidate = calls'[h].candidate
    <3>1. CASE h # g
      <4>1. /\ calls[h].key <= h /\ InUse(calls[h].key) /\ calls[h].key \in Keys
            /\ calls[calls[h].key].candidate = calls[h].candidate
        BY <1>0, <2>3, <2>8, <3>1, CallFields DEF CallsInTurn
      <4> QED
        BY <2>3, <2>5, <3>1, <4>1
    <3>2. CASE h = g /\ key = g
      BY <1>0, <2>1, <2>4, <3>2 DEF InUse
    <3>3. CASE h = g /\ InUse(key) /\ calls[key].candidate = candidate
      <4>1. key <= g
        BY <1>0, <2>4, <3>3, Constants DEF InUse
      <4> QED
        BY <2>1, <2>5, <3>3, <4>1
    <3> QED
      BY <1>1, <3>1, <3>2, <3>3
  <2>9. /\ (\A i, h \in Generations : h < i /\ Begun(i) => Begun(h))'
        /\ (current # 0 => \A h \in Generations : h > current => ~Begun(h))'
    <3>1. \A h \in Generations : Begun(h)' <=> h <= g
      BY <1>0, <2>2, <2>3, <2>4, Constants
    <3> QED
      BY <1>0, <2>1, <3>1, Constants
  <2> QED
    BY <2>1, <2>2, <2>5, <2>6, <2>7, <2>8, <2>9 DEF CallsInTurn
<1>2. ASSUME NEW candidate \in Candidates, CreateRelease(candidate, g) PROVE KeyInv'
  <2>0. PICK key \in Keys : key = KeyFor(candidate, g)
    BY KeyForIsAKey
  <2>1. /\ key \in Keys
        /\ \/ key = g /\ pending[candidate] = NoKey /\ stored[candidate] = NoKey
           \/ key = stored[candidate] /\ key # NoKey
    BY <1>0, <2>0, Constants DEF KeyFor, KeysAreOwned, AppTypeOK
  <2>2. key = g \/ (InUse(key) /\ calls[key].candidate = candidate)
    BY <1>0, <2>1 DEF KeysAreOwned
  <2>3. /\ BeginRequest(g, "create", candidate, key)
        /\ pending' = [pending EXCEPT ![candidate] = key]
        /\ stored' = [stored EXCEPT ![candidate] = key]
        /\ screen' = Inactive("submitting")
    BY <1>2, <2>0 DEF CreateRelease
  <2>4. /\ CallsInTurn' /\ current' = g /\ ~Begun(g) /\ UNCHANGED <<server, adrift, told>>
        /\ calls'[g].pc = "create" /\ calls'[g].key = key /\ calls'[g].candidate = candidate
        /\ \A k \in Keys : InUse(k) =>
             k # g /\ InUse(k)' /\ calls'[k].candidate = calls[k].candidate
        /\ \A k \in Keys : InUse(k)' => InUse(k) \/ (k = g /\ key = g)
        /\ \A k \in Keys : MayBeCreated(k)' => MayBeCreated(k) \/ k = key
    BY <1>1, <2>1, <2>2, <2>3 DEF Steps
  <2>5. InUse(key)' /\ calls'[key].candidate = candidate
    <3>1. Begun(g)'
      BY <2>4 DEF Begun
    <3> QED
      BY <2>1, <2>2, <2>4, <3>1 DEF InUse
  <2>6. KeysAreOwned'
    <3>1. ASSUME NEW c \in Candidates, stored'[c] # NoKey
          PROVE  InUse(stored[c])' /\ calls'[stored'[c]].candidate = c
      <4>1. CASE c = candidate
        BY <2>3, <2>5, <4>1 DEF AppTypeOK
      <4>2. CASE c # candidate
        BY <1>0, <2>3, <2>4, <3>1, <4>2 DEF AppTypeOK, KeysAreOwned
      <4> QED
        BY <4>1, <4>2
    <3>2. ASSUME NEW c \in Candidates, pending'[c] # NoKey PROVE pending'[c] = stored'[c]
      BY <1>0, <2>3, <3>2 DEF AppTypeOK, KeysAreOwned
    <3>3. \A request \in adrift' : InUse(request[2])'
      BY <1>0, <2>4 DEF AppTypeOK, KeysAreOwned
    <3>4. \A k \in Keys : Exists(server'[k]) => InUse(k)'
      BY <1>0, <2>4 DEF KeysAreOwned
    <3>5. screen'.status # "active" /\ stored'[candidate] = key
      BY <2>3 DEF Inactive, CreateActiveState, AppTypeOK
    <3> QED
      BY <2>4, <3>1, <3>2, <3>3, <3>4, <3>5 DEF KeysAreOwned
  <2>7. FirstIsAlone'
    BY <1>0, <2>4 DEF FirstIsAlone, KeysAreOwned, AppTypeOK, InUse
  <2>8. ASSUME NEW k \in Keys, InUse(k)', Exists(server'[k]) \/ MayBeCreated(k)'
        PROVE  k \in told' \/ stored'[calls'[k].candidate] = k
    <3>1. CASE k = key
      BY <2>3, <2>5, <3>1 DEF AppTypeOK
    <3>2. CASE k # key
      <4>1. InUse(k) /\ (Exists(server[k]) \/ MayBeCreated(k))
            /\ calls'[k].candidate = calls[k].candidate
        BY <2>4, <2>8, <3>2
      <4>2. k \in told \/ stored[calls[k].candidate] = k
        BY <1>0, <4>1 DEF KeysAreKept
      <4>3. stored[candidate] # k
        BY <2>1, <3>2, Constants
      <4> QED
        BY <1>0, <2>3, <2>4, <4>1, <4>2, <4>3, CallFields DEF AppTypeOK
    <3> QED
      BY <3>1, <3>2
  <2> QED
    BY <2>4, <2>6, <2>7, <2>8 DEF KeyInv, KeysAreKept
<1>3. ASSUME NEW pc \in OnScreen, BeginOnShown(g, pc), screen'.key = screen.key PROVE KeyInv'
  <2>1. /\ screen.key \in Keys /\ calls[screen.key].candidate \in Candidates
        /\ screen.status = "active" /\ UNCHANGED <<pending, stored>>
        /\ BeginRequest(g, pc, calls[screen.key].candidate, screen.key)
    BY <1>3, CallFields, Constants DEF BeginOnShown, keyVars, AppTypeOK, Screens
  <2>2. InUse(screen.key)
    BY <1>0, <2>1 DEF KeysAreOwned
  <2>3. /\ CallsInTurn' /\ current' = g /\ UNCHANGED <<server, adrift, told>>
        /\ calls'[g].pc = pc
        /\ \A k \in Keys : InUse(k) =>
             k # g /\ InUse(k)' /\ calls'[k].candidate = calls[k].candidate
        /\ \A k \in Keys : InUse(k)' => InUse(k) \/ (k = g /\ screen.key = g)
        /\ \A k \in Keys : MayBeCreated(k)' => MayBeCreated(k) \/ pc = "create"
    BY <1>1, <2>1, <2>2 DEF OnScreen, Steps
  <2>4. calls'[current'].pc # "create" /\ screen.key # g
    BY <2>1, <2>2, <2>3 DEF OnScreen
  <2>5. KeysAreOwned'
    <3>1. ASSUME NEW c \in Candidates, stored'[c] # NoKey
          PROVE  InUse(stored[c])' /\ calls'[stored'[c]].candidate = c
      BY <1>0, <2>1, <2>3, <3>1 DEF AppTypeOK, KeysAreOwned
    <3>2. ASSUME NEW c \in Candidates, pending'[c] # NoKey PROVE pending'[c] = stored'[c]
      BY <1>0, <2>1, <3>2 DEF KeysAreOwned
    <3>3. \A request \in adrift' : InUse(request[2])'
      BY <1>0, <2>3 DEF AppTypeOK, KeysAreOwned
    <3>4. \A k \in Keys : Exists(server'[k]) => InUse(k)'
      BY <1>0, <2>3 DEF KeysAreOwned
    <3> QED
      BY <1>3, <2>1, <2>2, <2>3, <2>4, <3>1, <3>2, <3>3, <3>4 DEF KeysAreOwned
  <2>6. FirstIsAlone'
    BY <2>4 DEF FirstIsAlone
  <2>7. KeysAreKept'
    BY <1>0, <2>1, <2>3, <2>4 DEF KeysAreKept, OnScreen
  <2> QED
    BY <2>3, <2>5, <2>6, <2>7 DEF KeyInv
<1>4. CASE ResumeStatusChecks(g) \/ RetryEvidence(g) \/ RetryRelease(g)
  <2>1. screen'.key = screen.key
    BY <1>4 DEF ResumeStatusChecks, RetryEvidence, RetryRelease, Loading, AppTypeOK, Screens
  <2> QED
    BY <1>3, <1>4, <2>1 DEF ResumeStatusChecks, RetryEvidence, RetryRelease, OnScreen
<1> QED
  BY <1>2, <1>4 DEF Click

\* Handling a request makes a release of a submission only.
LEMMA HandlingKeepsKeys ==
  ASSUME AppTypeOK, AppTypeOK', AnswersAreKnown, KeyInv, CallsStay,
         NEW method, NEW key \in Keys, Handle(method, key), InUse(key),
         method = "create" => MayBeCreated(key),
         adrift' \subseteq adrift, UNCHANGED <<screen, keyVars, current, told>>, FirstIsAlone'
  PROVE  KeyInv'
<1>0. CallsInTurn /\ KeysAreOwned /\ FirstIsAlone /\ KeysAreKept
  BY DEF KeyInv
<1>1. /\ CallsInTurn'
      /\ \A k \in Keys : (InUse(k)' <=> InUse(k)) /\ calls'[k].candidate = calls[k].candidate
  BY <1>0, CallsStayInTurn
<1>2. /\ pending' = pending /\ stored' = stored /\ screen' = screen
      /\ current' = current /\ told' = told
  BY DEF keyVars
<1>3. \A k \in Keys : Exists(server'[k]) => Exists(server[k]) \/ (k = key /\ method = "create")
  <2>1. PICK release \in Snapshots :
          /\ server' = [server EXCEPT ![key] = release]
          /\ server[key] = NoRelease =>
               IF method = "create" THEN Exists(release) ELSE release = NoRelease
    BY RequestsMoveOn DEF AppTypeOK
  <2>2. ~Exists(NoRelease) /\ (server[key] # NoRelease => Exists(server[key]))
    BY DEF Exists, NoRelease, AnswersAreKnown
  <2> QED
    BY <2>1, <2>2 DEF AppTypeOK
<1>4. KeysAreOwned'
  <2>1. ASSUME NEW c \in Candidates, stored'[c] # NoKey
        PROVE  InUse(stored[c])' /\ calls'[stored'[c]].candidate = c
    BY <1>0, <1>1, <1>2, <2>1 DEF AppTypeOK, KeysAreOwned
  <2>2. \A c \in Candidates : pending'[c] # NoKey => pending'[c] = stored'[c]
    BY <1>0, <1>2 DEF KeysAreOwned
  <2>3. \A request \in adrift' : InUse(request[2])'
    BY <1>0, <1>1 DEF AppTypeOK, KeysAreOwned
  <2>4. \A k \in Keys : Exists(server'[k]) => InUse(k)'
    BY <1>0, <1>1, <1>3 DEF KeysAreOwned
  <2>5. (calls[current].pc = "create" => stored[calls[current].candidate] = calls[current].key)'
    BY <1>0, <1>2 DEF CallsStay, KeysAreOwned, AppTypeOK
  <2>6. (screen.status = "active" => InUse(screen.key))'
    BY <1>0, <1>1, <1>2 DEF KeysAreOwned, AppTypeOK, Screens
  <2> QED
    BY <2>1, <2>2, <2>3, <2>4, <2>5, <2>6 DEF KeysAreOwned
<1>5. ASSUME NEW k \in Keys, InUse(k)', Exists(server'[k]) \/ MayBeCreated(k)'
      PROVE  k \in told' \/ stored'[calls'[k].candidate] = k
  <2>1. MayBeCreated(k)' => MayBeCreated(k)
    BY SubmissionsStay
  <2>2. InUse(k) /\ (Exists(server[k]) \/ MayBeCreated(k))
    BY <1>1, <1>3, <1>5, <2>1
  <2> QED
    BY <1>0, <1>1, <1>2, <2>2 DEF KeysAreKept
<1> QED
  BY <1>1, <1>4, <1>5 DEF KeyInv, KeysAreKept

LEMMA AnswerKeepsKeys ==
  ASSUME AppTypeOK, FirstIsOver, AnswersAreKnown, KeyInv, NEW g \in Generations, Answer(g)
  PROVE  KeyInv'
<1>0. /\ CallsInTurn /\ KeysAreOwned /\ FirstIsAlone /\ KeysAreKept
      /\ calls[g] \in Calls /\ calls[g].key \in Keys /\ current \in Generations
      /\ Keys = Generations
  BY CallFields, Constants DEF KeyInv, AppTypeOK
<1>1. /\ AppTypeOK' /\ \A h \in Generations \ {g} : calls'[h] = calls[h]
      /\ calls'[g].pc = calls[g].pc /\ calls'[g].key = calls[g].key
      /\ calls'[g].candidate = calls[g].candidate
      /\ calls'[g].answer = server'[calls[g].key]
  BY <1>0, AnswerIsTyped DEF Calls
<1>2. /\ Waits(g) /\ Handle(calls[g].pc, calls[g].key)
      /\ UNCHANGED <<screen, keyVars, current, told>> /\ adrift' = adrift
  BY DEF Answer
<1>3. CallsStay
  BY <1>1, <1>2 DEF CallsStay, Waits
<1>4. Begun(g) /\ InUse(calls[g].key)
  BY <1>0, <1>2 DEF Begun, Waits, Requesting, CallsInTurn
<1>5. calls[g].pc = "create" => MayBeCreated(calls[g].key)
  BY <1>2 DEF MayBeCreated
<1>6. FirstIsAlone'
  <2> SUFFICES ASSUME calls'[current].pc = "create", calls'[current].key = current
               PROVE  /\ \A request \in adrift : request[2] # current
                      /\ Waits(current)' => ~Exists(server'[current])
    BY <1>2 DEF FirstIsAlone
  <2>1. /\ calls[current].pc = "create" /\ calls[current].key = current
        /\ \A request \in adrift : request[2] # current
        /\ Waits(current) => ~Exists(server[current])
    BY <1>0, <1>1 DEF FirstIsAlone
  <2>2. CASE g = current
    <3>1. server[current] = NoRelease
      BY <1>0, <1>2, <2>1, <2>2 DEF AnswersAreKnown
    <3>2. server'[current] # NoRelease
      <4>1. PICK release \in Snapshots :
              /\ server' = [server EXCEPT ![current] = release]
              /\ server[current] = NoRelease => Exists(release)
        BY <1>0, <1>2, <2>1, <2>2, RequestsMoveOn DEF AppTypeOK
      <4> QED
        BY <1>0, <3>1, <4>1 DEF Exists, NoRelease, AppTypeOK
    <3> QED
      BY <1>1, <1>2, <2>1, <2>2, <3>2 DEF Waits
  <2>3. CASE g # current
    <3>1. calls[g].key # current
      BY <1>0, <1>4, <2>1, <2>3, LatestIsAlone
    <3>2. server'[current] = server[current]
      BY <1>0, <1>2, <3>1 DEF Handle, AppTypeOK
    <3> QED
      BY <1>0, <1>1, <1>2, <2>1, <2>3, <3>2 DEF Waits
  <2> QED
    BY <2>2, <2>3
<1> QED
  BY <1>0, <1>1, <1>2, <1>3, <1>4, <1>5, <1>6, HandlingKeepsKeys

LEMMA LateKeepsKeys ==
  ASSUME AppTypeOK, AnswersAreKnown, KeyInv, NEW request \in adrift, HandleLate(request)
  PROVE  KeyInv'
<1>0. /\ CallsInTurn /\ KeysAreOwned /\ FirstIsAlone /\ KeysAreKept
      /\ request[2] \in Keys /\ request = <<request[1], request[2]>>
      /\ AppTypeOK' /\ current \in Keys
  BY LateIsTyped, Constants DEF KeyInv, AppTypeOK
<1>1. /\ Handle(request[1], request[2]) /\ adrift' \subseteq adrift
      /\ UNCHANGED <<screen, keyVars, current, told>> /\ calls' = calls
  BY DEF HandleLate
<1>2. CallsStay
  BY <1>1 DEF CallsStay
<1>3. InUse(request[2]) /\ (request[1] = "create" => MayBeCreated(request[2]))
  BY <1>0 DEF KeysAreOwned, MayBeCreated
<1>4. FirstIsAlone'
  <2> SUFFICES ASSUME calls[current].pc = "create", calls[current].key = current
               PROVE  /\ \A other \in adrift' : other[2] # current
                      /\ Waits(current) => ~Exists(server'[current])
    BY <1>1 DEF FirstIsAlone, Waits
  <2>1. /\ \A other \in adrift : other[2] # current
        /\ Waits(current) => ~Exists(server[current])
    BY <1>0 DEF FirstIsAlone
  <2>2. server'[current] = server[current]
    BY <1>0, <1>1, <2>1 DEF Handle, AppTypeOK
  <2> QED
    BY <1>1, <2>1, <2>2
<1> QED
  BY <1>0, <1>1, <1>2, <1>3, <1>4, HandlingKeepsKeys

LEMMA RemountKeepsKeys ==
  ASSUME AppTypeOK, FirstIsOver, KeyInv, Remount
  PROVE  KeyInv'
<1>0. /\ CallsInTurn /\ KeysAreOwned /\ FirstIsAlone /\ KeysAreKept
      /\ Keys = Generations /\ 0 \in Generations
  BY Constants DEF KeyInv
<1>1. /\ stored' = stored /\ server' = server /\ adrift' = adrift /\ told' = told /\ current' = 0
      /\ pending' = [c \in Candidates |-> NoKey] /\ screen'.status = "idle"
  BY DEF Remount, serverVars, Inactive, CreateActiveState
<1>2. CallsStay
  <2>1. \A h \in Generations : calls'[h] = Superseded(h)
    BY DEF Remount
  <2> QED
    BY <2>1, SupersededCall DEF CallsStay
<1>3. /\ CallsInTurn'
      /\ \A k \in Keys : (InUse(k)' <=> InUse(k)) /\ calls'[k].candidate = calls[k].candidate
  BY <1>0, <1>1, <1>2, CallsStayInTurn
<1>4. (calls[current].pc)' # "create"
  BY <1>0, <1>1, <1>2 DEF CallsStay, FirstIsOver
<1>5. KeysAreOwned'
  <2>1. ASSUME NEW c \in Candidates, stored'[c] # NoKey
        PROVE  InUse(stored[c])' /\ calls'[stored'[c]].candidate = c
    BY <1>0, <1>1, <1>3, <2>1 DEF AppTypeOK, KeysAreOwned
  <2>2. \A request \in adrift' : InUse(request[2])'
    BY <1>0, <1>1, <1>3 DEF AppTypeOK, KeysAreOwned
  <2>3. \A k \in Keys : Exists(server'[k]) => InUse(k)'
    BY <1>0, <1>1, <1>3 DEF KeysAreOwned
  <2> QED
    BY <1>1, <1>4, <2>1, <2>2, <2>3 DEF KeysAreOwned
<1>6. FirstIsAlone'
  BY <1>4 DEF FirstIsAlone
<1>7. \A k \in Keys : MayBeCreated(k)' => MayBeCreated(k)
  BY <1>1, <1>2, SubmissionsStay
<1>8. KeysAreKept'
  BY <1>0, <1>1, <1>3, <1>7 DEF KeysAreKept
<1> QED
  BY <1>3, <1>5, <1>6, <1>8 DEF KeyInv

-----------------------------------------------------------------------------
\* A key is forgotten when the page is told of its release, or when the
\* control plane has rejected the click that made it.
LEMMA KeyIsForgotten ==
  ASSUME NEW g \in Generations, Continue(g) \/ PollTimesOut(g)
  PROVE  /\ told \subseteq told'
         /\ \/ UNCHANGED keyVars
            \/ /\ IsCurrent(g) /\ calls[g].pc = "create" /\ ClearKey(calls[g].candidate)
               /\ \/ calls[g].key \in told'
                  \/ Waits(g) /\ calls[g].key = g /\ adrift' = adrift
<1>1. CASE Created(g)
  BY <1>1 DEF Created, Gets
<1>2. CASE NotCreated(g)
  BY <1>2 DEF NotCreated, IsRejected, Loses
<1>3. CASE ~(Created(g) \/ NotCreated(g))
  BY <1>3 DEF Continue, EndSuperseded, Retried, NotRetried, Reconciled, Polled,
              ArtifactsLoaded, PollTimesOut
<1> QED
  BY <1>1, <1>2, <1>3

LEMMA ContinuationKeepsKeys ==
  ASSUME AppTypeOK, FirstIsOver, KeyInv, NEW g \in Generations,
         Continue(g) \/ (PollTimesOut(g) /\ UNCHANGED <<current, server>>)
  PROVE  KeyInv'
<1>0. /\ CallsInTurn /\ KeysAreOwned /\ FirstIsAlone /\ KeysAreKept
      /\ calls[g].key \in Keys /\ calls[g].candidate \in Candidates
      /\ Keys = Generations /\ current \in Generations
  BY CallFields, Constants DEF KeyInv, AppTypeOK
<1>1. GoesOn(g) /\ ScreenGoesOn(g)
  BY ContinuationGoesOn, ContinuationOnScreen
<1>2. PICK pc \in Steps \ {"none", "create"} : SendsNext(g, pc)
  BY <1>1 DEF GoesOn
<1>3. /\ \A h \in Generations \ {g} : calls'[h] = calls[h]
      /\ calls'[g].pc = pc /\ calls'[g].key = calls[g].key
      /\ calls'[g].candidate = calls[g].candidate
      /\ current' = current /\ server' = server
      /\ Begun(g) /\ calls[g].pc \in Requesting
  BY <1>1, <1>2 DEF GoesOn, SendsNext, Begun, Requesting
<1>4. CallsStay
  BY <1>2, <1>3 DEF CallsStay, Begun
<1>5. /\ CallsInTurn' /\ InUse(calls[g].key) /\ calls[calls[g].key].candidate = calls[g].candidate
      /\ \A k \in Keys : (InUse(k)' <=> InUse(k)) /\ calls'[k].candidate = calls[k].candidate
  BY <1>0, <1>3, <1>4, CallsStayInTurn DEF CallsInTurn
<1>6. \/ adrift' = adrift
      \/ /\ Waits(g)
         /\ \A request \in adrift' :
              request \in adrift \/ (request = <<calls[g].pc, calls[g].key>>)
  BY <1>1 DEF GoesOn
<1>7. \A k \in Keys : MayBeCreated(k)' => MayBeCreated(k)
  <2> SUFFICES ASSUME NEW k \in Keys, MayBeCreated(k)' PROVE MayBeCreated(k)
    OBVIOUS
  <2>1. CASE <<"create", k>> \in adrift' => <<"create", k>> \in adrift
    BY <1>4, <2>1, SubmissionsStay
  <2>2. CASE Waits(g) /\ <<"create", k>> = <<calls[g].pc, calls[g].key>>
    BY <2>2 DEF MayBeCreated
  <2> QED
    BY <1>6, <2>1, <2>2
<1>8. /\ told \subseteq told'
      /\ \/ pending' = pending /\ stored' = stored
         \/ /\ g = current /\ calls[g].pc = "create"
            /\ pending' = [pending EXCEPT ![calls[g].candidate] = NoKey]
            /\ stored' = [stored EXCEPT ![calls[g].candidate] = NoKey]
            /\ \/ calls[g].key \in told'
               \/ Waits(g) /\ calls[g].key = g /\ adrift' = adrift
  BY KeyIsForgotten DEF IsCurrent, ClearKey, keyVars
<1>9. \A c \in Candidates :
        stored'[c] # NoKey => stored'[c] = stored[c]
  BY <1>0, <1>8 DEF AppTypeOK
<1>10. KeysAreOwned'
  <2>1. ASSUME NEW c \in Candidates, stored'[c] # NoKey
        PROVE  InUse(stored[c])' /\ calls'[stored'[c]].candidate = c
    BY <1>0, <1>5, <1>9, <2>1 DEF AppTypeOK, KeysAreOwned
  <2>2. \A c \in Candidates : pending'[c] # NoKey => pending'[c] = stored'[c]
    BY <1>0, <1>8 DEF AppTypeOK, KeysAreOwned
  <2>3. \A request \in adrift' : InUse(request[2])'
    BY <1>0, <1>5, <1>6 DEF AppTypeOK, KeysAreOwned
  <2>4. \A k \in Keys : Exists(server'[k]) => InUse(k)'
    BY <1>0, <1>3, <1>5 DEF KeysAreOwned
  <2>5. (calls[current].pc = "create" => stored[calls[current].candidate] = calls[current].key)'
    BY <1>0, <1>2, <1>3, <1>8 DEF KeysAreOwned
  <2>6. (screen.status = "active" => InUse(screen.key))'
    <3>1. screen'.status = "active" =>
            \/ screen'.key = calls[g].key
            \/ screen.status = "active" /\ screen'.key = screen.key
      <4> DEFINE answer == calls[g].answer
                 polled == [screen EXCEPT !.shown = answer, !.pollError = FALSE, !.polling = TRUE]
      <4>0. screen \in Screens
        BY DEF AppTypeOK
      <4>1. CASE UNCHANGED screen \/ screen' = Inactive("error")
        BY <4>1 DEF Inactive, CreateActiveState
      <4>2. CASE screen' \in {CreateActiveState(calls[g].key, answer),
                    [CreateActiveState(calls[g].key, answer) EXCEPT !.polling = FALSE]}
        BY <4>2 DEF CreateActiveState
      <4>3. CASE screen.key = calls[g].key /\ screen' \in {polled, Loading(polled)}
        <5>1. polled \in [status : {screen.status}, key : {screen.key}, shown : {answer},
                          polling : BOOLEAN, retrying : BOOLEAN, pollError : BOOLEAN,
                          evidenceError : BOOLEAN, artifacts : {screen.artifacts}]
          BY <4>0 DEF Screens
        <5> HIDE DEF polled
        <5> QED
          BY <4>3, <5>1 DEF Loading
      <4>4. CASE \/ screen' = [screen EXCEPT !.retrying = FALSE]
                 \/ screen' = [screen EXCEPT !.pollError = TRUE, !.polling = FALSE]
                 \/ screen' = [screen EXCEPT !.artifacts = answer.attempt]
                 \/ screen' = [screen EXCEPT !.evidenceError = TRUE]
        BY <4>0, <4>4 DEF Screens
      <4> QED
        BY <1>1, <4>1, <4>2, <4>3, <4>4 DEF ScreenGoesOn
    <3> QED
      BY <1>0, <1>5, <3>1 DEF KeysAreOwned, AppTypeOK, Screens
  <2> QED
    BY <2>1, <2>2, <2>3, <2>4, <2>5, <2>6 DEF KeysAreOwned
<1>11. FirstIsAlone'
  <2> SUFFICES ASSUME calls'[current].pc = "create", calls'[current].key = current
               PROVE  /\ \A request \in adrift' : request[2] # current
                      /\ Waits(current)' => ~Exists(server[current])
    BY <1>3 DEF FirstIsAlone
  <2>1. /\ g # current /\ calls'[current] = calls[current]
        /\ \A request \in adrift : request[2] # current
        /\ Waits(current) => ~Exists(server[current])
    BY <1>0, <1>2, <1>3 DEF FirstIsAlone
  <2>2. calls[g].key # current
    BY <1>0, <1>3, <2>1, LatestIsAlone
  <2>3. Waits(current)' => Waits(current)
    BY <1>3, <2>1 DEF Waits
  <2> QED
    BY <1>6, <2>1, <2>2, <2>3
<1>12. ASSUME NEW k \in Keys, InUse(k)', Exists(server'[k]) \/ MayBeCreated(k)'
       PROVE  k \in told' \/ stored'[calls'[k].candidate] = k
  <2>1. /\ InUse(k) /\ (Exists(server[k]) \/ MayBeCreated(k))
        /\ calls'[k].candidate = calls[k].candidate /\ calls[k].candidate \in Candidates
    BY <1>0, <1>3, <1>5, <1>7, <1>12, CallFields
  <2>2. k \in told \/ stored[calls[k].candidate] = k
    BY <1>0, <2>1 DEF KeysAreKept
  <2>3. ASSUME g = current, calls[g].pc = "create", Waits(g), calls[g].key = g, adrift' = adrift
        PROVE  k # g
    <3>1. ~Exists(server[g]) /\ \A request \in adrift : request[2] # g
      BY <1>0, <2>3 DEF FirstIsAlone
    <3>2. ASSUME NEW h \in Generations, calls'[h].pc = "create", calls'[h].key = g PROVE FALSE
      <4>1. h # g /\ Begun(h) /\ calls[h].key = current
        BY <1>2, <1>3, <2>3, <3>2 DEF Begun
      <4> QED
        BY <1>0, <2>3, <4>1, LatestIsAlone
    <3>3. ~MayBeCreated(g)'
      BY <2>3, <3>1, <3>2 DEF MayBeCreated
    <3> QED
      BY <1>3, <1>12, <3>1, <3>3
  <2>4. CASE calls[k].candidate = calls[g].candidate /\ g = current /\ calls[g].pc = "create"
    <3>1. stored[calls[k].candidate] = calls[g].key
      BY <1>0, <2>4 DEF KeysAreOwned
    <3> QED
      BY <1>8, <2>1, <2>2, <2>3, <2>4, <3>1
  <2>5. CASE ~(calls[k].candidate = calls[g].candidate /\ g = current /\ calls[g].pc = "create")
    BY <1>0, <1>8, <2>1, <2>2, <2>5 DEF AppTypeOK
  <2> QED
    BY <2>4, <2>5
<1> QED
  BY <1>5, <1>10, <1>11, <1>12 DEF KeyInv, KeysAreKept

LEMMA KeysAreInvariant ==
  ASSUME AppTypeOK, FirstIsOver, ShownInv, KeyInv, [Next]_vars
  PROVE  KeyInv'
<1>1. AnswersAreKnown
  BY DEF ShownInv
<1>2. CASE UNCHANGED vars
  <2>1. CallsInTurn'
    BY <1>2 DEF vars, KeyInv, CallsInTurn, Begun, InUse
  <2>2. KeysAreOwned'
    BY <1>2 DEF vars, KeyInv, KeysAreOwned, Begun, InUse
  <2>3. FirstIsAlone' /\ KeysAreKept'
    BY <1>2 DEF vars, KeyInv, FirstIsAlone, KeysAreKept, MayBeCreated, Waits, Begun, InUse
  <2> QED
    BY <2>1, <2>2, <2>3 DEF KeyInv
<1> QED
  BY <1>1, <1>2, ClickKeepsKeys, AnswerKeepsKeys, LateKeepsKeys, RemountKeepsKeys,
     ContinuationKeepsKeys DEF Next, Deadline

LEMMA InitKeepsKeys == Init => KeyInv
<1> SUFFICES ASSUME Init PROVE KeyInv
  OBVIOUS
<1>0. AppTypeOK /\ Keys = Generations /\ 0 \in Generations /\ Generations \subseteq Nat
  BY InitIsTyped, Constants
<1>1. /\ current = 0 /\ told = {} /\ pending = [c \in Candidates |-> NoKey]
      /\ server = [k \in Keys |-> NoRelease] /\ screen.status = "idle"
      /\ \A g \in Generations : (Begun(g) <=> g = 0) /\ calls[g].pc # "create"
      /\ \A g \in Generations : calls[g].key = g
  BY DEF Init, Inactive, CreateActiveState, Begun
<1>2. \A k \in Keys : InUse(k) <=> k = 0
  BY <1>0, <1>1 DEF InUse
<1>3. \A k \in Keys : ~Exists(server[k]) /\ (MayBeCreated(k) <=> <<"create", k>> \in adrift)
  BY <1>0, <1>1 DEF Exists, NoRelease, MayBeCreated
<1>4. CallsInTurn
  <2>1. \A g \in Generations : Begun(g) =>
          /\ g = 0 /\ calls[g].key = 0 /\ calls[g].key <= g
          /\ InUse(calls[g].key) /\ calls[calls[g].key].candidate = calls[g].candidate
    <3> SUFFICES ASSUME NEW g \in Generations, Begun(g)
                 PROVE  /\ g = 0 /\ calls[g].key = 0 /\ calls[g].key <= g /\ InUse(calls[g].key)
                        /\ calls[calls[g].key].candidate = calls[g].candidate
      OBVIOUS
    <3>1. g = 0 /\ calls[g].key = g
      BY <1>1
    <3>2. InUse(g)
      BY <1>0, <1>2, <3>1
    <3> QED
      BY <3>1, <3>2
  <2>2. \A g, h \in Generations : h < g /\ Begun(g) => Begun(h)
    <3>1. \A g, h \in Generations : h < g => g # 0
      BY <1>0
    <3> QED
      BY <1>1, <3>1
  <2> QED
    BY <1>1, <2>1, <2>2 DEF CallsInTurn
<1>5. /\ \A c \in Candidates : stored[c] # NoKey => stored[c] = 0 /\ c = calls[0].candidate
      /\ \A request \in adrift : request = <<"create", 0>> /\ stored[calls[0].candidate] = 0
  <2>1. calls[0].candidate \in Candidates
    BY <1>0, CallFields
  <2>2. CASE stored = pending /\ adrift = {}
    BY <1>1, <2>2
  <2>3. CASE /\ stored = [pending EXCEPT ![calls[0].candidate] = 0]
             /\ adrift = {<<"create", 0>>}
    BY <1>1, <2>1, <2>3
  <2> QED
    BY <2>2, <2>3 DEF Init
<1>6. KeysAreOwned
  <2>1. \A c \in Candidates : stored[c] # NoKey => InUse(stored[c]) /\ calls[stored[c]].candidate = c
    BY <1>0, <1>2, <1>5
  <2>2. \A request \in adrift : InUse(request[2])
    BY <1>0, <1>2, <1>5
  <2>3. /\ \A c \in Candidates : pending[c] = NoKey
        /\ \A k \in Keys : ~Exists(server[k])
        /\ calls[current].pc # "create" /\ screen.status # "active"
    BY <1>0, <1>1, <1>3
  <2> QED
    BY <2>1, <2>2, <2>3 DEF KeysAreOwned
<1>7. FirstIsAlone /\ KeysAreKept
  BY <1>0, <1>1, <1>2, <1>3, <1>5 DEF FirstIsAlone, KeysAreKept
<1> QED
  BY <1>4, <1>6, <1>7 DEF KeyInv

\* Every release the control plane has made of a submission is one the page
\* was told of, or its key is still the stored one: however often the answer
\* is lost, the page left and the button pressed again, the next submission
\* of the candidate repeats the key (ReleaseApp.tsx:79-116 and 588-591).
THEOREM SubmissionsAreRepeated == Spec => []NoReleaseIsForgotten
<1>1. Init => KeyInv
  BY InitKeepsKeys
<1>2. AppTypeOK /\ FirstIsOver /\ ShownInv /\ KeyInv /\ [Next]_vars => KeyInv'
  BY KeysAreInvariant
<1>3. AppTypeOK /\ ShownInv /\ KeyInv => NoReleaseIsForgotten
  <2> SUFFICES ASSUME AppTypeOK, ShownInv, KeyInv, NEW g \in Generations,
                      calls[g].pc # "none", server[calls[g].key] # NoRelease
               PROVE  calls[g].key \in told \/ stored[calls[g].candidate] = calls[g].key
    BY DEF NoReleaseIsForgotten
  <2>1. calls[g].key \in Keys
    BY CallFields
  <2>2. InUse(calls[g].key) /\ calls[calls[g].key].candidate = calls[g].candidate
    BY DEF KeyInv, CallsInTurn, Begun
  <2>3. Exists(server[calls[g].key])
    BY <2>1 DEF ShownInv, AnswersAreKnown
  <2> QED
    BY <2>1, <2>2, <2>3 DEF KeyInv, KeysAreKept
<1> QED
  BY <1>1, <1>2, <1>3, ShownAlways, PTL DEF Spec

-----------------------------------------------------------------------------
(***************************************************************************)
(* The shell around the page, and in it the catalogue page, whose requests *)
(* a demo reset may come between.  A component is found by the id it was   *)
(* listed with or not at all, so what is found is of the seed that was     *)
(* listed, and not before the dependencies have come, so they are not of a *)
(* later one.                                                              *)
(***************************************************************************)
VARIABLES site, loads, slot, module, failed, shown

App == INSTANCE Shell

AsListed(run) ==
  /\ run.dependencies <= seed
  /\ run.related => run.dependencies # Waiting
  /\ \A name \in Names :
       /\ run.found[name] \in {Waiting, run.components}
       /\ run.found[name] # Waiting => run.related /\ run.dependencies <= run.found[name]
       /\ run.versions[name] # "asked" => run.found[name] # Waiting

FoundAsListed(n) == AsListed(fetches[n])

CatalogueInv ==
  /\ CatalogueTypeOK
  /\ \A n \in Runs : FoundAsListed(n)
  /\ ComponentsBelongTogether

Fetches == [going : BOOLEAN, components : Seeds \cup {Waiting},
            dependencies : Seeds \cup {Waiting}, related : BOOLEAN,
            found : [Names -> Seeds \cup {Waiting}],
            versions : [Names -> {"asked", "some", "none"}]]

Pages == [status : {"unmounted", "loading", "error", "ready"},
          components : SUBSET Component, dependencies : Seeds \cup {Waiting}]

\* What ComponentsBelongTogether asks of a page.
BelongsTogether(state) ==
  state.status = "ready" =>
    \E s \in Seeds :
      /\ {c.name : c \in state.components} = Names
      /\ \A c \in state.components : c.seed = s
      /\ state.dependencies <= s

\* A run that asks again has found nothing.
LEMMA NoRunIsTyped ==
  ASSUME seed \in Seeds
  PROVE  /\ NoRun \in Fetches /\ [NoRun EXCEPT !.going = TRUE] \in Fetches
         /\ AsListed(NoRun) /\ AsListed([NoRun EXCEPT !.going = TRUE])
<1>1. NoRun \in Fetches /\ [NoRun EXCEPT !.going = TRUE] \in Fetches
  BY DEF Fetches, NoRun, Waiting
<1>2. 0 <= seed
  BY CatalogueAssumption DEF Seeds
<1> QED
  BY <1>1, <1>2 DEF AsListed, NoRun, Waiting

\* One run changes, and the page stays or becomes one that belongs together.
LEMMA RunChanges ==
  ASSUME CatalogueInv, NEW n \in Runs, NEW run \in Fetches, AsListed(run),
         fetches' = [fetches EXCEPT ![n] = run], seed' = seed,
         page' \in Pages, BelongsTogether(page')
  PROVE  CatalogueInv'
<1>0. fetches \in [Runs -> Fetches] /\ seed \in Seeds
  BY DEF CatalogueInv, CatalogueTypeOK, Fetches
<1>1. fetches' \in [Runs -> Fetches] /\ fetches'[n] = run
      /\ \A m \in Runs : m # n => fetches'[m] = fetches[m]
  BY <1>0
<1>2. CatalogueTypeOK'
  BY <1>0, <1>1 DEF CatalogueTypeOK, Fetches, Pages
<1>3. ASSUME NEW m \in Runs PROVE FoundAsListed(m)'
  <2>1. CASE m = n
    BY <1>1, <2>1 DEF FoundAsListed, AsListed
  <2>2. CASE m # n
    BY <1>1, <2>2 DEF FoundAsListed, AsListed, CatalogueInv
  <2> QED
    BY <2>1, <2>2
<1>4. ComponentsBelongTogether'
  BY DEF ComponentsBelongTogether, BelongsTogether
<1> QED
  BY <1>2, <1>3, <1>4 DEF CatalogueInv

LEMMA PageStays ==
  ASSUME CatalogueInv, NEW n \in Runs, NEW run \in Fetches, AsListed(run),
         fetches' = [fetches EXCEPT ![n] = run], UNCHANGED <<seed, page>>
  PROVE  CatalogueInv'
<1>1. page \in Pages /\ BelongsTogether(page)
  BY DEF CatalogueInv, CatalogueTypeOK, Pages, ComponentsBelongTogether, BelongsTogether
<1> QED
  BY <1>1, RunChanges

\* What becomes of the page when a run is over.
LEMMA RunSettles ==
  ASSUME CatalogueInv, NEW n \in Runs, NEW state \in Pages, Settle(n, state),
         seed' = seed, BelongsTogether(state)
  PROVE  CatalogueInv'
<1>1. fetches' = [fetches EXCEPT ![n] = NoRun] /\ page' \in {page, state}
  BY DEF Settle
<1>2. page \in Pages /\ BelongsTogether(page) /\ seed \in Seeds
  BY DEF CatalogueInv, CatalogueTypeOK, Pages, ComponentsBelongTogether, BelongsTogether
<1> QED
  BY <1>1, <1>2, NoRunIsTyped, RunChanges

LEMMA ThrowEnds ==
  ASSUME CatalogueInv, NEW n \in Runs, Throw(n), seed' = seed
  PROVE  CatalogueInv'
<1>1. /\ [NoPage EXCEPT !.status = "error"] \in Pages
      /\ BelongsTogether([NoPage EXCEPT !.status = "error"])
  BY DEF NoPage, Pages, BelongsTogether
<1> QED
  BY <1>1, RunSettles DEF Throw

\* A request is answered, fails, or the page is complete.
LEMMA FetchStepKeeps ==
  ASSUME CatalogueInv, NEW n \in Runs, FetchStep(n)
  PROVE  CatalogueInv'
<1>0. /\ fetches \in [Runs -> Fetches] /\ seed \in Seeds /\ AsListed(fetches[n])
      /\ fetches[n] \in Fetches /\ Waiting \notin Seeds /\ Seeds \subseteq Nat
  BY DEF CatalogueInv, CatalogueTypeOK, FoundAsListed, Fetches, Waiting, Seeds
<1>1. CASE FetchThrows(n)
  BY <1>1, ThrowEnds DEF FetchThrows
<1>2. CASE ListComponents(n)
  <2> DEFINE run == [fetches[n] EXCEPT !.components = seed]
  <2>1. /\ run \in Fetches /\ run.components = seed
        /\ run.dependencies = fetches[n].dependencies /\ run.related = fetches[n].related
        /\ run.found = fetches[n].found /\ run.versions = fetches[n].versions
    BY <1>0 DEF Fetches
  <2>2. /\ fetches' = [fetches EXCEPT ![n] = run] /\ UNCHANGED <<seed, page>>
        /\ fetches[n].components = Waiting
    BY <1>2 DEF ListComponents
  <2> HIDE DEF run
  <2>3. AsListed(run)
    BY <1>0, <2>1, <2>2 DEF AsListed
  <2> QED
    BY <2>1, <2>2, <2>3, PageStays
<1>3. CASE ListDependencies(n)
  <2> DEFINE run == [fetches[n] EXCEPT !.dependencies = seed]
  <2>1. /\ run \in Fetches /\ run.components = fetches[n].components
        /\ run.dependencies = seed /\ run.related = fetches[n].related
        /\ run.found = fetches[n].found /\ run.versions = fetches[n].versions
    BY <1>0 DEF Fetches
  <2>2. fetches' = [fetches EXCEPT ![n] = run] /\ UNCHANGED <<seed, page>>
        /\ fetches[n].dependencies = Waiting
    BY <1>3 DEF ListDependencies
  <2> HIDE DEF run
  <2>3. AsListed(run)
    BY <1>0, <2>1, <2>2 DEF AsListed
  <2> QED
    BY <2>1, <2>2, <2>3, PageStays
<1>4. CASE IncludeComponents(n)
  <2> DEFINE run == [fetches[n] EXCEPT !.related = TRUE]
  <2>1. /\ run \in Fetches /\ run.components = fetches[n].components
        /\ run.dependencies = fetches[n].dependencies /\ run.related
        /\ run.found = fetches[n].found /\ run.versions = fetches[n].versions
    BY <1>0 DEF Fetches
  <2>2. \/ fetches' = [fetches EXCEPT ![n] = run] /\ UNCHANGED <<seed, page>>
        \/ Throw(n) /\ seed' = seed
    BY <1>4 DEF IncludeComponents
  <2> HIDE DEF run
  <2>4. fetches[n].dependencies # Waiting
    BY <1>4 DEF IncludeComponents
  <2>3. CASE fetches' = [fetches EXCEPT ![n] = run] /\ UNCHANGED <<seed, page>>
    <3>1. AsListed(run)
      BY <1>0, <2>1, <2>4 DEF AsListed
    <3> QED
      BY <2>1, <2>3, <3>1, PageStays
  <2> QED
    BY <2>2, <2>3, ThrowEnds
<1>5. ASSUME NEW name \in Names, FindComponentById(n, name) PROVE CatalogueInv'
  <2> DEFINE run == [fetches[n] EXCEPT !.found[name] = seed]
  <2>1. /\ run \in Fetches /\ run.components = fetches[n].components
        /\ run.dependencies = fetches[n].dependencies /\ run.related = fetches[n].related
        /\ run.found = [fetches[n].found EXCEPT ![name] = seed]
        /\ run.versions = fetches[n].versions
    BY <1>0 DEF Fetches
  <2>2. \/ /\ fetches' = [fetches EXCEPT ![n] = run] /\ UNCHANGED <<seed, page>>
           /\ fetches[n].components = seed /\ fetches[n].related
        \/ Throw(n) /\ seed' = seed
    BY <1>0, <1>5 DEF FindComponentById, Listed, Fetches
  <2>3. \A other \in Names :
          run.found[other] = IF other = name THEN seed ELSE fetches[n].found[other]
    BY <1>0, <2>1 DEF Fetches
  <2> HIDE DEF run
  <2>4. CASE /\ fetches' = [fetches EXCEPT ![n] = run] /\ UNCHANGED <<seed, page>>
             /\ fetches[n].components = seed /\ fetches[n].related
    <3>1. AsListed(run)
      BY <1>0, <2>1, <2>3, <2>4 DEF AsListed, Fetches
    <3> QED
      BY <2>1, <2>4, <3>1, PageStays
  <2> QED
    BY <2>2, <2>4, ThrowEnds
<1>6. ASSUME NEW name \in Names, IncludeVersions(n, name) PROVE CatalogueInv'
  <2> DEFINE there == IF name = "pricing" /\ fetches[n].found[name] = seed THEN "some" ELSE "none"
             run == [fetches[n] EXCEPT !.versions[name] = there]
  <2>1. /\ run \in Fetches /\ run.components = fetches[n].components
        /\ run.dependencies = fetches[n].dependencies /\ run.related = fetches[n].related
        /\ run.found = fetches[n].found
        /\ run.versions = [fetches[n].versions EXCEPT ![name] = there]
    BY <1>0 DEF Fetches
  <2>2. /\ fetches' = [fetches EXCEPT ![n] = run] /\ UNCHANGED <<seed, page>>
        /\ fetches[n].found[name] # Waiting
    BY <1>6 DEF IncludeVersions
  <2>3. \A other \in Names :
          run.versions[other] = IF other = name THEN there ELSE fetches[n].versions[other]
    BY <1>0, <2>1 DEF Fetches
  <2> HIDE DEF run
  <2>4. AsListed(run)
    BY <1>0, <2>1, <2>2, <2>3 DEF AsListed
  <2> QED
    BY <2>1, <2>2, <2>4, PageStays
<1>7. CASE LoadCatalog(n)
  <2> DEFINE part(name) == [name |-> name, seed |-> fetches[n].found[name],
                            versions |-> fetches[n].versions[name] = "some"]
             parts == {part(name) : name \in Names}
  <2>1. fetches[n].components \in Seeds
    BY <1>0, <1>7 DEF LoadCatalog, Listed, Fetches
  <2>2. /\ \A name \in Names : fetches[n].found[name] = fetches[n].components
        /\ fetches[n].dependencies <= fetches[n].components
    BY <1>0, <1>7 DEF LoadCatalog, AsListed, Names
  <2>3. /\ \A name \in Names : part(name) \in Component /\ part(name).name = name
                                   /\ part(name).seed = fetches[n].components
    BY <2>1, <2>2 DEF Component
  <2> HIDE DEF part
  <2>4. parts \in SUBSET Component /\ {c.name : c \in parts} = Names
        /\ \A c \in parts : c.seed = fetches[n].components
    BY <2>3
  <2> DEFINE complete == [status |-> "ready", dependencies |-> fetches[n].dependencies,
                          components |-> parts]
  <2>5. Snapshot(n) = complete
    BY DEF Snapshot, part
  <2>6. Settle(n, complete) /\ seed' = seed
    BY <1>7, <2>5 DEF LoadCatalog
  <2> HIDE DEF parts
  <2>7. complete \in Pages
    BY <1>0, <2>4 DEF Pages, Fetches
  <2>8. BelongsTogether(complete)
    BY <2>1, <2>2, <2>4 DEF BelongsTogether
  <2> HIDE DEF complete
  <2> QED
    BY <2>6, <2>7, <2>8, RunSettles
<1> QED
  BY <1>1, <1>2, <1>3, <1>4, <1>5, <1>6, <1>7 DEF FetchStep

\* The catalogue in the shell is the catalogue.
LEMMA ShellHasTheCatalogue ==
  /\ App!CatalogueInit => CatalogueInit
  /\ App!MountPage => MountPage
  /\ App!CatalogueStep => CatalogueStep
<1> USE DEF App!NoRun, NoRun, App!NoPage, NoPage, App!Runs, Runs, App!Names, Names,
        App!Waiting, Waiting
<1>1. /\ App!CatalogueInit => CatalogueInit
      /\ App!MountPage => MountPage
      /\ App!ResetDemo => ResetDemo
  BY DEF App!CatalogueInit, CatalogueInit, App!MountPage, MountPage, App!ResetDemo, ResetDemo
<1>2. \A n, state : App!Settle(n, state) <=> Settle(n, state)
  BY DEF App!Settle, Settle, App!Active, Active
<1>3. \A n : App!Throw(n) <=> Throw(n)
  BY <1>2 DEF App!Throw, Throw
<1>4. \A n : App!Listed(n) <=> Listed(n)
  BY DEF App!Listed, Listed
<1>5. \A n : App!Snapshot(n) = Snapshot(n)
  BY DEF App!Snapshot, Snapshot
<1>6. ASSUME NEW n, App!FetchStep(n) PROVE FetchStep(n)
  <2>1. CASE App!FetchThrows(n)
    BY <1>3, <2>1 DEF App!FetchThrows, FetchThrows, FetchStep
  <2>2. CASE App!ListComponents(n)
    BY <2>2 DEF App!ListComponents, ListComponents, FetchStep
  <2>3. CASE App!ListDependencies(n)
    BY <2>3 DEF App!ListDependencies, ListDependencies, FetchStep
  <2>4. CASE App!IncludeComponents(n)
    BY <1>3, <2>4 DEF App!IncludeComponents, IncludeComponents, FetchStep
  <2>5. CASE App!LoadCatalog(n)
    BY <1>2, <1>4, <1>5, <2>5 DEF App!LoadCatalog, LoadCatalog, FetchStep
  <2>6. ASSUME NEW name \in Names, App!FindComponentById(n, name) PROVE FetchStep(n)
    BY <1>3, <1>4, <2>6 DEF App!FindComponentById, FindComponentById, FetchStep
  <2>7. ASSUME NEW name \in Names, App!IncludeVersions(n, name) PROVE FetchStep(n)
    BY <2>7 DEF App!IncludeVersions, IncludeVersions, FetchStep
  <2> QED
    BY <1>6, <2>1, <2>2, <2>3, <2>4, <2>5, <2>6, <2>7 DEF App!FetchStep
<1> QED
  BY <1>1, <1>6 DEF App!CatalogueStep, CatalogueStep

LEMMA CatalogueInvIsPreserved ==
  ASSUME CatalogueInv, [App!Next]_App!vars
  PROVE  CatalogueInv'
<1>1. CASE UNCHANGED <<seed, fetches, page>>
  BY <1>1 DEF CatalogueInv, CatalogueTypeOK, FoundAsListed, AsListed,
     ComponentsBelongTogether
<1>2. CASE ResetDemo
  <2>1. seed \in Nat /\ seed' = seed + 1 /\ seed' \in Seeds /\ UNCHANGED <<fetches, page>>
    BY <1>2, CatalogueAssumption DEF ResetDemo, CatalogueInv, CatalogueTypeOK, Seeds
  <2>2. ASSUME NEW n \in Runs PROVE FoundAsListed(n)'
    <3>1. fetches[n].dependencies \in Nat /\ fetches[n].dependencies <= seed
      BY CatalogueAssumption
         DEF CatalogueInv, CatalogueTypeOK, FoundAsListed, AsListed, Seeds, Waiting
    <3> QED
      BY <2>1, <3>1 DEF CatalogueInv, FoundAsListed, AsListed
  <2> QED
    BY <2>1, <2>2 DEF CatalogueInv, CatalogueTypeOK, ComponentsBelongTogether
<1>3. ASSUME NEW n \in Runs, FetchStep(n) PROVE CatalogueInv'
  BY <1>3, FetchStepKeeps
<1>4. CASE App!ShowCatalogue
  <2> DEFINE run == [NoRun EXCEPT !.going = TRUE]
  <2>1. run \in Fetches /\ AsListed(run)
    BY NoRunIsTyped DEF CatalogueInv, CatalogueTypeOK
  <2>2. /\ fetches' = [n \in Runs |-> run] /\ page' = [page EXCEPT !.status = "loading"]
        /\ UNCHANGED seed
    BY <1>4, ShellHasTheCatalogue DEF App!ShowCatalogue, MountPage
  <2> HIDE DEF run
  <2>3. page'.status = "loading" /\ CatalogueTypeOK'
    BY <2>1, <2>2 DEF CatalogueInv, CatalogueTypeOK, Fetches
  <2>4. ASSUME NEW n \in Runs PROVE FoundAsListed(n)'
    BY <2>1, <2>2 DEF FoundAsListed, AsListed
  <2> QED
    BY <2>3, <2>4 DEF CatalogueInv, ComponentsBelongTogether
<1>5. ASSUME NEW r \in App!Remotes, App!RemoteStep(r) PROVE UNCHANGED <<seed, fetches, page>>
  BY <1>5 DEF App!RemoteStep, App!LoadStep, App!ConfigArrives, App!ModuleArrives,
     App!RenderThrows, App!catalogueVars
<1> QED
  BY <1>1, <1>2, <1>3, <1>4, <1>5, ShellHasTheCatalogue
     DEF App!Next, CatalogueStep, App!vars, App!catalogueVars

\* The components the catalogue page shows are of one seed, Checkout and Pricing once
\* each, and the dependencies beside them of no later one, for any number of demo
\* resets at any time, with one run of the effect or with the two of StrictMode,
\* whatever fails and whatever the remotes do (api.ts:43-51,
\* routes/components.ts:14-22, reset-demo.ts:6-19).
THEOREM ComponentsAreOfOneSeed == App!Spec => []ComponentsBelongTogether
<1>1. App!Init => CatalogueInv
  <2> SUFFICES ASSUME App!Init PROVE CatalogueInv
    OBVIOUS
  <2>1. /\ seed = 1 /\ fetches = [n \in Runs |-> NoRun] /\ page = NoPage
    BY ShellHasTheCatalogue DEF App!Init, CatalogueInit
  <2>2. page.status = "unmounted" /\ CatalogueTypeOK
    <3>1. seed \in Seeds
      BY <2>1, CatalogueAssumption DEF Seeds
    <3> QED
      BY <2>1, <3>1, NoRunIsTyped DEF CatalogueTypeOK, Fetches, NoPage
  <2>3. \A n \in Runs : FoundAsListed(n)
    BY <2>1, <2>2, NoRunIsTyped DEF FoundAsListed, CatalogueTypeOK
  <2> QED
    BY <2>2, <2>3 DEF CatalogueInv, ComponentsBelongTogether
<1>2. CatalogueInv /\ [App!Next]_App!vars => CatalogueInv'
  BY CatalogueInvIsPreserved
<1>3. CatalogueInv => ComponentsBelongTogether
  BY DEF CatalogueInv
<1> QED
  BY <1>1, <1>2, <1>3, PTL DEF App!Spec
=============================================================================
