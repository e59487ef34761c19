---------------------------- MODULE StartupProofs ----------------------------
(***************************************************************************)
(* The start of the hub, proved for every number of attempts and every     *)
(* timeout.  main is a caller of the timed client like any other, so what  *)
(* the clock shows of the mutex and its queue holds at start too; and as   *)
(* it is the only caller, its call never waits for another one.  Time      *)
(* passes in a timeout or in a pause of main, and nowhere else.            *)
(***************************************************************************)
EXTENDS Startup, TimedNodeClientProofs

Step == RequestTimeout + RetryDelay
Base == (attempt - 1) * Step

\* How much of its timeout the present attempt has used.
Spent ==
    IF state[attempt] \in {"idle", "queued", "sending"} THEN 0
    ELSE IF state[attempt] = "waiting" THEN timer[attempt]
    ELSE RequestTimeout

MainInv ==
    /\ StartupTypeOK
    /\ \A r \in Requests : r > attempt => state[r] = "idle"
    /\ \A r \in Requests : InProgress(r) => r = attempt /\ main = "trying"

SpentInv ==
    /\ main = "trying" => clock <= Base + Spent
    /\ main = "pausing" => clock <= Base + RequestTimeout + pause

ClientInv == TypeOK /\ LockInv /\ TimedTypeOK /\ QueueInv /\ TimeInv

-----------------------------------------------------------------------------
\* The calls are numbers, and so is everything that is counted.
Numbered ==
    /\ attempt \in Requests /\ attempt \in Nat /\ attempt >= 1
    /\ MaxAttempts \in Nat /\ attempt <= MaxAttempts
    /\ RequestTimeout \in Nat /\ RetryDelay \in Nat /\ RetryDelay # 0 /\ RequestTimeout # 0
    /\ timer[attempt] \in Nat /\ timer[attempt] <= RequestTimeout
    /\ clock \in Nat /\ pause \in Nat /\ pause <= RetryDelay
    /\ Spent \in Nat /\ Spent <= RequestTimeout
    /\ Base \in Nat

\* They are, from the types and the assumptions on the constants.
LEMMA Attempts == ClientInv /\ MainInv => Numbered
<1> SUFFICES ASSUME ClientInv, MainInv PROVE Numbered
  OBVIOUS
<1>1. /\ attempt \in Requests /\ attempt \in Nat /\ attempt >= 1
      /\ MaxAttempts \in Nat /\ attempt <= MaxAttempts
      /\ clock \in Nat /\ pause \in Nat /\ pause <= RetryDelay
      /\ RequestTimeout \in Nat /\ RetryDelay \in Nat /\ RetryDelay # 0 /\ RequestTimeout # 0
  BY AttemptsAreCalls, TicksAreCounted DEF MainInv, StartupTypeOK
<1>2. timer[attempt] \in Nat /\ timer[attempt] <= RequestTimeout
  BY <1>1 DEF ClientInv, TimedTypeOK, Tasks
<1>3. Spent \in Nat /\ Spent <= RequestTimeout
  BY <1>1, <1>2 DEF Spent
<1>4. Base \in Nat
  <2>1. attempt - 1 \in Nat /\ Step \in Nat
    BY <1>1 DEF Step
  <2> QED
    BY <2>1 DEF Base
<1> QED
  BY <1>1, <1>2, <1>3, <1>4 DEF Numbered

\* Attempts are numbered upwards, and only the present one has a call.
LEMMA MainStep ==
    ClientInv /\ MainInv /\ [StartupNext]_startupVars => MainInv'
<1> SUFFICES ASSUME ClientInv, MainInv, [StartupNext]_startupVars PROVE MainInv'
  OBVIOUS
<1>a. /\ attempt \in Requests /\ attempt \in Nat /\ attempt >= 1
      /\ MaxAttempts \in Nat /\ attempt <= MaxAttempts
      /\ RetryDelay \in Nat /\ RetryDelay # 0
      /\ clock \in Nat /\ pause \in Nat /\ pause <= RetryDelay
      /\ stable \in 0..clock /\ healthy \in BOOLEAN
      /\ main \in {"trying", "pausing", "serving", "panicked"}
  BY Attempts DEF Numbered, MainInv, StartupTypeOK
<1>b. /\ \A r \in Requests : r \in Nat
      /\ \A r \in Requests : r > attempt => state[r] = "idle"
      /\ \A r \in Requests : InProgress(r) => r = attempt /\ main = "trying"
      /\ state \in [Requests -> {"idle", "queued"} \cup Holding \cup Ended]
  BY AttemptsAreCalls DEF MainInv, ClientInv, TypeOK
<1>c. \A x \in Ended : x # "queued" /\ x \notin Holding
  BY DEF Ended, Failures, Holding
<1>1. CASE Try
  <2>1. /\ main = "trying" /\ state' = [state EXCEPT ![attempt] = "queued"]
        /\ UNCHANGED <<main, attempt, pause, clock, healthy, stable>>
    BY <1>1 DEF Try, TimedCall, Call, mainVars
  <2>2. \A r \in Requests : r # attempt => state'[r] = state[r]
    BY <1>b, <2>1
  <2> QED
    BY <1>a, <1>b, <2>1, <2>2 DEF MainInv, StartupTypeOK, InProgress
<1>2. ASSUME Proceed \/ Pause PROVE MainInv'
  <2>1. /\ main = "trying" /\ main' \in {"serving", "pausing"} /\ state[attempt] \in Ended
        /\ pause' \in {pause, 0}
        /\ UNCHANGED <<state, attempt, clock, healthy, stable>>
    BY <1>2 DEF Proceed, Pause, timedVars, vars, callVars, Ended
  <2>2. ~InProgress(attempt)
    BY <1>c, <2>1 DEF InProgress
  <2>3. \A r \in Requests : ~InProgress(r) /\ (InProgress(r)' <=> InProgress(r))
    BY <1>b, <2>1, <2>2 DEF InProgress
  <2>4. StartupTypeOK'
    BY <1>a, <2>1 DEF StartupTypeOK
  <2> QED
    BY <1>b, <2>1, <2>3, <2>4 DEF MainInv
<1>3. CASE NextAttempt
  <2>1. /\ main = "pausing" /\ pause' = 0 /\ UNCHANGED <<state, clock, healthy, stable>>
        /\ \/ attempt < MaxAttempts /\ attempt' = attempt + 1 /\ main' = "trying"
           \/ attempt' = attempt /\ main' = "panicked"
    BY <1>3 DEF NextAttempt, timedVars, vars, callVars
  <2>2. \A r \in Requests : ~InProgress(r) /\ (InProgress(r)' <=> InProgress(r))
    BY <1>b, <2>1 DEF InProgress
  <2>3. StartupTypeOK'
    BY <1>a, <2>1 DEF StartupTypeOK
  <2>4. \A r \in Requests : r > attempt' => r > attempt
    BY <1>a, <1>b, <2>1
  <2> QED
    BY <1>b, <2>1, <2>2, <2>3, <2>4 DEF MainInv
<1>4. CASE ClientStep
  <2>1. UNCHANGED <<main, attempt, pause, clock, healthy, stable>>
    BY <1>4 DEF ClientStep, mainVars
  <2>2. \A r \in Requests : (InProgress(r)' => InProgress(r)) /\ (state[r] = "idle" => state'[r] = "idle")
    <3>1. CASE state' = state
      BY <3>1 DEF InProgress
    <3>2. ASSUME NEW r \in Requests, TimedRequest(r)
          PROVE  \A s \in Requests : /\ InProgress(s)' => InProgress(s)
                                     /\ state[s] = "idle" => state'[s] = "idle"
      <4>1. InProgress(r) /\ \E x : state' = [state EXCEPT ![r] = x]
        BY <3>2 DEF TimedRequest, NotConnected, Register, SendFrame, SendFails,
                    ReceiveResponse, TimeoutElapses, RemoveTimedOut, InProgress, Holding
      <4>2. \A s \in Requests : s # r => state'[s] = state[s]
        BY <1>b, <4>1
      <4> QED
        BY <4>1, <4>2 DEF InProgress, Holding
    <3>3. ASSUME TimedLoop \/ NodeStep PROVE state' = state
      BY <3>3 DEF TimedLoop, NodeStep, ConnectOk, StreamEnds, StreamErrs, StopReading,
                  InstallSink, ClearSink, ConnectErr, DrainPending, Reconnect,
                  HandleIncomingMessage, LinkLost, NodeRuns, NodeAnswers, callVars
    <3> QED
      BY <1>4, <3>1, <3>2, <3>3 DEF ClientStep
  <2>3. StartupTypeOK'
    BY <1>a, <2>1 DEF StartupTypeOK
  <2> QED
    BY <1>b, <2>1, <2>2, <2>3 DEF MainInv
<1>5. CASE NodeChanges
  <2>1. UNCHANGED <<state, main, attempt, pause, clock>> /\ stable' = 0 /\ healthy' = ~healthy
    BY <1>5 DEF NodeChanges, timedVars, vars, callVars, mainVars
  <2>2. StartupTypeOK'
    BY <1>a, <2>1 DEF StartupTypeOK
  <2> QED
    BY <1>b, <2>1, <2>2 DEF MainInv, InProgress
<1>6. CASE StartupTick
  <2>1. /\ UNCHANGED <<state, main, attempt, healthy>>
        /\ clock' = clock + 1 /\ stable' \in {stable, stable + 1}
        /\ pause' = (IF main = "pausing" THEN pause + 1 ELSE pause)
        /\ main = "pausing" => pause # RetryDelay
    BY <1>6 DEF StartupTick, StartupUrgent, Tick, vars, callVars
  <2>2. StartupTypeOK'
    BY <1>a, <2>1 DEF StartupTypeOK
  <2> QED
    BY <1>b, <2>1, <2>2 DEF MainInv, InProgress
<1>7. CASE UNCHANGED startupVars
  BY <1>7 DEF startupVars, mainVars, timedVars, vars, callVars, MainInv, StartupTypeOK, InProgress
<1> QED
  BY <1>1, <1>2, <1>3, <1>4, <1>5, <1>6, <1>7 DEF StartupNext, HubStep

\* Only the present attempt has a call that can take a step.
LEMMA CallIsAttempt ==
    ASSUME MainInv, NEW r \in Requests, TimedRequest(r)
    PROVE  r = attempt /\ main = "trying"
<1>1. InProgress(r)
  BY DEF TimedRequest, NotConnected, Register, SendFrame, SendFails, ReceiveResponse,
         TimeoutElapses, RemoveTimedOut, InProgress, Holding
<1> QED
  BY <1>1 DEF MainInv

\* No step of the client gives an attempt back what it has used.
LEMMA SpentGrows == ASSUME ClientInv, MainInv, ClientStep PROVE Spent' >= Spent
<1>a. /\ attempt \in Requests /\ RequestTimeout \in Nat
      /\ timer[attempt] \in Nat /\ timer[attempt] <= RequestTimeout
      /\ Spent \in Nat /\ Spent <= RequestTimeout
      /\ attempt' = attempt
  BY Attempts DEF Numbered, ClientStep, mainVars
<1>b. /\ state \in [Requests -> {"idle", "queued"} \cup Holding \cup Ended]
      /\ timer \in [Tasks -> Nat] /\ Requests \subseteq Tasks /\ Loop \notin Requests
  BY TasksDiffer DEF ClientInv, TypeOK, TimedTypeOK, Tasks
<1>c. \A x \in Ended : x \notin {"idle", "queued"} \cup Holding
  BY DEF Ended, Failures, Holding
<1>1. ASSUME NEW r \in Requests, TimedRequest(r), r = attempt PROVE Spent' >= Spent
  <2>1. CASE state'[r] \in Ended
    BY <1>a, <1>c, <1>1, <2>1 DEF Spent, Holding
  <2>2. CASE state'[r] \notin Ended
    <3>1. \/ Register(r) /\ timer' = timer
          \/ SendFrame(r) /\ Starts(r)
          \/ TimeoutElapses(r) /\ timer[r] = RequestTimeout
      <4>1. NotConnected(r) \/ SendFails(r) \/ ReceiveResponse(r) \/ RemoveTimedOut(r)
              => state'[r] \in Ended
        BY <1>b DEF NotConnected, SendFails, ReceiveResponse, RemoveTimedOut, Ended,
                    Failures, EndsAs, ClientInv, TypeOK
      <4> QED
        BY <1>1, <2>2, <4>1 DEF TimedRequest, clockVars
    <3>2. \/ state[r] = "queued" /\ state'[r] = "sending"
          \/ state[r] = "sending" /\ state'[r] = "waiting" /\ timer'[r] = 0
          \/ state[r] = "waiting" /\ state'[r] = "expired" /\ timer[r] = RequestTimeout
      BY <1>b, <3>1 DEF Register, SendFrame, TimeoutElapses, Starts
    <3> QED
      BY <1>a, <1>1, <3>2 DEF Spent
  <2> QED
    BY <2>1, <2>2
<1>2. ASSUME TimedLoop \/ (NodeStep /\ UNCHANGED clockVars) PROVE Spent' >= Spent
  <2>1. state' = state
    BY <1>2 DEF TimedLoop, NodeStep, ConnectOk, StreamEnds, StreamErrs, StopReading,
                InstallSink, ClearSink, ConnectErr, DrainPending, Reconnect,
                HandleIncomingMessage, LinkLost, NodeRuns, NodeAnswers, callVars
  <2>2. timer'[attempt] = timer[attempt]
    BY <1>a, <1>b, <1>2 DEF TimedLoop, Starts, clockVars
  <2> QED
    BY <1>a, <2>1, <2>2 DEF Spent
<1> QED
  BY <1>1, <1>2, CallIsAttempt DEF ClientStep

\* Time passes for a task in the queue only while the attempt waits for its
\* response.
LEMMA TimePassesInTheWait ==
    ASSUME ClientInv, MainInv, StartupTick
    PROVE  /\ main = "trying" => state[attempt] = "waiting"
           /\ loop \in {"installing", "clearing"} => main = "trying" /\ ws_sink
<1>1. ~Urgent /\ (main = "trying" => InProgress(attempt)) /\ attempt \in Requests
  BY Attempts DEF StartupTick, StartupUrgent, Tick, Numbered
<1>2. ASSUME NEW t \in Waiting PROVE sink_lock = attempt /\ state[attempt] \in Holding
  <2>1. sink_queue # <<>>
    <3>1. Places # {}
      BY <1>2 DEF Waiting
    <3> QED
      BY <3>1, EmptySeq DEF Places
  <2>2. sink_lock \in Requests /\ state[sink_lock] \in Holding
    BY <1>1, <2>1 DEF Urgent, ClientInv, TypeOK, LockInv, OneInProgress
  <2> QED
    BY <2>2 DEF MainInv, InProgress
<1>3. ASSUME main = "trying" PROVE state[attempt] = "waiting"
  <2>1. state[attempt] \notin {"sending", "expired"}
    BY <1>1 DEF Urgent
  <2>2. state[attempt] = "queued" => attempt \in Waiting
    BY <1>1 DEF ClientInv, QueueInv
  <2> QED
    BY <1>1, <1>2, <1>3, <2>1, <2>2 DEF InProgress, Holding
<1>4. ASSUME loop \in {"installing", "clearing"} PROVE main = "trying" /\ ws_sink
  <2>1. state[attempt] \in Holding
    BY <1>2, <1>4 DEF ClientInv, QueueInv
  <2> QED
    BY <1>1, <2>1 DEF MainInv, InProgress, ClientInv, LockInv
<1> QED
  BY <1>3, <1>4

\* main's own call is the only one, so it is granted the mutex in no time; it
\* waits for its response no longer than the timeout.
LEMMA SpentStep ==
    /\ ClientInv /\ MainInv /\ SpentInv /\ ClientInv' /\ MainInv' /\ [StartupNext]_startupVars
    => SpentInv'
<1> SUFFICES ASSUME ClientInv, MainInv, SpentInv, ClientInv', MainInv', [StartupNext]_startupVars
             PROVE  SpentInv'
  OBVIOUS
<1>a. /\ attempt \in Requests /\ attempt \in Nat /\ attempt >= 1
      /\ RequestTimeout \in Nat /\ RetryDelay \in Nat
      /\ timer[attempt] \in Nat /\ timer[attempt] <= RequestTimeout
      /\ clock \in Nat /\ pause \in Nat /\ Base \in Nat
      /\ Spent \in Nat /\ Spent <= RequestTimeout
  BY Attempts DEF Numbered
<1>b. /\ state \in [Requests -> {"idle", "queued"} \cup Holding \cup Ended]
      /\ timer \in [Tasks -> Nat] /\ Requests \subseteq Tasks /\ Loop \notin Requests
  BY TasksDiffer DEF ClientInv, TypeOK, TimedTypeOK, Tasks
<1>c. \A x \in Ended : x \notin {"idle", "queued"} \cup Holding
  BY DEF Ended, Failures, Holding
<1>d. Numbered'
  BY Attempts, PTL
<1>1. CASE Try
  <2>1. /\ state[attempt] = "idle" /\ state' = [state EXCEPT ![attempt] = "queued"]
        /\ UNCHANGED <<main, attempt, pause, clock>>
    BY <1>1 DEF Try, TimedCall, Call, mainVars
  <2>2. Spent' = 0 /\ Spent = 0 /\ Base' = Base
    BY <1>a, <1>b, <2>1 DEF Spent, Base
  <2> QED
    BY <1>a, <2>1, <2>2 DEF SpentInv
<1>2. CASE Proceed
  BY <1>2 DEF Proceed, SpentInv
<1>3. CASE Pause
  <2>1. /\ main = "trying" /\ main' = "pausing" /\ pause' = 0 /\ UNCHANGED <<attempt, clock>>
    BY <1>3 DEF Pause
  <2>2. Base' = Base
    BY <2>1 DEF Base
  <2> QED
    BY <1>a, <2>1, <2>2 DEF SpentInv
<1>4. CASE NextAttempt
  <2>1. CASE main' = "trying"
    <3>1. /\ main = "pausing" /\ pause = RetryDelay /\ attempt' = attempt + 1
          /\ clock' = clock
      BY <1>4, <2>1 DEF NextAttempt
    <3>2. Base' = Base + RequestTimeout + RetryDelay
      <4>1. \A n \in Nat : (n + 1 - 1) * Step = (n - 1) * Step + Step
        BY <1>a DEF Step
      <4> QED
        BY <1>a, <3>1, <4>1 DEF Base, Step
    <3>3. Spent' \in Nat
      BY <1>d DEF Numbered
    <3>4. clock <= Base + RequestTimeout + pause
      BY <3>1 DEF SpentInv
    <3>5. clock <= Base + RequestTimeout + RetryDelay
      BY <3>1, <3>4
    <3>6. \A c, b, s \in Nat : c <= b => c <= b + s
      OBVIOUS
    <3>7. Base + RequestTimeout + RetryDelay \in Nat
      BY <1>a
    <3>8. clock <= (Base + RequestTimeout + RetryDelay) + Spent'
      BY <1>a, <3>3, <3>5, <3>6, <3>7
    <3>9. clock' <= Base' + Spent'
      BY <3>1, <3>2, <3>8
    <3> QED
      BY <2>1, <3>9 DEF SpentInv
  <2>2. CASE main' # "trying"
    BY <1>4, <2>2 DEF NextAttempt, SpentInv
  <2> QED
    BY <2>1, <2>2
<1>5. CASE ClientStep
  <2>1. UNCHANGED <<main, attempt, pause, clock>>
    BY <1>5 DEF ClientStep, mainVars
  <2>2. Base' = Base
    BY <2>1 DEF Base
  <2>3. Spent' >= Spent
    BY <1>5, SpentGrows
  <2>4. Spent' \in Nat
    BY <1>d DEF Numbered
  <2>5. main' = "trying" => clock' <= Base' + Spent'
    <3>1. main = "trying" => clock <= Base + Spent
      BY DEF SpentInv
    <3>2. \A c, b, s, t \in Nat : c <= b + s /\ t >= s => c <= b + t
      OBVIOUS
    <3>3. clock <= Base + Spent => clock <= Base + Spent'
      BY <1>a, <2>3, <2>4, <3>2
    <3> QED
      BY <2>1, <2>2, <3>1, <3>3
  <2>6. main' = "pausing" => clock' <= Base' + RequestTimeout + pause'
    BY <2>1, <2>2 DEF SpentInv
  <2> QED
    BY <2>5, <2>6 DEF SpentInv
<1>6. CASE NodeChanges
  BY <1>6 DEF NodeChanges, timedVars, vars, callVars, clockVars, mainVars, SpentInv, Spent, Base
<1>7. CASE StartupTick
  <2>1. /\ UNCHANGED <<state, main, attempt>> /\ clock' = clock + 1 /\ Tick /\ ~Urgent
        /\ pause' = (IF main = "pausing" THEN pause + 1 ELSE pause)
        /\ main = "trying" => InProgress(attempt)
    BY <1>7 DEF StartupTick, StartupUrgent, Tick, vars, callVars
  <2>2. Base' = Base
    BY <2>1 DEF Base
  <2>3. main = "trying" => state[attempt] = "waiting"
    BY <1>7, TimePassesInTheWait
  <2>4. main = "trying" => Spent' = Spent + 1
    <3>1. state[attempt] = "waiting" => timer'[attempt] = timer[attempt] + 1
      BY <1>a, <1>b, <2>1 DEF Tick
    <3> QED
      BY <2>1, <2>3, <3>1 DEF Spent
  <2> QED
    BY <1>a, <2>1, <2>2, <2>4 DEF SpentInv
<1>8. CASE UNCHANGED startupVars
  BY <1>8 DEF startupVars, mainVars, timedVars, vars, callVars, clockVars, SpentInv, Spent, Base
<1> QED
  BY <1>1, <1>2, <1>3, <1>4, <1>5, <1>6, <1>7, <1>8 DEF StartupNext, HubStep

-----------------------------------------------------------------------------
\* Each attempt has a call of its own.
LEMMA AttemptIsCall == StartupSpec => [](attempt \in 1..MaxAttempts)
<1>1. StartupInit => attempt \in 1..MaxAttempts
  BY AttemptsAreCalls DEF StartupInit
<1>2. attempt \in 1..MaxAttempts /\ [StartupNext]_startupVars => (attempt \in 1..MaxAttempts)'
  BY AttemptsAreCalls
     DEF StartupNext, HubStep, Try, Proceed, Pause, NextAttempt, ClientStep, NodeChanges,
         StartupTick, startupVars, mainVars
<1> QED
  BY <1>1, <1>2, PTL DEF StartupSpec

\* The start is a run of the timed client with one caller.
LEMMA StartupIsTimed == StartupSpec => TimedSpec
<1>1. StartupInit => TimedInit
  BY DEF StartupInit
<1>2. attempt \in 1..MaxAttempts /\ [StartupNext]_startupVars => [TimedNext]_timedVars
  <2> SUFFICES ASSUME attempt \in Requests, [StartupNext]_startupVars
               PROVE  TimedNext \/ UNCHANGED timedVars
    BY AttemptsAreCalls
  <2>1. CASE Try
    BY <2>1 DEF Try, TimedNext
  <2>2. CASE ClientStep
    BY <2>2 DEF ClientStep, TimedNext
  <2>3. CASE Proceed \/ Pause \/ NextAttempt \/ NodeChanges \/ UNCHANGED startupVars
    BY <2>3 DEF Proceed, Pause, NextAttempt, NodeChanges, startupVars
  <2>4. CASE StartupTick
    BY <2>4 DEF StartupTick, TimedNext
  <2> QED
    BY <2>1, <2>2, <2>3, <2>4 DEF StartupNext, HubStep
<1> QED
  BY <1>1, <1>2, AttemptIsCall, PTL DEF StartupSpec, TimedSpec

\* Everything that bounds the start holds in every state.
LEMMA StartInvHolds == StartupSpec => [](ClientInv /\ MainInv /\ SpentInv)
<1>1. StartupInit => MainInv /\ SpentInv
  <2> SUFFICES ASSUME StartupInit PROVE MainInv /\ SpentInv
    OBVIOUS
  <2>1. /\ main = "trying" /\ attempt = 1 /\ pause = 0 /\ clock = 0
        /\ healthy = FALSE /\ stable = 0
        /\ \A r \in Requests : state[r] = "idle"
    BY DEF StartupInit, TimedInit, Init
  <2>2. 1 \in Requests
    BY AttemptsAreCalls
  <2>3. MainInv
    <3>1. 1 \in 1..MaxAttempts /\ 0 \in 0..RetryDelay /\ 0 \in 0..0 /\ 0 \in Nat
      BY AttemptsAreCalls, TicksAreCounted
    <3>2. StartupTypeOK
      BY <2>1, <3>1 DEF StartupTypeOK
    <3>3. \A r \in Requests : ~InProgress(r)
      BY <2>1 DEF InProgress, Holding
    <3> QED
      BY <2>1, <3>2, <3>3 DEF MainInv
  <2>4. Spent = 0 /\ Base = 0
    <3>1. \A n \in Nat : (1 - 1) * n = 0
      OBVIOUS
    <3>2. Step \in Nat
      BY TicksAreCounted DEF Step
    <3> QED
      BY <2>1, <2>2, <3>1, <3>2 DEF Spent, Base
  <2> QED
    BY <2>1, <2>3, <2>4 DEF SpentInv
<1>2. StartupSpec => []ClientInv
  BY StartupIsTimed, WaitInvHolds, PTL DEF ClientInv
<1> QED
  BY <1>1, <1>2, MainStep, SpentStep, PTL DEF StartupSpec

\* The loop of get_chain_info_with_retry (main.rs:29-45) makes no attempt too
\* many, and no pause is longer than 5 s.
THEOREM StartupTypeCorrect == StartupSpec => []StartupTypeOK
BY StartInvHolds, PTL DEF MainInv

\* Whatever the node does, the start costs no more than a timeout and a pause
\* for each attempt (main.rs:29-45, client.rs:117).
THEOREM StartIsBounded == StartupSpec => []StartupIsBounded
<1>1. ClientInv /\ MainInv /\ SpentInv => StartupIsBounded
  <2> SUFFICES ASSUME ClientInv, MainInv, SpentInv, Booting
               PROVE  clock <= MaxAttempts * Step
    BY DEF StartupIsBounded, Step
  <2>1. Numbered
    BY Attempts
  <2>2. clock <= Base + Step
    BY <2>1 DEF SpentInv, Booting, Numbered, Step
  <2>3. Base + Step = attempt * Step
    <3>1. \A n, d \in Nat : (n - 1) * d + d = n * d
      OBVIOUS
    <3> QED
      BY <2>1, <3>1 DEF Numbered, Base, Step
  <2>4. attempt * Step <= MaxAttempts * Step
    <3>1. \A m, n, d \in Nat : m <= n => m * d <= n * d
      OBVIOUS
    <3> QED
      BY <2>1, <3>1 DEF Numbered, Step
  <2>5. attempt * Step \in Nat /\ MaxAttempts * Step \in Nat /\ clock \in Nat
    BY <2>1 DEF Numbered, Step
  <2> QED
    BY <2>2, <2>3, <2>4, <2>5
<1> QED
  BY <1>1, StartInvHolds, PTL
-----------------------------------------------------------------------------
(***************************************************************************)
(* A healthy node is found.  While the task has no link that is up it is   *)
(* on its way to one: it waits for the call that is stuck, a timeout at    *)
(* most, and then for its pause (DownInv, ClearingInv).  Once the link is  *)
(* up main may be at the start of a pause, and the call after it is        *)
(* answered (UpInv).                                                       *)
(***************************************************************************)
\* The node is about to answer the present attempt, or has done so.
OnItsWay(r) ==
    /\ timer[r] = 0
    /\ \A m \in inbound : m.id = r => m.body = "result"
    /\ resp[r] \in {"none", "result"}
    /\ resp[r] = "none" => r \in outbound \cup served \cup Answered

DownInv ==
    /\ loop \in {"connecting", "installing"} => stable <= RequestTimeout + RetryDelay
    /\ loop \in {"installing", "reading"} /\ link # "up" => stable = 0
    /\ loop = "draining" => stable <= RequestTimeout
    /\ loop = "sleeping" => stable <= RequestTimeout + timer[Loop]

ClearingInv ==
    loop = "clearing" =>
        /\ main = "trying" => stable <= Spent
        /\ main = "pausing" => stable = 0 \/ (pause = 0 /\ stable <= RequestTimeout)

Hopeful == {"idle", "queued", "sending", "ok"}

CallOnLink(s) ==
    /\ s \in Hopeful => stable <= RequestTimeout + 2 * RetryDelay
    /\ s = "waiting" =>
         \/ stable <= timer[attempt]
         \/ stable <= RequestTimeout + 2 * RetryDelay /\ OnItsWay(attempt)
    /\ s \notin Hopeful \cup {"waiting"} => stable <= RequestTimeout + RetryDelay

UpInv ==
    loop = "reading" /\ link = "up" =>
        /\ main = "pausing" => stable <= RequestTimeout + RetryDelay + pause
        /\ main = "trying" => CallOnLink(state[attempt])

FoundInv == IF healthy THEN DownInv /\ ClearingInv /\ UpInv ELSE stable = 0

\* The task reads from a connection it has made.
LinkKnown == loop \in {"installing", "reading"} => link # "none"

\* No step of the client makes it read from nothing.
LEMMA LinkIsKnown == Spec => []LinkKnown
<1>1. Init => LinkKnown
  BY DEF Init, LinkKnown
<1>2. LinkKnown /\ [Next]_vars => LinkKnown'
  BY DEF LinkKnown, Next, Call, RequestStep, NotConnected, Register, SendFrame, SendFails,
         ReceiveResponse, TimeoutElapses, RemoveTimedOut, DropFuture, LoopStep, ConnectOk,
         ConnectErr, InstallSink, HandleIncomingMessage, StreamEnds, StreamErrs,
         StopReading, ClearSink, DrainPending, Reconnect, NodeStep, LinkLost, NodeRuns,
         NodeAnswers, vars
<1> QED
  BY <1>1, <1>2, PTL DEF Spec

\* What the steps below use of the types.
InRange ==
    /\ attempt \in Requests /\ Loop \notin Requests
    /\ RequestTimeout \in Nat /\ RetryDelay \in Nat /\ RetryDelay # 0 /\ RequestTimeout # 0
    /\ timer \in [Tasks -> Nat]
    /\ timer[attempt] \in Nat /\ timer[attempt] <= RequestTimeout
    /\ timer[Loop] \in Nat /\ timer[Loop] <= RetryDelay
    /\ pause \in Nat /\ pause <= RetryDelay /\ stable \in Nat
    /\ Spent \in Nat /\ Spent <= RequestTimeout
    /\ state \in [Requests -> {"idle", "queued"} \cup Holding \cup Ended]

\* They hold of the numbers of a start.
LEMMA AllInRange == ClientInv /\ MainInv => InRange
<1> SUFFICES ASSUME ClientInv, MainInv PROVE InRange
  OBVIOUS
<1>1. /\ timer \in [Tasks -> Nat] /\ timer[Loop] <= RetryDelay
      /\ Loop \in Tasks /\ Loop \notin Requests
      /\ state \in [Requests -> {"idle", "queued"} \cup Holding \cup Ended]
  BY TasksDiffer DEF ClientInv, TimedTypeOK, TypeOK, Tasks
<1>2. stable \in Nat
  BY Attempts DEF MainInv, StartupTypeOK
<1> QED
  BY <1>1, <1>2, Attempts DEF InRange, Numbered

\* main's own steps: only one that begins a pause, or an attempt, matters.
LEMMA FoundMain ==
    ASSUME InRange, MainInv, FoundInv, healthy, InRange',
           Try \/ Proceed \/ Pause \/ NextAttempt
    PROVE  DownInv' /\ ClearingInv' /\ UpInv'
<1>1. /\ UNCHANGED <<loop, link, stable, timer>>
  BY DEF Try, Proceed, Pause, NextAttempt, TimedCall, Call, timedVars, vars, clockVars
<1>2. DownInv'
  BY <1>1 DEF DownInv, FoundInv
<1> USE DEF InRange, FoundInv, ClearingInv, UpInv, CallOnLink, Hopeful
<1>3. CASE Try
  <2>1. /\ main = "trying" /\ state[attempt] = "idle" /\ state'[attempt] = "queued"
        /\ UNCHANGED <<main, attempt, pause>>
    BY <1>3 DEF Try, TimedCall, Call, mainVars
  <2>2. Spent = 0 /\ Spent' = 0
    BY <2>1 DEF Spent
  <2> QED
    BY <1>1, <1>2, <2>1, <2>2
<1>4. CASE Proceed
  BY <1>1, <1>2, <1>4 DEF Proceed
<1>5. CASE Pause
  <2>1. /\ main = "trying" /\ main' = "pausing" /\ pause' = 0 /\ state[attempt] \in Failures
    BY <1>5 DEF Pause
  <2>2. state[attempt] \notin Hopeful \cup {"waiting"}
    BY <2>1 DEF Failures
  <2> QED
    BY <1>1, <1>2, <2>1, <2>2
<1>6. CASE NextAttempt
  <2>1. /\ main = "pausing" /\ pause = RetryDelay /\ state' = state
        /\ main' = "trying" => attempt' \in Requests /\ attempt' > attempt
        /\ main' \in {"trying", "panicked"}
    BY <1>6 DEF NextAttempt, timedVars, vars, callVars, MainInv, StartupTypeOK
  <2>2. main' = "trying" => state'[attempt'] = "idle"
    BY <2>1 DEF MainInv
  <2>3. ClearingInv'
    BY <1>1, <2>1
  <2>4. main' = "trying" /\ loop = "reading" /\ link = "up" => CallOnLink(state[attempt])'
    BY <1>1, <2>1, <2>2
  <2> QED
    BY <1>1, <1>2, <2>1, <2>3, <2>4
<1> QED
  BY <1>3, <1>4, <1>5, <1>6

\* The present call: a frame that is written on the link is answered.
LEMMA FoundCall ==
    ASSUME InRange, IndInv, MainInv, FoundInv, healthy, InRange', Spent' >= Spent,
           ClientStep, TimedRequest(attempt)
    PROVE  DownInv' /\ ClearingInv' /\ UpInv'
<1>1. /\ UNCHANGED <<loop, link, stable, main, attempt, pause>>
      /\ timer'[Loop] = timer[Loop]
      /\ main = "trying"
  <2>1. UNCHANGED <<stable, main, attempt, pause>>
    BY DEF ClientStep, mainVars
  <2>2. UNCHANGED <<loop, link>>
    BY DEF TimedRequest, NotConnected, Register, SendFrame, SendFails, ReceiveResponse,
           TimeoutElapses, RemoveTimedOut
  <2>3. timer' = timer \/ timer' = [timer EXCEPT ![attempt] = 0]
    BY DEF TimedRequest, clockVars, Starts
  <2>4. timer'[Loop] = timer[Loop]
    BY <2>3 DEF InRange, Tasks
  <2>5. main = "trying"
    BY CallIsAttempt DEF InRange
  <2> QED
    BY <2>1, <2>2, <2>4, <2>5
<1>2. DownInv'
  BY <1>1 DEF DownInv, FoundInv
<1>3. ClearingInv'
  BY <1>1 DEF ClearingInv, FoundInv, InRange
<1>4. ASSUME loop = "reading", link = "up" PROVE CallOnLink(state[attempt])'
  <2> DEFINE r == attempt
  <2>a. CallOnLink(state[r])
    BY <1>1, <1>4 DEF FoundInv, UpInv
  <2>b. ws_sink
    BY <1>4 DEF IndInv, LockInv
  <2> USE DEF InRange, CallOnLink, Hopeful
  <2>1. CASE Register(r)
    BY <1>1, <2>a, <2>1 DEF Register
  <2>2. CASE SendFrame(r) /\ Starts(r)
    <3>1. state[r] = "sending" /\ state'[r] = "waiting" /\ timer'[r] = 0
      BY <2>2 DEF SendFrame, Starts, Tasks
    <3>2. OnItsWay(r)'
      <4>1. resp[r] = "none" /\ runs[r] = 0
        BY <3>1 DEF IndInv, MapInv, NodeInv, Unsent
      <4>2. r \notin Answered
        BY <4>1 DEF IndInv, NodeInv
      <4>3. r \in outbound' /\ inbound' = inbound /\ resp' = resp
        BY <1>4, <2>2 DEF SendFrame
      <4> QED
        BY <1>1, <3>1, <4>1, <4>2, <4>3 DEF OnItsWay, Answered
    <3> QED
      BY <1>1, <2>a, <3>1, <3>2
  <2>3. CASE ReceiveResponse(r)
    <3>1. state[r] = "waiting" /\ state'[r] = EndsAs[resp[r]] /\ resp[r] # "none"
      BY <2>3 DEF ReceiveResponse
    <3>2. state'[r] \notin {"idle", "queued", "sending", "waiting"}
      <4>1. resp[r] \in {"result", "error", "empty", "disconnected"}
        BY <3>1 DEF IndInv, TypeOK
      <4> QED
        BY <3>1, <4>1 DEF EndsAs
    <3>3. OnItsWay(r) => state'[r] = "ok"
      BY <3>1 DEF OnItsWay, EndsAs
    <3> QED
      BY <1>1, <2>a, <3>1, <3>2, <3>3
  <2>4. CASE TimeoutElapses(r) /\ timer[r] = RequestTimeout
    <3>1. state[r] = "waiting" /\ state'[r] = "expired" /\ ~OnItsWay(r)
      BY <2>4 DEF TimeoutElapses, OnItsWay
    <3> QED
      BY <1>1, <2>a, <3>1
  <2>5. CASE RemoveTimedOut(r)
    BY <1>1, <2>a, <2>5 DEF RemoveTimedOut
  <2>6. ~NotConnected(r) /\ ~SendFails(r)
    BY <1>4, <2>b DEF NotConnected, SendFails
  <2> QED
    BY <2>1, <2>2, <2>3, <2>4, <2>5, <2>6 DEF TimedRequest
<1> QED
  BY <1>1, <1>2, <1>3, <1>4 DEF UpInv

\* The connection task is on its way to a link, and on it the answer to main.
LEMMA FoundLoop ==
    ASSUME InRange, IndInv, MainInv, FoundInv, healthy, InRange', Spent' >= Spent,
           Booting, ClientStep, TimedLoop
    PROVE  DownInv' /\ ClearingInv' /\ UpInv'
<1>1. /\ UNCHANGED <<stable, main, attempt, pause, state, outbound>> \/ DrainPending
      /\ UNCHANGED <<stable, main, attempt, pause, state>>
      /\ ~(loop = "connecting" /\ loop' = "sleeping")
      /\ ~(link = "up" /\ loop = "reading" /\ loop' = "clearing")
  BY DEF ClientStep, mainVars, TimedLoop, ConnectOk, StreamEnds, StreamErrs, StopReading,
         InstallSink, ClearSink, ConnectErr, DrainPending, Reconnect,
         HandleIncomingMessage, callVars, nodeVars
<1>2. /\ DownInv /\ ClearingInv /\ UpInv
      /\ main = "trying" => timer'[attempt] = timer[attempt]
  BY DEF FoundInv, TimedLoop, Starts, clockVars, InRange, Tasks
<1>3. CASE ConnectOk
  <2>1. loop = "connecting" /\ loop' = "installing" /\ link' = "up"
    BY <1>3 DEF ConnectOk
  <2> QED
    BY <1>1, <1>2, <2>1 DEF DownInv, ClearingInv, UpInv
<1>4. CASE StreamEnds \/ StreamErrs
  <2>1. loop = "reading" /\ loop' = "clearing" /\ link' = link
    BY <1>4 DEF StreamEnds, StreamErrs, StopReading
  <2>2. stable = 0
    BY <1>1, <1>2, <2>1 DEF DownInv
  <2> QED
    BY <1>1, <2>1, <2>2 DEF DownInv, ClearingInv, UpInv, InRange
<1>5. CASE InstallSink
  <2>1. loop = "installing" /\ loop' = "reading" /\ link' = link
    BY <1>5 DEF InstallSink
  <2>2. stable <= RequestTimeout + RetryDelay /\ (link # "up" => stable = 0)
    BY <1>2, <2>1 DEF DownInv
  <2>3. ~ws_sink
    BY <2>1 DEF IndInv, LockInv
  <2>4. state[attempt] # "waiting"
    BY <2>3 DEF IndInv, LockInv, Holding, InRange
  <2>5. stable' <= RequestTimeout + 2 * RetryDelay
    BY <1>1, <2>2 DEF InRange
  <2>6. CallOnLink(state[attempt])'
    BY <1>1, <2>2, <2>4, <2>5 DEF CallOnLink
  <2>7. stable <= RequestTimeout + RetryDelay + pause
    BY <2>2 DEF InRange
  <2> QED
    BY <1>1, <2>1, <2>2, <2>6, <2>7 DEF DownInv, ClearingInv, UpInv
<1>6. CASE ClearSink
  <2>1. loop = "clearing" /\ loop' = "draining"
    BY <1>6 DEF ClearSink
  <2>2. main \in {"trying", "pausing"}
    BY DEF Booting
  <2> QED
    BY <1>1, <1>2, <2>1, <2>2 DEF DownInv, ClearingInv, UpInv, InRange
<1>7. CASE ConnectErr
  BY <1>1, <1>7 DEF ConnectErr
<1>8. CASE DrainPending /\ Starts(Loop)
  <2>1. loop = "draining" /\ loop' = "sleeping" /\ timer'[Loop] = 0
    BY <1>8 DEF DrainPending, Starts, InRange, Tasks
  <2> QED
    BY <1>1, <1>2, <2>1 DEF DownInv, ClearingInv, UpInv, InRange
<1>9. CASE Reconnect /\ timer[Loop] = RetryDelay
  <2>1. loop = "sleeping" /\ loop' = "connecting"
    BY <1>9 DEF Reconnect
  <2> QED
    BY <1>1, <1>2, <1>9, <2>1 DEF DownInv, ClearingInv, UpInv
<1>10. ASSUME NEW m \in inbound, HandleIncomingMessage(m), UNCHANGED clockVars
       PROVE  DownInv' /\ ClearingInv' /\ UpInv'
  <2>1. /\ UNCHANGED <<loop, link, timer, outbound, served>>
        /\ loop = "reading"
        /\ inbound' = inbound \ {m}
    BY <1>10 DEF HandleIncomingMessage, clockVars
  <2>2. ASSUME state[attempt] = "waiting", OnItsWay(attempt) PROVE OnItsWay(attempt)'
    <3> DEFINE r == attempt
    <3>1. CASE m.id = r /\ resp[r] = "none"
      <4>1. m.body = "result" /\ r \in pending_requests
        BY <2>2, <3>1 DEF OnItsWay, IndInv, MapInv, InRange
      <4>2. resp'[r] = "result"
        BY <1>10, <2>2, <3>1, <4>1 DEF HandleIncomingMessage, IndInv, TypeOK, InRange
      <4> QED
        BY <1>1, <2>1, <2>2, <4>2 DEF OnItsWay
    <3>2. CASE m.id # r \/ resp[r] # "none"
      <4>1. resp'[r] = resp[r]
        <5>1. m.id = r => r \notin pending_requests
          BY <2>2, <3>2 DEF IndInv, MapInv, InRange
        <5> QED
          BY <1>10, <5>1 DEF HandleIncomingMessage, IndInv, TypeOK, InRange
      <4>2. resp[r] = "none" => (r \in Answered => r \in Answered')
        BY <2>1, <3>2 DEF Answered
      <4> QED
        BY <1>1, <2>1, <2>2, <4>1, <4>2 DEF OnItsWay
    <3> QED
      BY <3>1, <3>2
  <2>3. ASSUME main = "trying", link = "up" PROVE CallOnLink(state[attempt])'
    BY <1>1, <1>2, <2>1, <2>2, <2>3 DEF UpInv, CallOnLink
  <2> QED
    BY <1>1, <1>2, <2>1, <2>3 DEF DownInv, ClearingInv, UpInv
<1> QED
  BY <1>3, <1>4, <1>5, <1>6, <1>7, <1>8, <1>9, <1>10 DEF TimedLoop

\* A healthy node answers with results, and no link is lost.
LEMMA FoundNode ==
    ASSUME InRange, IndInv, MainInv, FoundInv, healthy, Spent' >= Spent,
           ClientStep, NodeStep /\ UNCHANGED clockVars
    PROVE  DownInv' /\ ClearingInv' /\ UpInv'
<1>1. /\ UNCHANGED <<stable, main, attempt, pause, state, resp, timer, loop>>
      /\ ~(link = "up" /\ link' = "lost")
      /\ \A m \in inbound' \ inbound : m.body = "result"
  BY DEF ClientStep, mainVars, NodeStep, LinkLost, NodeRuns, NodeAnswers, callVars, clockVars
<1>2. DownInv /\ ClearingInv /\ UpInv
  BY DEF FoundInv
<1>3. link' = link /\ \E r \in Requests : NodeRuns(r) \/ NodeAnswers(r)
  BY <1>1 DEF NodeStep, LinkLost, NodeRuns, NodeAnswers
<1>4. ASSUME OnItsWay(attempt) PROVE OnItsWay(attempt)'
  <2>1. outbound \cup served \cup Answered \subseteq outbound' \cup served' \cup Answered'
    <3>1. PICK r \in Requests : NodeRuns(r) \/ NodeAnswers(r)
      BY <1>3
    <3>2. CASE NodeRuns(r)
      BY <3>2 DEF NodeRuns, Answered
    <3>3. CASE NodeAnswers(r)
      <4>1. PICK b \in Bodies : inbound' = inbound \cup {[id |-> r, body |-> b]}
        BY <3>3 DEF NodeAnswers
      <4>2. [id |-> r, body |-> b] \in inbound' /\ inbound \subseteq inbound'
        BY <4>1
      <4>3. r \in Answered'
        BY <4>2 DEF Answered
      <4>4. Answered \subseteq Answered'
        BY <4>2 DEF Answered
      <4> QED
        BY <3>3, <4>3, <4>4 DEF NodeAnswers
    <3> QED
      BY <3>1, <3>2, <3>3
  <2> QED
    BY <1>1, <1>4, <2>1 DEF OnItsWay
<1> QED
  <2>1. DownInv'
    BY <1>1, <1>2, <1>3 DEF DownInv
  <2>2. ClearingInv'
    <3>1. Spent' = Spent
      BY <1>1 DEF Spent
    <3> QED
      BY <1>1, <1>2, <3>1 DEF ClearingInv
  <2>3. CallOnLink(state[attempt]) => CallOnLink(state[attempt])'
    BY <1>1, <1>4 DEF CallOnLink
  <2>4. UpInv'
    BY <1>1, <1>2, <1>3, <2>3 DEF UpInv
  <2> QED
    BY <2>1, <2>2, <2>4

\* Time: each tick is one of the timer or the pause it waits for.
LEMMA FoundTick ==
    ASSUME InRange, ClientInv, LinkKnown, MainInv, FoundInv, healthy, InRange',
           StartupTick
    PROVE  DownInv' /\ ClearingInv' /\ UpInv'
<1>1. /\ UNCHANGED <<state, resp, main, attempt, loop, link, outbound, served, inbound>>
      /\ stable' = stable + 1
      /\ pause' = (IF main = "pausing" THEN pause + 1 ELSE pause)
      /\ loop = "sleeping" => timer'[Loop] = timer[Loop] + 1
      /\ state[attempt] = "waiting" => timer'[attempt] = timer[attempt] + 1
  <2>1. Tick /\ healthy /\ UNCHANGED <<main, attempt>> /\ stable' = stable + 1
    BY DEF StartupTick
  <2> QED
    BY <2>1 DEF StartupTick, Tick, InRange, Tasks, vars, callVars, nodeVars
<1>2. DownInv /\ ClearingInv /\ UpInv
  BY DEF FoundInv
<1>3. /\ main = "trying" => state[attempt] = "waiting"
      /\ loop = "clearing" => main = "trying"
      /\ loop # "installing"
  BY TimePassesInTheWait DEF ClientInv, LockInv
<1>4. /\ loop \notin {"connecting", "draining"}
      /\ loop = "reading" => link # "lost" /\ inbound = {}
      /\ outbound \cup served = {}
      /\ resp[attempt] = "none" \/ state[attempt] # "waiting"
  BY DEF StartupTick, StartupUrgent, Tick, Urgent, InRange
<1>5. loop = "reading" => link = "up"
  BY <1>4 DEF LinkKnown, ClientInv, TypeOK
<1>6. loop = "reading" => ~OnItsWay(attempt) \/ state[attempt] # "waiting"
  BY <1>4 DEF OnItsWay, Answered
<1>7. DownInv'
  BY <1>1, <1>2, <1>3, <1>4, <1>5 DEF DownInv, InRange
<1>8. ClearingInv'
  <2>1. loop = "clearing" => Spent' = Spent + 1
    BY <1>1, <1>3 DEF Spent
  <2> QED
    BY <1>1, <1>2, <1>3, <2>1 DEF ClearingInv, InRange
<1>9. UpInv'
  BY <1>1, <1>2, <1>3, <1>6 DEF UpInv, CallOnLink, Hopeful, InRange
<1> QED
  BY <1>7, <1>8, <1>9

\* FoundInv is inductive, given the invariants of the client.
LEMMA FoundStep ==
    /\ ClientInv /\ IndInv /\ LinkKnown /\ MainInv /\ FoundInv
    /\ ClientInv' /\ MainInv' /\ [StartupNext]_startupVars
    => FoundInv'
<1> SUFFICES ASSUME ClientInv, IndInv, LinkKnown, MainInv, FoundInv, ClientInv', MainInv',
                    [StartupNext]_startupVars
             PROVE  FoundInv'
  OBVIOUS
<1>a. InRange
  BY AllInRange
<1>b. (ClientInv /\ MainInv => InRange)'
  BY AllInRange, PTL
<1>c. InRange'
  BY <1>b
<1>1. ASSUME ~healthy, ~NodeChanges PROVE FoundInv'
  BY <1>1 DEF FoundInv, StartupNext, HubStep, Try, Proceed, Pause, NextAttempt, ClientStep,
              StartupTick, startupVars
<1>2. ASSUME healthy, Try \/ Proceed \/ Pause \/ NextAttempt PROVE FoundInv'
  <2>1. healthy'
    BY <1>2 DEF Try, Proceed, Pause, NextAttempt
  <2> QED
    BY <1>a, <1>c, <1>2, <2>1, FoundMain DEF FoundInv
<1>3. ASSUME healthy, Booting, ClientStep PROVE FoundInv'
  <2>1. healthy'
    BY <1>3 DEF ClientStep
  <2>2. Spent' >= Spent
    BY <1>3, SpentGrows
  <2>3. ASSUME NEW r \in Requests, TimedRequest(r) PROVE TimedRequest(attempt)
    BY <2>3, CallIsAttempt
  <2>4. DownInv' /\ ClearingInv' /\ UpInv'
    BY <1>a, <1>c, <1>3, <2>2, <2>3, FoundCall, FoundLoop, FoundNode DEF ClientStep
  <2> QED
    BY <2>1, <2>4 DEF FoundInv
<1>4. CASE NodeChanges
  <2>1. stable' = 0
    BY <1>4 DEF NodeChanges
  <2>2. DownInv' /\ ClearingInv'
    BY <1>c, <2>1 DEF DownInv, ClearingInv, InRange
  <2>3. CallOnLink(state[attempt])'
    BY <1>c, <2>1 DEF CallOnLink, InRange
  <2>4. stable' <= RequestTimeout + RetryDelay + pause'
    <3>1. RequestTimeout \in Nat /\ RetryDelay \in Nat /\ pause' \in Nat
      BY <1>a, <1>c DEF InRange
    <3>2. \A d, p, q \in Nat : 0 <= d + p + q
      OBVIOUS
    <3> QED
      BY <2>1, <3>1, <3>2
  <2>5. UpInv'
    BY <2>3, <2>4 DEF UpInv
  <2> QED
    BY <2>1, <2>2, <2>5 DEF FoundInv
<1>5. ASSUME healthy, StartupTick PROVE FoundInv'
  <2>1. healthy'
    BY <1>5 DEF StartupTick
  <2> QED
    BY <1>a, <1>c, <1>5, <2>1, FoundTick DEF FoundInv
<1>6. CASE UNCHANGED startupVars
  BY <1>6 DEF startupVars, mainVars, timedVars, clockVars, vars, callVars, nodeVars, FoundInv,
              DownInv, ClearingInv, UpInv, CallOnLink, OnItsWay, Answered, Spent
<1> QED
  BY <1>1, <1>2, <1>3, <1>4, <1>5, <1>6 DEF StartupNext, HubStep

\* A node that is healthy for a timeout and two pauses is found, whatever was
\* before (main.rs:29-45 against connection.rs:71-75 and client.rs:117).
THEOREM HealthyNodesAreFound == StartupSpec => []HealthyNodeIsFound
<1>1. StartupInit => FoundInv
  BY DEF StartupInit, FoundInv
<1>2. StartupSpec => [](IndInv /\ LinkKnown)
  BY StartupIsTimed, ClockOnlyRestricts, IndInvHolds, LinkIsKnown, PTL
<1>3. ClientInv /\ LinkKnown /\ MainInv /\ FoundInv => HealthyNodeIsFound
  <2> SUFFICES ASSUME ClientInv, LinkKnown, MainInv, FoundInv,
                      main \in {"trying", "pausing"}
               PROVE  stable <= RequestTimeout + 2 * RetryDelay
    BY DEF HealthyNodeIsFound
  <2>1. InRange
    BY AllInRange
  <2>2. CASE ~healthy
    BY <2>1, <2>2 DEF FoundInv, InRange
  <2>3. CASE healthy
    BY <2>1, <2>3 DEF FoundInv, DownInv, ClearingInv, UpInv, CallOnLink, InRange,
                      LinkKnown, ClientInv, TypeOK
  <2> QED
    BY <2>2, <2>3
<1> QED
  BY <1>1, <1>2, <1>3, FoundStep, StartInvHolds, PTL DEF StartupSpec
=============================================================================
