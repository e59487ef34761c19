------------------------------- MODULE Startup -------------------------------
(***************************************************************************)
(* The start of the hub (src/main.rs): before it serves anything it asks   *)
(* the node for its chain parameters, and panics if that never succeeds.   *)
(* get_chain_info_with_retry is the only caller of the client meanwhile:   *)
(* attempt n is call n of TimedNodeClient, and a call is never dropped.    *)
(*                                                                         *)
(* The node can be healthy for a while: then connection attempts succeed,  *)
(* a lost link is noticed, the link stays up, and every frame gets its     *)
(* result, all within the tick.                                            *)
(***************************************************************************)
EXTENDS TimedNodeClient

CONSTANT MaxAttempts   \* MAX_ATTEMPTS = 12

ASSUME AttemptsAreCalls == MaxAttempts \in Nat \ {0} /\ Requests = 1..MaxAttempts

VARIABLES
    main,              \* "trying", "pausing", "serving" or "panicked"
    attempt,           \* the loop variable
    pause,             \* ticks slept since the last failed attempt
    clock,             \* ticks since the start
    healthy,           \* is the node healthy?
    stable             \* for how many ticks it has been

mainVars == <<main, attempt, pause>>
startupVars == <<timedVars, mainVars, clock, healthy, stable>>

StartupTypeOK ==
    /\ main \in {"trying", "pausing", "serving", "panicked"}
    /\ attempt \in 1..MaxAttempts
    /\ pause \in 0..RetryDelay
    /\ clock \in Nat
    /\ healthy \in BOOLEAN
    /\ stable \in 0..clock

StartupInit ==
    /\ TimedInit
    /\ main = "trying"
    /\ attempt = 1
    /\ pause = 0
    /\ clock = 0
    /\ healthy = FALSE
    /\ stable = 0

Booting == main \in {"trying", "pausing"}

-----------------------------------------------------------------------------
\* client.get_chain_info() is called.
Try ==
    /\ main = "trying"
    /\ TimedCall(attempt)
    /\ UNCHANGED <<mainVars, clock, healthy, stable>>

\* It returned a ChainInfo: the server starts.
Proceed ==
    /\ main = "trying"
    /\ state[attempt] = "ok"
    /\ main' = "serving"
    /\ UNCHANGED <<timedVars, attempt, pause, clock, healthy, stable>>

\* It failed, or returned something that is no ChainInfo: sleep, after the
\* last attempt too.
Pause ==
    /\ main = "trying"
    /\ state[attempt] \in Failures \/ (state[attempt] = "ok" /\ ~healthy)
    /\ main' = "pausing"
    /\ pause' = 0
    /\ UNCHANGED <<timedVars, attempt, clock, healthy, stable>>

\* Mutant: an inclusive bound: there is one attempt too many.
NextAttemptInclusive ==
    /\ main = "pausing"
    /\ pause = RetryDelay
    /\ IF attempt <= MaxAttempts
         THEN attempt' = attempt + 1 /\ main' = "trying"
         ELSE UNCHANGED attempt /\ main' = "panicked"
    /\ pause' = 0
    /\ UNCHANGED <<timedVars, clock, healthy, stable>>

\* Mutant: nothing follows the pause after the last attempt.
NextAttemptOnly ==
    /\ main = "pausing"
    /\ pause = RetryDelay
    /\ attempt < MaxAttempts
    /\ attempt' = attempt + 1
    /\ main' = "trying"
    /\ pause' = 0
    /\ UNCHANGED <<timedVars, clock, healthy, stable>>

NextAttempt ==
    /\ main = "pausing"
    /\ pause = RetryDelay
    /\ IF attempt < MaxAttempts
         THEN attempt' = attempt + 1 /\ main' = "trying"
         ELSE UNCHANGED attempt /\ main' = "panicked"
    /\ pause' = 0
    /\ UNCHANGED <<timedVars, clock, healthy, stable>>

-----------------------------------------------------------------------------
\* The steps of the client, and those of the network a healthy node allows.
ClientStep ==
    /\ \/ \E r \in Requests : TimedRequest(r)
       \/ TimedLoop
       \/ NodeStep /\ UNCHANGED clockVars
    /\ healthy =>
         /\ ~(loop = "connecting" /\ loop' = "sleeping")
         /\ ~(link = "up" /\ link' = "lost")
         /\ ~(link = "up" /\ loop = "reading" /\ loop' = "clearing")
         /\ \A m \in inbound' \ inbound : m.body = "result"
    /\ UNCHANGED <<mainVars, clock, healthy, stable>>

\* The node's health changes; a healthy spell lasts for a tick at least.
NodeChanges ==
    /\ healthy => stable > 0
    /\ healthy' = ~healthy
    /\ stable' = 0
    /\ UNCHANGED <<timedVars, mainVars, clock>>

\* main can take a step now, or a healthy node has something to do first.
StartupUrgent ==
    \/ main = "trying" /\ ~InProgress(attempt)
    \/ main = "pausing" /\ pause = RetryDelay
    \/ /\ healthy
       /\ \/ loop = "connecting"
          \/ loop = "reading" /\ (link = "lost" \/ inbound # {})
          \/ outbound \cup served # {}

StartupTick ==
    /\ ~StartupUrgent
    /\ Tick
    /\ pause' = IF main = "pausing" THEN pause + 1 ELSE pause
    /\ clock' = clock + 1
    /\ stable' = IF healthy THEN stable + 1 ELSE stable
    /\ UNCHANGED <<main, attempt, healthy>>

HubStep == Try \/ Proceed \/ Pause \/ NextAttempt \/ ClientStep

StartupNext == Booting /\ (HubStep \/ NodeChanges \/ StartupTick)

StartupSpec == StartupInit /\ [][StartupNext]_startupVars

\* Time passes, what a task of the hub can do now it does, and so does a
\* healthy node.
StartupFairSpec ==
    /\ StartupSpec
    /\ WF_startupVars(Booting /\ StartupTick)
    /\ WF_startupVars(Booting /\ (Try \/ Proceed \/ Pause \/ NextAttempt))
    /\ \A r \in Requests :
         WF_startupVars(Booting /\ ClientStep /\ TimedRequest(r))
    /\ WF_startupVars(Booting /\ loop # "reading" /\ ClientStep /\ TimedLoop)
    /\ WF_startupVars(Booting /\ healthy /\ ClientStep)

-----------------------------------------------------------------------------
\* A silent node costs one timeout and one pause for each attempt, no more.
StartupIsBounded ==
    Booting => clock <= MaxAttempts * (RequestTimeout + RetryDelay)

\* A node that becomes healthy in time is found: the reconnect pause of the
\* connection task and the retry pause of main, which run on their own clocks,
\* and a call that is stuck on the link from before, delay it by no more than
\* one timeout and the two pauses.
HealthyNodeIsFound ==
    main \in {"trying", "pausing"} => stable <= RequestTimeout + 2 * RetryDelay

\* The start comes to an end, whatever the node does.
StartupEnds == <>(~Booting)

\* "Retries on the same 5s cadence ... for up to a minute before giving up"
\* (main.rs:20-24): MAX_ATTEMPTS pauses, 12 * 5 s, are that minute.
GivesUpWithinAMinute == Booting => clock <= MaxAttempts * RetryDelay
=============================================================================
