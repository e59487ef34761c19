--------------------------- MODULE TimedNodeClient ---------------------------
(***************************************************************************)
(* NodeClient with a clock: the 10 s timer of each call, the 5 s pause of  *)
(* the connection task, and how long a task has been waiting since it      *)
(* asked for the ws_sink mutex.                                            *)
(*                                                                         *)
(* One Tick is 5 s of code time (the greatest common divisor of both       *)
(* durations).  The code is fast: Tick waits until no task of the hub can  *)
(* take a step.  The network, the node and a connection attempt take as    *)
(* long as they like, with one exception: a frame is taken or refused at   *)
(* once (client.rs:109 has no timeout; a transport that blocks there would *)
(* hold everybody up with no bound at all).                                *)
(***************************************************************************)
EXTENDS NodeClient, FiniteSets

CONSTANTS
    RequestTimeout,    \* timeout(Duration::from_secs(10), ..), in ticks
    RetryDelay         \* retry_seconds = 5, in ticks

ASSUME TicksAreCounted ==
    /\ IsFiniteSet(Requests)
    /\ RequestTimeout \in Nat \ {0}
    /\ RetryDelay \in Nat \ {0}

Tasks == Requests \cup {Loop}

VARIABLES
    timer,             \* timer[t]: ticks since t's pending timer was started
    waited,            \* waited[t]: ticks since t asked for the mutex
    ahead              \* ahead[t]: the calls that held or awaited it then

clockVars == <<timer, waited, ahead>>
timedVars == <<vars, clockVars>>

Zero == [t \in Tasks |-> 0]
InProgress(r) == state[r] \in {"queued"} \cup Holding
WantsSink(t) == IF t = Loop THEN loop \in {"installing", "clearing"}
                            ELSE InProgress(t)

\* No timer runs past the moment it is due.
TimedTypeOK ==
    /\ timer \in [Tasks -> Nat]
    /\ \A r \in Requests : timer[r] <= RequestTimeout
    /\ timer[Loop] <= RetryDelay
    /\ waited \in [Tasks -> Nat]
    /\ ahead \in [Tasks -> SUBSET Requests]

TimedInit ==
    /\ Init
    /\ timer = Zero
    /\ waited = Zero
    /\ ahead = [t \in Tasks |-> {}]

-----------------------------------------------------------------------------
Starts(t) == timer' = [timer EXCEPT ![t] = 0]

\* t asks for the mutex.
Asks(t) ==
    /\ waited' = [waited EXCEPT ![t] = 0]
    /\ ahead' = [ahead EXCEPT ![t] = {r \in Requests : InProgress(r)}]

\* t is through with it.
Finishes(t) ==
    /\ waited' = [waited EXCEPT ![t] = 0]
    /\ ahead' = [ahead EXCEPT ![t] = {}]

TimedCall(r) == Call(r) /\ Asks(r) /\ UNCHANGED timer

TimedRequest(r) ==
    \/ Register(r) /\ UNCHANGED clockVars
    \/ SendFrame(r) /\ Starts(r) /\ UNCHANGED <<waited, ahead>>
    \/ (NotConnected(r) \/ SendFails(r)) /\ Finishes(r) /\ UNCHANGED timer
    \/ ReceiveResponse(r) /\ Finishes(r) /\ Starts(r)
    \/ /\ timer[r] = RequestTimeout
       /\ TimeoutElapses(r)
       /\ Starts(r)
       /\ UNCHANGED <<waited, ahead>>
    \/ RemoveTimedOut(r) /\ Finishes(r) /\ UNCHANGED timer

TimedDrop(r) == DropFuture(r) /\ Finishes(r) /\ Starts(r)

TimedLoop ==
    \/ ConnectOk /\ Asks(Loop) /\ UNCHANGED timer
    \/ (StreamEnds \/ StreamErrs) /\ Asks(Loop) /\ UNCHANGED timer
    \/ (InstallSink \/ ClearSink) /\ Finishes(Loop) /\ UNCHANGED timer
    \/ (ConnectErr \/ DrainPending) /\ Starts(Loop) /\ UNCHANGED <<waited, ahead>>
    \/ /\ timer[Loop] = RetryDelay
       /\ Reconnect
       /\ Starts(Loop)
       /\ UNCHANGED <<waited, ahead>>
    \/ /\ \E m \in inbound : HandleIncomingMessage(m)
       /\ UNCHANGED clockVars

\* Mutant: a call's timer is looked at only when something else wakes its task.
UrgentButTimers ==
    \/ sink_lock = Nobody /\ sink_queue # <<>>
    \/ loop = "draining"
    \/ loop = "sleeping" /\ timer[Loop] = RetryDelay
    \/ \E r \in Requests : state[r] \in {"sending", "expired"}

\* A task of the hub can take a step now.
Urgent ==
    \/ sink_lock = Nobody /\ sink_queue # <<>>
    \/ loop = "draining"
    \/ loop = "sleeping" /\ timer[Loop] = RetryDelay
    \/ \E r \in Requests :
         \/ state[r] \in {"sending", "expired"}
         \/ state[r] = "waiting" /\ (resp[r] # "none" \/ timer[r] = RequestTimeout)

Tick ==
    /\ ~Urgent
    /\ timer' = [t \in Tasks |->
                   IF (IF t = Loop THEN loop = "sleeping" ELSE state[t] = "waiting")
                     THEN timer[t] + 1 ELSE timer[t]]
    /\ waited' = [t \in Tasks |-> IF WantsSink(t) THEN waited[t] + 1 ELSE waited[t]]
    /\ UNCHANGED <<vars, ahead>>

TimedNext ==
    \/ \E r \in Requests : TimedCall(r) \/ TimedRequest(r) \/ TimedDrop(r)
    \/ TimedLoop
    \/ NodeStep /\ UNCHANGED clockVars
    \/ Tick

TimedSpec == TimedInit /\ [][TimedNext]_timedVars

-----------------------------------------------------------------------------
\* A task gets the mutex after at most one timeout for each call that was
\* ahead of it, and a call returns at most one timeout after that: the price
\* of one request at a time when the node is silent.  For the connection task
\* this bounds how late it clears a sink that is dead, or installs a new one.
BoundedWait ==
    /\ \A t \in Tasks :
         (IF t = Loop THEN WantsSink(t) ELSE state[t] = "queued") =>
             waited[t] <= RequestTimeout * Cardinality(ahead[t])
    /\ \A r \in Requests :
         InProgress(r) => waited[r] <= RequestTimeout * (Cardinality(ahead[r]) + 1)

\* "Notify pending requests about the disconnection" (connection.rs:58): once
\* the connection task has seen the connection lost, no time passes before a
\* call that waits for its response is told so.
LossIsNotified ==
    \A r \in Requests : loop = "clearing" /\ state[r] = "waiting" => waited[Loop] = 0
=============================================================================
