----------------------------- MODULE NodeClient -----------------------------
(***************************************************************************)
(* ClutchNodeClient: the one WebSocket to clutch-node that every GraphQL   *)
(* operation shares (src/hub/clutch_node_client/client.rs), and the task   *)
(* that keeps it connected (connection.rs).                                *)
(*                                                                         *)
(* Processes: one task per call of send_request, the connection task, and  *)
(* the environment (the network and the node).  A step of the model is the *)
(* code between two await points that can really suspend.  The mutex of    *)
(* pending_requests is never held across an await, so its critical         *)
(* sections are single steps; the mutex of ws_sink is held by send_request *)
(* from the lock to the return, the wait for the response included, so its *)
(* holder and its FIFO queue are state.                                    *)
(*                                                                         *)
(* Abstracted: payloads (a response is one of the four bodies the code     *)
(* tells apart), the UUID (a call is its own id), and time: the 10 s timer *)
(* may elapse at any moment here (TimedNodeClient adds the clock).         *)
(***************************************************************************)
EXTENDS Naturals, Sequences

CONSTANTS
    Requests,          \* calls of send_request
    Loop,              \* the connection task
    Nobody             \* "no task holds the ws_sink mutex"

ASSUME TasksDiffer == Loop \notin Requests /\ Nobody \notin Requests \cup {Loop}

VARIABLES
    state,             \* state[r]: the await point r is at, or how it ended
    resp,              \* resp[r]: what its oneshot channel holds
    sink_lock,         \* the request that holds the ws_sink mutex, or Nobody
    sink_queue,        \* the tasks waiting for it, first come first served
    ws_sink,           \* is there a sink in the Option?
    pending_requests,  \* the keys of the map id -> oneshot sender
    loop,              \* the await point of the connection task
    link,              \* the TCP connection: "none", "up" or "lost"
    outbound,          \* frames written to the present link, not yet run
    orphaned,          \* frames written to an earlier link, not yet run
    served,            \* calls the node ran and may still answer on this link
    inbound,           \* responses on their way to the reader
    runs               \* runs[r]: how often the node ran call r

callVars == <<state, resp>>
lockVars == <<sink_lock, sink_queue>>
nodeVars == <<outbound, orphaned, served, inbound, runs>>
vars == <<callVars, lockVars, ws_sink, pending_requests, loop, link, nodeVars>>

\* The bodies of a response the code tells apart: `result`, `error`, neither
\* of them, and a text that is not a JSONRPCResponse.
Bodies == {"result", "error", "empty", "garbled"}
Response == [id : Requests, body : Bodies]

Failures == {"node_error", "no_result", "connection_lost", "timed_out",
             "send_failed", "not_connected"}
Ended == Failures \cup {"ok", "dropped"}
Holding == {"sending", "waiting", "expired"}

TypeOK ==
    /\ state \in [Requests -> {"idle", "queued"} \cup Holding \cup Ended]
    /\ resp \in [Requests -> {"none", "result", "error", "empty", "disconnected"}]
    /\ sink_lock \in Requests \cup {Nobody}
    /\ sink_queue \in Seq(Requests \cup {Loop})
    /\ ws_sink \in BOOLEAN
    /\ pending_requests \subseteq Requests
    /\ loop \in {"connecting", "installing", "reading", "clearing", "draining",
                 "sleeping"}
    /\ link \in {"none", "up", "lost"}
    /\ outbound \subseteq Requests
    /\ orphaned \subseteq Requests
    /\ served \subseteq Requests
    /\ inbound \subseteq Response
    /\ runs \in [Requests -> Nat]

Init ==
    /\ state = [r \in Requests |-> "idle"]
    /\ resp = [r \in Requests |-> "none"]
    /\ sink_lock = Nobody
    /\ sink_queue = <<>>
    /\ ws_sink = FALSE
    /\ pending_requests = {}
    /\ loop = "connecting"
    /\ link = "none"
    /\ outbound = {}
    /\ orphaned = {}
    /\ served = {}
    /\ inbound = {}
    /\ runs = [r \in Requests |-> 0]

-----------------------------------------------------------------------------
(***************************************************************************)
(* The ws_sink mutex (tokio::sync::Mutex).                                 *)
(***************************************************************************)
\* Mutant: a mutex that serves the last comer first.
EnqueueFirst(t) == sink_queue' = <<t>> \o sink_queue

Enqueue(t) == sink_queue' = Append(sink_queue, t)

\* It is t's turn: the mutex is free and t has waited longest.
Granted(t) ==
    /\ sink_lock = Nobody
    /\ sink_queue # <<>>
    /\ Head(sink_queue) = t

\* A waiter that is dropped leaves the queue.
Leave(t) ==
    \E i \in 1..Len(sink_queue) :
        /\ sink_queue[i] = t
        /\ sink_queue' = SubSeq(sink_queue, 1, i - 1)
                           \o SubSeq(sink_queue, i + 1, Len(sink_queue))

-----------------------------------------------------------------------------
(***************************************************************************)
(* send_request, from the call to the return.                              *)
(***************************************************************************)

\* The request is built and its task asks for the ws_sink mutex.
Call(r) ==
    /\ state[r] = "idle"
    /\ state' = [state EXCEPT ![r] = "queued"]
    /\ Enqueue(r)
    /\ UNCHANGED <<resp, sink_lock, ws_sink, pending_requests, loop, link, nodeVars>>

\* No sink: the call returns at once and the guard is dropped.
NotConnected(r) ==
    /\ state[r] = "queued"
    /\ Granted(r)
    /\ ~ws_sink
    /\ state' = [state EXCEPT ![r] = "not_connected"]
    /\ sink_queue' = Tail(sink_queue)
    /\ UNCHANGED <<resp, sink_lock, ws_sink, pending_requests, loop, link, nodeVars>>

\* Mutant: the frame is written before the id is in the map.
RegisterNothing(r) ==
    /\ state[r] = "queued"
    /\ Granted(r)
    /\ ws_sink
    /\ state' = [state EXCEPT ![r] = "sending"]
    /\ sink_lock' = r
    /\ sink_queue' = Tail(sink_queue)
    /\ UNCHANGED <<resp, ws_sink, pending_requests, loop, link, nodeVars>>

\* A sink: the id is registered first, then the frame is written.
Register(r) ==
    /\ state[r] = "queued"
    /\ Granted(r)
    /\ ws_sink
    /\ state' = [state EXCEPT ![r] = "sending"]
    /\ sink_lock' = r
    /\ sink_queue' = Tail(sink_queue)
    /\ pending_requests' = pending_requests \cup {r}
    /\ UNCHANGED <<resp, ws_sink, loop, link, nodeVars>>

\* Mutant: the timeout arm sends the frame once more instead of giving up.
TimeoutRetries(r) ==
    /\ state[r] = "waiting"
    /\ resp[r] = "none"
    /\ state' = [state EXCEPT ![r] = "sending"]
    /\ UNCHANGED <<resp, lockVars, ws_sink, pending_requests, loop, link, nodeVars>>

\* Mutant: resp_rx is awaited without a timeout.
NeverElapses(r) == FALSE

\* Mutant: the guard of ws_sink is dropped before the wait for the response.
SendFrameAndUnlock(r) ==
    /\ state[r] = "sending"
    /\ state' = [state EXCEPT ![r] = "waiting"]
    /\ sink_lock' = Nobody
    /\ outbound' = IF link = "up" THEN outbound \cup {r} ELSE outbound
    /\ UNCHANGED <<resp, sink_queue, ws_sink, pending_requests, loop, link,
                   orphaned, served, inbound, runs>>

\* The transport takes the frame.  On a link that is already lost it can do
\* so too: the bytes stay in a buffer nobody will read.
SendFrame(r) ==
    /\ state[r] = "sending"
    /\ state' = [state EXCEPT ![r] = "waiting"]
    /\ outbound' = IF link = "up" THEN outbound \cup {r} ELSE outbound
    /\ UNCHANGED <<resp, lockVars, ws_sink, pending_requests, loop, link,
                   orphaned, served, inbound, runs>>

\* Mutant: the error path of send() leaves the id in the map.
SendFailsAndLeaks(r) ==
    /\ state[r] = "sending"
    /\ link = "lost"
    /\ state' = [state EXCEPT ![r] = "send_failed"]
    /\ sink_lock' = Nobody
    /\ UNCHANGED <<resp, sink_queue, ws_sink, pending_requests, loop, link, nodeVars>>

\* The transport refuses it: the id is removed again and the call fails.
SendFails(r) ==
    /\ state[r] = "sending"
    /\ link = "lost"
    /\ state' = [state EXCEPT ![r] = "send_failed"]
    /\ pending_requests' = pending_requests \ {r}
    /\ sink_lock' = Nobody
    /\ UNCHANGED <<resp, sink_queue, ws_sink, loop, link, nodeVars>>

\* How the text found in the oneshot channel ends the call; the connection
\* task sends the empty string when it drains the map.
EndsAs == [result |-> "ok", error |-> "node_error", empty |-> "no_result",
           disconnected |-> "connection_lost"]

ReceiveResponse(r) ==
    /\ state[r] = "waiting"
    /\ resp[r] # "none"
    /\ state' = [state EXCEPT ![r] = EndsAs[resp[r]]]
    /\ resp' = [resp EXCEPT ![r] = "none"]
    /\ sink_lock' = Nobody
    /\ UNCHANGED <<sink_queue, ws_sink, pending_requests, loop, link, nodeVars>>

\* timeout() polls the channel before the timer, so it elapses only while
\* the channel is empty; the receiver is dropped with it.
TimeoutElapses(r) ==
    /\ state[r] = "waiting"
    /\ resp[r] = "none"
    /\ state' = [state EXCEPT ![r] = "expired"]
    /\ UNCHANGED <<resp, lockVars, ws_sink, pending_requests, loop, link, nodeVars>>

\* Only then is the map locked and the id removed: the reader may come first.
RemoveTimedOut(r) ==
    /\ state[r] = "expired"
    /\ state' = [state EXCEPT ![r] = "timed_out"]
    /\ pending_requests' = pending_requests \ {r}
    /\ sink_lock' = Nobody
    /\ UNCHANGED <<resp, sink_queue, ws_sink, loop, link, nodeVars>>

\* The future is dropped at an await (the client hangs up, a sibling field of
\* the query fails): the mutex is released or its queue left, and the id, once
\* registered, stays in the map.  A frame being written may still get out.
DropFuture(r) ==
    /\ state[r] \in {"queued"} \cup Holding
    /\ state' = [state EXCEPT ![r] = "dropped"]
    /\ resp' = [resp EXCEPT ![r] = "none"]
    /\ IF state[r] = "queued"
         THEN Leave(r) /\ UNCHANGED sink_lock
         ELSE sink_lock' = Nobody /\ UNCHANGED sink_queue
    /\ \/ UNCHANGED outbound
       \/ /\ state[r] = "sending"
          /\ link = "up"
          /\ outbound' = outbound \cup {r}
    /\ UNCHANGED <<ws_sink, pending_requests, loop, link, orphaned, served,
                   inbound, runs>>

-----------------------------------------------------------------------------
(***************************************************************************)
(* start_connection_loop and handle_incoming_message.                      *)
(***************************************************************************)

\* connect_async succeeds; the task then waits for the ws_sink mutex.
ConnectOk ==
    /\ loop = "connecting"
    /\ loop' = "installing"
    /\ link' = "up"
    /\ Enqueue(Loop)
    /\ UNCHANGED <<callVars, sink_lock, ws_sink, pending_requests, nodeVars>>

\* Mutant: a refused connection ends the task.
ConnectErrStops ==
    /\ loop = "connecting"
    /\ loop' = "stopped"
    /\ UNCHANGED <<callVars, lockVars, ws_sink, pending_requests, link, nodeVars>>

ConnectErr ==
    /\ loop = "connecting"
    /\ loop' = "sleeping"
    /\ UNCHANGED <<callVars, lockVars, ws_sink, pending_requests, link, nodeVars>>

InstallSink ==
    /\ loop = "installing"
    /\ Granted(Loop)
    /\ loop' = "reading"
    /\ ws_sink' = TRUE
    /\ sink_queue' = Tail(sink_queue)
    /\ UNCHANGED <<callVars, sink_lock, pending_requests, link, nodeVars>>

\* A text frame: when it is a response to a registered id, the id is removed
\* and the body goes to the channel, which drops it if the receiver is gone.
HandleIncomingMessage(m) ==
    /\ loop = "reading"
    /\ m \in inbound
    /\ inbound' = inbound \ {m}
    /\ IF m.body # "garbled" /\ m.id \in pending_requests
         THEN /\ pending_requests' = pending_requests \ {m.id}
              /\ resp' = IF state[m.id] = "waiting"
                           THEN [resp EXCEPT ![m.id] = m.body]
                           ELSE resp
         ELSE UNCHANGED <<pending_requests, resp>>
    /\ UNCHANGED <<state, lockVars, ws_sink, loop, link, outbound, orphaned,
                   served, runs>>

\* stream.next() returns None or an error of the lost link; or (StreamErrs)
\* a frame on a healthy link that tungstenite rejects.  Either ends reading.
StopReading ==
    /\ loop = "reading"
    /\ loop' = "clearing"
    /\ Enqueue(Loop)
    /\ UNCHANGED <<callVars, sink_lock, ws_sink, pending_requests, link, nodeVars>>

StreamEnds == link = "lost" /\ StopReading
StreamErrs == link = "up" /\ StopReading

\* Mutant: the drain is left out, since no waiter ever sees it.
ClearSinkOnly ==
    /\ loop = "clearing"
    /\ Granted(Loop)
    /\ loop' = "sleeping"
    /\ ws_sink' = FALSE
    /\ sink_queue' = Tail(sink_queue)
    /\ link' = "none"
    /\ orphaned' = orphaned \cup outbound
    /\ outbound' = {}
    /\ served' = {}
    /\ inbound' = {}
    /\ UNCHANGED <<callVars, sink_lock, pending_requests, runs>>

ClearSink ==
    /\ loop = "clearing"
    /\ Granted(Loop)
    /\ loop' = "draining"
    /\ ws_sink' = FALSE
    /\ sink_queue' = Tail(sink_queue)
    /\ UNCHANGED <<callVars, sink_lock, pending_requests, link, nodeVars>>

\* pending_requests.drain(): every registered sender gets the empty string,
\* and at the end of the arm the stream, the rest of the connection, is dropped.
DrainPending ==
    /\ loop = "draining"
    /\ loop' = "sleeping"
    /\ pending_requests' = {}
    /\ resp' = [r \in Requests |->
                  IF r \in pending_requests /\ state[r] \in {"sending", "waiting"}
                    THEN "disconnected" ELSE resp[r]]
    /\ link' = "none"
    /\ orphaned' = orphaned \cup outbound
    /\ outbound' = {}
    /\ served' = {}
    /\ inbound' = {}
    /\ UNCHANGED <<state, lockVars, ws_sink, runs>>

Reconnect ==
    /\ loop = "sleeping"
    /\ loop' = "connecting"
    /\ UNCHANGED <<callVars, lockVars, ws_sink, pending_requests, link, nodeVars>>

-----------------------------------------------------------------------------
(***************************************************************************)
(* The network and the node (external).  The node may answer late, out of  *)
(* order, with an error, with something that is no response, or never.     *)
(***************************************************************************)

\* A frame written before the link was lost may still be in the node's hands.
LinkLost ==
    /\ link = "up"
    /\ link' = "lost"
    /\ orphaned' = orphaned \cup outbound
    /\ outbound' = {}
    /\ served' = {}
    /\ UNCHANGED <<callVars, lockVars, ws_sink, pending_requests, loop, inbound, runs>>

NodeRuns(r) ==
    /\ r \in outbound \cup orphaned
    /\ runs' = [runs EXCEPT ![r] = @ + 1]
    /\ outbound' = outbound \ {r}
    /\ orphaned' = orphaned \ {r}
    /\ served' = IF r \in outbound THEN served \cup {r} ELSE served
    /\ UNCHANGED <<callVars, lockVars, ws_sink, pending_requests, loop, link, inbound>>

NodeAnswers(r) ==
    /\ r \in served
    /\ served' = served \ {r}
    /\ \E b \in Bodies : inbound' = inbound \cup {[id |-> r, body |-> b]}
    /\ UNCHANGED <<callVars, lockVars, ws_sink, pending_requests, loop, link,
                   outbound, orphaned, runs>>

-----------------------------------------------------------------------------
RequestStep(r) ==
    \/ NotConnected(r)
    \/ Register(r)
    \/ SendFrame(r)
    \/ SendFails(r)
    \/ ReceiveResponse(r)
    \/ TimeoutElapses(r)
    \/ RemoveTimedOut(r)

LoopStep ==
    \/ ConnectOk
    \/ ConnectErr
    \/ InstallSink
    \/ \E m \in inbound : HandleIncomingMessage(m)
    \/ StreamEnds
    \/ StreamErrs
    \/ ClearSink
    \/ DrainPending
    \/ Reconnect

NodeStep ==
    \/ LinkLost
    \/ \E r \in Requests : NodeRuns(r) \/ NodeAnswers(r)

Next ==
    \/ \E r \in Requests : Call(r) \/ RequestStep(r) \/ DropFuture(r)
    \/ LoopStep
    \/ NodeStep

Spec == Init /\ [][Next]_vars

(***************************************************************************)
(* Fairness.  Tasks are polled until they return, both mutexes are fair,   *)
(* the timers fire, and the transport takes or refuses a frame in the end. *)
(* Nothing is assumed of the node, nor of callers that go away.  A         *)
(* connection attempt ends, and one of infinitely many succeeds.           *)
(***************************************************************************)
LoopMustStep ==
    \/ ConnectOk
    \/ ConnectErr
    \/ InstallSink
    \/ \E m \in inbound : HandleIncomingMessage(m)
    \/ StreamEnds
    \/ ClearSink
    \/ DrainPending
    \/ Reconnect

Fairness ==
    /\ \A r \in Requests : WF_vars(RequestStep(r))
    /\ WF_vars(LoopMustStep)
    /\ SF_vars(ConnectOk)

FairSpec == Spec /\ Fairness

-----------------------------------------------------------------------------
(***************************************************************************)
(* Safety.                                                                 *)
(***************************************************************************)

\* From the moment a call has the ws_sink mutex until it returns, it alone
\* has it: the hub has one request in progress at a time, whoever is dropped,
\* times out or loses the connection meanwhile.
OneInProgress == \A r \in Requests : state[r] \in Holding <=> sink_lock = r

\* A call that waits with an empty channel can still be answered: its sender
\* is in the map.  So the arm "Failed to receive response" is never taken.
WaiterIsRegistered ==
    \A r \in Requests :
        state[r] = "waiting" /\ resp[r] = "none" => r \in pending_requests

\* When the map is drained, nobody who could read the notice is left: the
\* task got the ws_sink mutex only after the last holder had returned.  So
\* the arm "Connection lost before receiving response" is never taken.
DrainFindsNoWaiter ==
    /\ loop = "draining" => \A r \in Requests : state[r] \notin Holding
    /\ \A r \in Requests : state[r] # "connection_lost"

\* Only a call that is still running, or whose future was dropped, has its id
\* in the map: every way to return removes it first.
LeaksAreDroppedCalls ==
    \A r \in pending_requests : state[r] \in Holding \cup {"dropped"}

\* What dropped calls leave in the map does not outlive the connection: it is
\* empty from the drain until the next sink is installed.
MapEmptyWhileDown ==
    loop \in {"sleeping", "connecting", "installing"} => pending_requests = {}

\* A call that came back with the node's word was run by the node exactly
\* once; one that reports that nothing was sent was not and will not be run.
AnswersAreHonest ==
    \A r \in Requests :
        /\ state[r] \in {"ok", "node_error", "no_result"} => runs[r] = 1
        /\ state[r] \in {"not_connected", "send_failed"} =>
               runs[r] = 0 /\ r \notin outbound \cup orphaned

-----------------------------------------------------------------------------
(***************************************************************************)
(* Liveness, under FairSpec.                                               *)
(***************************************************************************)

\* Every call returns or is dropped, even if the node never answers and the
\* connection comes and goes.
EveryCallReturns ==
    \A r \in Requests : state[r] = "queued" ~> state[r] \in Ended

\* After a loss the connection task gets the mutex from the calls that hold
\* it or are ahead in the queue, and installs a sink again.
SinkIsRestored == loop = "clearing" ~> loop = "reading"

-----------------------------------------------------------------------------
(***************************************************************************)
(* Refinement: what the callers may rely on.                               *)
(***************************************************************************)
StatusOf(s) ==
    CASE s = "idle" -> "idle"
      [] s \in {"queued"} \cup Holding -> "open"
      [] s \in {"ok", "dropped"} -> s
      [] s \in Failures -> "failed"

HasRun == {r \in Requests : runs[r] > 0}

Rpc == INSTANCE NodeRpc WITH
         status <- [r \in Requests |-> StatusOf(state[r])],
         sent <- outbound \cup orphaned \cup HasRun

\* The client implements NodeRpc: at most one frame and one run per call, a
\* result only from the run of that very call, and one call at a time.
ImplementsRpc == Rpc!Spec
=============================================================================
