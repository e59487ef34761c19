-------------------------- MODULE NodeClientProofs --------------------------
(***************************************************************************)
(* The safety of NodeClient, proved for every set of calls.  The argument: *)
(* the guard of ws_sink lives until send_request returns (LockInv), so no  *)
(* call is in progress when the map is drained; this, and the order in     *)
(* which the id is registered, written, answered and removed, gives MapInv;*)
(* NodeInv adds what the network and the node may still hold of a call.    *)
(***************************************************************************)
EXTENDS NodeClient, SequenceTheorems, TLAPS

Answered == {m.id : m \in inbound}
Unsent == {"idle", "queued", "sending", "not_connected", "send_failed"}
Accepted == {"ok", "node_error", "no_result"}

LockInv ==
    /\ OneInProgress
    /\ ws_sink <=> loop \in {"reading", "clearing"}
    /\ \A r \in Requests : state[r] \in Holding => ws_sink

MapInv ==
    /\ LeaksAreDroppedCalls
    /\ MapEmptyWhileDown
    /\ \A r \in Requests : state[r] = "sending" => r \in pending_requests
    /\ \A r \in Requests :
         state[r] = "waiting" => (resp[r] = "none" <=> r \in pending_requests)
    /\ \A r \in Requests : resp[r] # "none" => state[r] = "waiting"
    /\ \A r \in Requests : resp[r] # "disconnected" /\ state[r] # "connection_lost"

NodeInv ==
    /\ outbound \cap orphaned = {}
    /\ \A r \in outbound \cup orphaned : runs[r] = 0
    /\ \A r \in Requests : runs[r] \in {0, 1}
    /\ \A r \in served \cup Answered : runs[r] = 1
    /\ \A r \in outbound \cup orphaned : state[r] \notin Unsent
    /\ \A r \in Requests : state[r] \in Unsent => runs[r] = 0
    /\ \A r \in Requests : resp[r] # "none" => runs[r] = 1
    /\ \A r \in Requests : state[r] \in Accepted => runs[r] = 1

IndInv == TypeOK /\ LockInv /\ MapInv /\ NodeInv

-----------------------------------------------------------------------------
(***************************************************************************)
(* The queue of the mutex stays a sequence of tasks.                       *)
(***************************************************************************)

\* Whoever leaves the queue, the others keep their places in it.
LEMMA LeaveType ==
    ASSUME sink_queue \in Seq(Requests \cup {Loop}), NEW t, Leave(t)
    PROVE  sink_queue' \in Seq(Requests \cup {Loop})
<1>1. PICK i \in 1..Len(sink_queue) :
          sink_queue' = SubSeq(sink_queue, 1, i - 1)
                          \o SubSeq(sink_queue, i + 1, Len(sink_queue))
  BY DEF Leave
<1>2. \A j \in 1..Len(sink_queue) : sink_queue[j] \in Requests \cup {Loop}
  BY ElementOfSeq
<1>3. Len(sink_queue) \in Nat
  BY LenProperties
<1>4. SubSeq(sink_queue, 1, i - 1) \in Seq(Requests \cup {Loop})
  <2>1. \A j \in 1..(i - 1) : sink_queue[j] \in Requests \cup {Loop}
    BY <1>2, <1>3
  <2> QED
    BY <1>3, <2>1, SubSeqProperties
<1>5. SubSeq(sink_queue, i + 1, Len(sink_queue)) \in Seq(Requests \cup {Loop})
  <2>1. \A j \in (i + 1)..Len(sink_queue) : sink_queue[j] \in Requests \cup {Loop}
    BY <1>2, <1>3
  <2> QED
    BY <1>3, <2>1, SubSeqProperties
<1> QED
  BY <1>1, <1>4, <1>5, ConcatProperties

\* The task at the head of the queue is granted the mutex and leaves it.
LEMMA TailType ==
    ASSUME sink_queue \in Seq(Requests \cup {Loop}), sink_queue # <<>>
    PROVE  Tail(sink_queue) \in Seq(Requests \cup {Loop})
BY HeadTailProperties

\* A task that asks for the mutex joins the end of the queue.
LEMMA EnqueueType ==
    ASSUME sink_queue \in Seq(Requests \cup {Loop}), NEW t \in Requests \cup {Loop},
           Enqueue(t)
    PROVE  sink_queue' \in Seq(Requests \cup {Loop})
BY AppendProperties DEF Enqueue

-----------------------------------------------------------------------------
(***************************************************************************)
(* Type correctness.                                                       *)
(***************************************************************************)

\* Initially nothing is called, connected or queued.
LEMMA TypeInit == Init => TypeOK
<1>1. <<>> \in Seq(Requests \cup {Loop})
  OBVIOUS
<1>2. 0 \in Nat
  OBVIOUS
<1> QED
  BY <1>1, <1>2 DEF Init, TypeOK, Holding

\* No step of a call, of the connection task or of the node breaks a type.
LEMMA TypeStep == TypeOK /\ [Next]_vars => TypeOK'
<1> SUFFICES ASSUME TypeOK, [Next]_vars PROVE TypeOK'
  OBVIOUS
<1> USE DEF TypeOK, Ended, Failures, Holding, callVars, lockVars, nodeVars
<1>1. ASSUME NEW r \in Requests, Call(r) PROVE TypeOK'
  BY <1>1, EnqueueType DEF Call
<1>2. ASSUME NEW r \in Requests, NotConnected(r) PROVE TypeOK'
  BY <1>2, TailType DEF NotConnected, Granted
<1>3. ASSUME NEW r \in Requests, Register(r) PROVE TypeOK'
  BY <1>3, TailType DEF Register, Granted
<1>4. ASSUME NEW r \in Requests, SendFrame(r) PROVE TypeOK'
  BY <1>4 DEF SendFrame
<1>5. ASSUME NEW r \in Requests, SendFails(r) PROVE TypeOK'
  BY <1>5 DEF SendFails
<1>6. ASSUME NEW r \in Requests, ReceiveResponse(r) PROVE TypeOK'
  <2>1. EndsAs[resp[r]] \in Ended
    BY <1>6 DEF ReceiveResponse, EndsAs
  <2> QED
    BY <1>6, <2>1 DEF ReceiveResponse
<1>7. ASSUME NEW r \in Requests, TimeoutElapses(r) PROVE TypeOK'
  BY <1>7 DEF TimeoutElapses
<1>8. ASSUME NEW r \in Requests, RemoveTimedOut(r) PROVE TypeOK'
  BY <1>8 DEF RemoveTimedOut
<1>9. ASSUME NEW r \in Requests, DropFuture(r) PROVE TypeOK'
  <2>1. sink_queue' \in Seq(Requests \cup {Loop})
    BY <1>9, LeaveType DEF DropFuture
  <2>2. sink_lock' \in Requests \cup {Nobody} /\ outbound' \subseteq Requests
    BY <1>9 DEF DropFuture
  <2> QED
    BY <1>9, <2>1, <2>2 DEF DropFuture
<1>10. CASE ConnectOk
  <2>1. sink_queue' \in Seq(Requests \cup {Loop})
    BY <1>10, EnqueueType DEF ConnectOk
  <2> QED
    BY <1>10, <2>1 DEF ConnectOk
<1>11. CASE ConnectErr
  BY <1>11 DEF ConnectErr
<1>12. CASE InstallSink
  BY <1>12, TailType DEF InstallSink, Granted
<1>13. ASSUME NEW m \in inbound, HandleIncomingMessage(m) PROVE TypeOK'
  <2>1. m.id \in Requests /\ m.body \in Bodies
    BY DEF Response
  <2>2. resp' \in [Requests -> {"none", "result", "error", "empty", "disconnected"}]
    BY <1>13, <2>1 DEF HandleIncomingMessage, Bodies
  <2> QED
    BY <1>13, <2>2 DEF HandleIncomingMessage
<1>14. CASE StopReading
  <2>1. sink_queue' \in Seq(Requests \cup {Loop})
    BY <1>14, EnqueueType DEF StopReading
  <2> QED
    BY <1>14, <2>1 DEF StopReading
<1>15. CASE ClearSink
  BY <1>15, TailType DEF ClearSink, Granted
<1>16. CASE DrainPending
  BY <1>16 DEF DrainPending
<1>17. CASE Reconnect
  BY <1>17 DEF Reconnect
<1>18. CASE LinkLost
  BY <1>18 DEF LinkLost
<1>19. ASSUME NEW r \in Requests, NodeRuns(r) PROVE TypeOK'
  BY <1>19 DEF NodeRuns
<1>20. ASSUME NEW r \in Requests, NodeAnswers(r) PROVE TypeOK'
  <2>1. inbound' \subseteq Response
    BY <1>20 DEF NodeAnswers, Response
  <2> QED
    BY <1>20, <2>1 DEF NodeAnswers
<1>21. CASE UNCHANGED vars
  BY <1>21 DEF vars
<1> QED
  BY <1>1, <1>2, <1>3, <1>4, <1>5, <1>6, <1>7, <1>8, <1>9, <1>10, <1>11, <1>12, <1>13, <1>14, <1>15, <1>16, <1>17, <1>18, <1>19, <1>20, <1>21
     DEF Next, RequestStep, LoopStep, NodeStep, StreamEnds, StreamErrs

-----------------------------------------------------------------------------
(***************************************************************************)
(* The inductive invariant, part by part.                                  *)
(***************************************************************************)
\* The ws_sink mutex and the Option it protects.
LEMMA LockStep == TypeOK /\ LockInv /\ [Next]_vars => LockInv'
<1> SUFFICES ASSUME TypeOK, LockInv, [Next]_vars PROVE LockInv'
  OBVIOUS
<1> USE TasksDiffer DEF TypeOK, LockInv, OneInProgress, Holding, callVars, lockVars, nodeVars
<1>1. ASSUME NEW r \in Requests, Call(r) PROVE LockInv'
  BY <1>1 DEF Call
<1>2. ASSUME NEW r \in Requests, NotConnected(r) PROVE LockInv'
  BY <1>2 DEF NotConnected, Granted
<1>3. ASSUME NEW r \in Requests, Register(r) PROVE LockInv'
  BY <1>3 DEF Register, Granted
<1>4. ASSUME NEW r \in Requests, SendFrame(r) PROVE LockInv'
  BY <1>4 DEF SendFrame
<1>5. ASSUME NEW r \in Requests, SendFails(r) PROVE LockInv'
  BY <1>5 DEF SendFails
<1>6. ASSUME NEW r \in Requests, ReceiveResponse(r) PROVE LockInv'
  BY <1>6 DEF ReceiveResponse, EndsAs
<1>7. ASSUME NEW r \in Requests, TimeoutElapses(r) PROVE LockInv'
  BY <1>7 DEF TimeoutElapses
<1>8. ASSUME NEW r \in Requests, RemoveTimedOut(r) PROVE LockInv'
  BY <1>8 DEF RemoveTimedOut
<1>9. ASSUME NEW r \in Requests, DropFuture(r) PROVE LockInv'
  BY <1>9 DEF DropFuture
<1>10. CASE ConnectOk
  BY <1>10 DEF ConnectOk
<1>11. CASE ConnectErr
  BY <1>11 DEF ConnectErr
<1>12. CASE InstallSink
  BY <1>12 DEF InstallSink, Granted
<1>13. ASSUME NEW m \in inbound, HandleIncomingMessage(m) PROVE LockInv'
  BY <1>13 DEF HandleIncomingMessage
<1>14. CASE StopReading
  BY <1>14 DEF StopReading
<1>15. CASE ClearSink
  BY <1>15 DEF ClearSink, Granted
<1>16. CASE DrainPending
  BY <1>16 DEF DrainPending
<1>17. CASE Reconnect
  BY <1>17 DEF Reconnect
<1>18. CASE LinkLost
  BY <1>18 DEF LinkLost
<1>19. ASSUME NEW r \in Requests, NodeRuns(r) PROVE LockInv'
  BY <1>19 DEF NodeRuns
<1>20. ASSUME NEW r \in Requests, NodeAnswers(r) PROVE LockInv'
  BY <1>20 DEF NodeAnswers
<1>21. CASE UNCHANGED vars
  BY <1>21 DEF vars
<1> QED
  BY <1>1, <1>2, <1>3, <1>4, <1>5, <1>6, <1>7, <1>8, <1>9, <1>10,
     <1>11, <1>12, <1>13, <1>14, <1>15, <1>16, <1>17, <1>18, <1>19, <1>20,
     <1>21
     DEF Next, RequestStep, LoopStep, NodeStep, StreamEnds, StreamErrs

\* The map of pending requests and the oneshot channels.
LEMMA MapStep == TypeOK /\ LockInv /\ MapInv /\ NodeInv /\ [Next]_vars => MapInv'
<1> SUFFICES ASSUME TypeOK, LockInv, MapInv, NodeInv, [Next]_vars PROVE MapInv'
  OBVIOUS
<1> USE TasksDiffer DEF TypeOK, LockInv, MapInv, OneInProgress, LeaksAreDroppedCalls, MapEmptyWhileDown, Holding, callVars, lockVars, nodeVars
<1>1. ASSUME NEW r \in Requests, Call(r) PROVE MapInv'
  BY <1>1 DEF Call
<1>2. ASSUME NEW r \in Requests, NotConnected(r) PROVE MapInv'
  BY <1>2 DEF NotConnected
<1>3. ASSUME NEW r \in Requests, Register(r) PROVE MapInv'
  BY <1>3 DEF Register
<1>4. ASSUME NEW r \in Requests, SendFrame(r) PROVE MapInv'
  BY <1>4 DEF SendFrame
<1>5. ASSUME NEW r \in Requests, SendFails(r) PROVE MapInv'
  BY <1>5 DEF SendFails
<1>6. ASSUME NEW r \in Requests, ReceiveResponse(r) PROVE MapInv'
  BY <1>6 DEF ReceiveResponse, EndsAs
<1>7. ASSUME NEW r \in Requests, TimeoutElapses(r) PROVE MapInv'
  BY <1>7 DEF TimeoutElapses
<1>8. ASSUME NEW r \in Requests, RemoveTimedOut(r) PROVE MapInv'
  BY <1>8 DEF RemoveTimedOut
<1>9. ASSUME NEW r \in Requests, DropFuture(r) PROVE MapInv'
  BY <1>9 DEF DropFuture
<1>10. CASE ConnectOk
  BY <1>10 DEF ConnectOk
<1>11. CASE ConnectErr
  BY <1>11 DEF ConnectErr
<1>12. CASE InstallSink
  BY <1>12 DEF InstallSink
<1>13. ASSUME NEW m \in inbound, HandleIncomingMessage(m) PROVE MapInv'
  <2>1. m.id \in Requests /\ m.body \in Bodies
    BY DEF Response
  <2>2. CASE m.body # "garbled" /\ m.id \in pending_requests
    <3>1. m.body \in {"result", "error", "empty"}
      BY <2>1, <2>2 DEF Bodies
    <3>2. resp' = [resp EXCEPT ![m.id] = IF state[m.id] = "waiting" THEN m.body ELSE @]
      BY <1>13, <2>2 DEF HandleIncomingMessage
    <3>3. state[m.id] # "sending"
      BY <2>1 DEF NodeInv, Answered, Unsent
    <3> QED
      BY <1>13, <2>1, <2>2, <3>1, <3>2, <3>3 DEF HandleIncomingMessage
  <2> QED
    BY <1>13, <2>2 DEF HandleIncomingMessage
<1>14. CASE StopReading
  BY <1>14 DEF StopReading
<1>15. CASE ClearSink
  BY <1>15 DEF ClearSink
<1>16. CASE DrainPending
  BY <1>16 DEF DrainPending
<1>17. CASE Reconnect
  BY <1>17 DEF Reconnect
<1>18. CASE LinkLost
  BY <1>18 DEF LinkLost
<1>19. ASSUME NEW r \in Requests, NodeRuns(r) PROVE MapInv'
  BY <1>19 DEF NodeRuns
<1>20. ASSUME NEW r \in Requests, NodeAnswers(r) PROVE MapInv'
  BY <1>20 DEF NodeAnswers
<1>21. CASE UNCHANGED vars
  BY <1>21 DEF vars
<1> QED
  BY <1>1, <1>2, <1>3, <1>4, <1>5, <1>6, <1>7, <1>8, <1>9, <1>10,
     <1>11, <1>12, <1>13, <1>14, <1>15, <1>16, <1>17, <1>18, <1>19, <1>20,
     <1>21
     DEF Next, RequestStep, LoopStep, NodeStep, StreamEnds, StreamErrs

\* What the network and the node may still hold of a call.
LEMMA NodeInvStep == TypeOK /\ LockInv /\ MapInv /\ NodeInv /\ [Next]_vars => NodeInv'
<1> SUFFICES ASSUME TypeOK, LockInv, MapInv, NodeInv, [Next]_vars PROVE NodeInv'
  OBVIOUS
<1> USE TasksDiffer DEF TypeOK, LockInv, MapInv, NodeInv, OneInProgress, Holding, Unsent, Accepted, Answered, callVars, lockVars, nodeVars
<1>1. ASSUME NEW r \in Requests, Call(r) PROVE NodeInv'
  BY <1>1 DEF Call
<1>2. ASSUME NEW r \in Requests, NotConnected(r) PROVE NodeInv'
  BY <1>2 DEF NotConnected
<1>3. ASSUME NEW r \in Requests, Register(r) PROVE NodeInv'
  BY <1>3 DEF Register
<1>4. ASSUME NEW r \in Requests, SendFrame(r) PROVE NodeInv'
  BY <1>4 DEF SendFrame
<1>5. ASSUME NEW r \in Requests, SendFails(r) PROVE NodeInv'
  BY <1>5 DEF SendFails
<1>6. ASSUME NEW r \in Requests, ReceiveResponse(r) PROVE NodeInv'
  BY <1>6 DEF ReceiveResponse, EndsAs
<1>7. ASSUME NEW r \in Requests, TimeoutElapses(r) PROVE NodeInv'
  BY <1>7 DEF TimeoutElapses
<1>8. ASSUME NEW r \in Requests, RemoveTimedOut(r) PROVE NodeInv'
  BY <1>8 DEF RemoveTimedOut
<1>9. ASSUME NEW r \in Requests, DropFuture(r) PROVE NodeInv'
  BY <1>9 DEF DropFuture
<1>10. CASE ConnectOk
  BY <1>10 DEF ConnectOk
<1>11. CASE ConnectErr
  BY <1>11 DEF ConnectErr
<1>12. CASE InstallSink
  BY <1>12 DEF InstallSink
<1>13. ASSUME NEW m \in inbound, HandleIncomingMessage(m) PROVE NodeInv'
  BY <1>13 DEF HandleIncomingMessage
<1>14. CASE StopReading
  BY <1>14 DEF StopReading
<1>15. CASE ClearSink
  BY <1>15 DEF ClearSink
<1>16. CASE DrainPending
  BY <1>16 DEF DrainPending
<1>17. CASE Reconnect
  BY <1>17 DEF Reconnect
<1>18. CASE LinkLost
  BY <1>18 DEF LinkLost
<1>19. ASSUME NEW r \in Requests, NodeRuns(r) PROVE NodeInv'
  BY <1>19 DEF NodeRuns
<1>20. ASSUME NEW r \in Requests, NodeAnswers(r) PROVE NodeInv'
  BY <1>20 DEF NodeAnswers
<1>21. CASE UNCHANGED vars
  BY <1>21 DEF vars
<1> QED
  BY <1>1, <1>2, <1>3, <1>4, <1>5, <1>6, <1>7, <1>8, <1>9, <1>10,
     <1>11, <1>12, <1>13, <1>14, <1>15, <1>16, <1>17, <1>18, <1>19, <1>20,
     <1>21
     DEF Next, RequestStep, LoopStep, NodeStep, StreamEnds, StreamErrs

\* The inductive invariant holds when no call was made and no link is up.
LEMMA IndInvInit == Init => IndInv
<1> SUFFICES ASSUME Init PROVE IndInv
  OBVIOUS
<1>1. TypeOK
  BY TypeInit
<1>2. LockInv
  BY TasksDiffer DEF Init, LockInv, OneInProgress, Holding
<1>3. MapInv
  BY DEF Init, MapInv, LeaksAreDroppedCalls, MapEmptyWhileDown
<1>4. NodeInv
  BY DEF Init, NodeInv, Answered, Accepted
<1> QED
  BY <1>1, <1>2, <1>3, <1>4 DEF IndInv

\* No step breaks it.
LEMMA IndInvStep == IndInv /\ [Next]_vars => IndInv'
BY TypeStep, LockStep, MapStep, NodeInvStep DEF IndInv

\* Every behaviour of the client keeps the inductive invariant.
LEMMA IndInvHolds == Spec => []IndInv
BY IndInvInit, IndInvStep, PTL DEF Spec

-----------------------------------------------------------------------------
(***************************************************************************)
(* The theorems.                                                           *)
(***************************************************************************)

\* Every variable keeps its type, whatever the calls and the network do.
THEOREM TypeCorrect == Spec => []TypeOK
<1>1. IndInv => TypeOK
  BY DEF IndInv
<1> QED
  BY <1>1, IndInvHolds, PTL

\* send_request runs one call at a time: the guard of ws_sink it takes at
\* client.rs:99 is held by exactly the call between that line and its return.
THEOREM MutualExclusion == Spec => []OneInProgress
<1>1. IndInv => OneInProgress
  BY DEF IndInv, LockInv
<1> QED
  BY <1>1, IndInvHolds, PTL

\* No waiting call loses its sender: the Ok(Err(_)) arm is unreachable.
THEOREM NoWaiterIsForgotten == Spec => []WaiterIsRegistered
<1>1. IndInv => WaiterIsRegistered
  BY DEF IndInv, MapInv, WaiterIsRegistered
<1> QED
  BY <1>1, IndInvHolds, PTL

\* The drain of connection.rs:58-62 never notifies a call in progress.
THEOREM DrainIsUnheard == Spec => []DrainFindsNoWaiter
<1>1. IndInv => DrainFindsNoWaiter
  BY DEF IndInv, LockInv, MapInv, DrainFindsNoWaiter
<1> QED
  BY <1>1, IndInvHolds, PTL

\* The map of pending requests holds calls in progress and dropped calls only.
THEOREM OnlyDroppedCallsLeak == Spec => []LeaksAreDroppedCalls
<1>1. IndInv => LeaksAreDroppedCalls
  BY DEF IndInv, MapInv
<1> QED
  BY <1>1, IndInvHolds, PTL

\* A lost connection empties the map before the next one is up.
THEOREM LeaksEndWithTheConnection == Spec => []MapEmptyWhileDown
<1>1. IndInv => MapEmptyWhileDown
  BY DEF IndInv, MapInv
<1> QED
  BY <1>1, IndInvHolds, PTL

\* An answer means one run of the call; "not sent" means none, now or later.
THEOREM HonestAnswers == Spec => []AnswersAreHonest
<1>1. IndInv => AnswersAreHonest
  BY DEF IndInv, NodeInv, AnswersAreHonest, Unsent, Accepted
<1> QED
  BY <1>1, IndInvHolds, PTL

-----------------------------------------------------------------------------
(***************************************************************************)
(* Refinement: each step is a step of NodeRpc or leaves its variables      *)
(* unchanged.                                                              *)
(***************************************************************************)
Status == [r \in Requests |-> StatusOf(state[r])]
Sent == outbound \cup orphaned \cup HasRun

\* The abstract status of every state a call can be in.
LEMMA StatusValues ==
    /\ StatusOf("idle") = "idle"
    /\ \A s \in {"queued"} \cup Holding : StatusOf(s) = "open"
    /\ StatusOf("ok") = "ok"
    /\ StatusOf("dropped") = "dropped"
    /\ \A s \in Failures : StatusOf(s) = "failed"
BY DEF StatusOf, Holding, Failures

\* A step of one call changes the abstract status of that call only.
LEMMA StatusStep ==
    ASSUME TypeOK, NEW r \in Requests, NEW s, state' = [state EXCEPT ![r] = s]
    PROVE  Status' = [Status EXCEPT ![r] = StatusOf(s)]
BY DEF TypeOK, Status

\* What is written or run of a call stays so when the link changes hands.
LEMMA SentKept ==
    ASSUME outbound' \cup orphaned' = outbound \cup orphaned, runs' = runs
    PROVE  Sent' = Sent
BY DEF Sent, HasRun

\* The client starts where NodeRpc starts: no call, no frame, no run.
LEMMA RefinesInit == Init => Rpc!Init
<1> SUFFICES ASSUME Init PROVE Rpc!Init
  OBVIOUS
<1>1. Status = [r \in Requests |-> "idle"]
  BY StatusValues DEF Init, Status
<1>2. Sent = {}
  BY DEF Init, Sent, HasRun
<1> QED
  BY <1>1, <1>2 DEF Init, Rpc!Init, Status, Sent

\* What a step leaves its callers when they are told nothing of it.
Unseen == Status' = Status /\ Sent' = Sent /\ runs' = runs

\* A call begins as a call of NodeRpc.
LEMMA CallMaps ==
    ASSUME IndInv, NEW r \in Requests, Call(r)
    PROVE  Rpc!Call(r)
<1>a. TypeOK
  BY DEF IndInv
<1> USE <1>a DEF callVars, lockVars, nodeVars
<1>1. Status[r] = "idle" /\ Status' = [Status EXCEPT ![r] = "open"]
  <2>1. state[r] = "idle" /\ state' = [state EXCEPT ![r] = "queued"]
    BY DEF Call
  <2>2. StatusOf("queued") = "open" /\ StatusOf("idle") = "idle"
    BY StatusValues
  <2> QED
    BY <2>1, <2>2, StatusStep DEF Status
<1>2. Sent' = Sent
  BY SentKept DEF Call
<1> QED
  BY <1>1, <1>2 DEF Call, Rpc!Call, Status, Sent

\* A call that fails without an answer fails as one of NodeRpc.
LEMMA FailMaps ==
    ASSUME IndInv, NEW r \in Requests, NotConnected(r) \/ SendFails(r) \/ RemoveTimedOut(r)
    PROVE  Rpc!Fail(r)
<1>a. TypeOK
  BY DEF IndInv
<1> USE <1>a DEF callVars, lockVars, nodeVars
<1>1. Status[r] = "open" /\ Status' = [Status EXCEPT ![r] = "failed"]
  BY StatusStep, StatusValues
     DEF NotConnected, SendFails, RemoveTimedOut, Status, Holding, Failures
<1>2. Sent' = Sent /\ runs' = runs
  BY SentKept DEF NotConnected, SendFails, RemoveTimedOut
<1> QED
  BY <1>1, <1>2 DEF Rpc!Fail, Status, Sent

\* A frame gets out only when no other open call has one with the node.
LEMMA SendMaps ==
    ASSUME IndInv, NEW r \in Requests, SendFrame(r)
    PROVE  Rpc!Send(r) \/ Unseen
<1>a. TypeOK
  BY DEF IndInv
<1> USE <1>a DEF callVars, lockVars, nodeVars
<1>1. Status[r] = "open" /\ Status' = Status
  <2>1. Status[r] = "open" /\ Status' = [Status EXCEPT ![r] = "open"]
    BY StatusStep, StatusValues DEF SendFrame, Status, Holding
  <2> QED
    BY <2>1 DEF Status
<1>2. CASE link = "up"
  <2>1. Sent' = Sent \cup {r} /\ runs' = runs
    BY <1>2 DEF SendFrame, Sent, HasRun
  <2>2. \A q \in Sent : state[q] \notin Unsent /\ q \in Requests
    BY DEF IndInv, NodeInv, Unsent, Sent, HasRun, TypeOK
  <2>3. \A q \in Requests : state[q] \in Holding => q = r
    BY DEF SendFrame, IndInv, LockInv, OneInProgress, Holding
  <2>4. \A q \in Sent : Status[q] # "open"
    <3> SUFFICES ASSUME NEW q \in Sent PROVE Status[q] # "open"
      OBVIOUS
    <3>1. state[q] \notin {"queued"} \cup Holding
      BY <2>2, <2>3 DEF SendFrame, Unsent
    <3>2. state[q] \in {"ok", "dropped"} \cup Failures
      BY <2>2, <3>1 DEF TypeOK, Unsent, Holding, Ended, Failures
    <3> QED
      BY <2>2, <3>2, StatusValues DEF Status
  <2> QED
    BY <1>1, <2>1, <2>4 DEF Rpc!Send, Status, Sent
<1>3. CASE link # "up"
  BY <1>1, <1>3, SentKept DEF SendFrame, Unseen
<1> QED
  BY <1>2, <1>3

\* Who receives a response was run, and returns its result or an error.
LEMMA ReceiveMaps ==
    ASSUME IndInv, NEW r \in Requests, ReceiveResponse(r)
    PROVE  /\ runs[r] = 1
           /\ resp[r] = "result" => Rpc!Succeed(r)
           /\ resp[r] # "result" => Rpc!Fail(r)
<1>a. TypeOK
  BY DEF IndInv
<1> USE <1>a DEF callVars, lockVars, nodeVars
<1>1. Sent' = Sent /\ runs' = runs
  BY SentKept DEF ReceiveResponse
<1>2. Status[r] = "open" /\ Status' = [Status EXCEPT ![r] = StatusOf(EndsAs[resp[r]])]
  BY StatusStep, StatusValues DEF ReceiveResponse, Status, Holding
<1>3. runs[r] = 1
  BY DEF ReceiveResponse, IndInv, NodeInv
<1>4. resp[r] \in {"result", "error", "empty", "disconnected"}
  BY DEF ReceiveResponse, TypeOK
<1>5. ASSUME resp[r] = "result" PROVE Rpc!Succeed(r)
  <2>1. StatusOf(EndsAs[resp[r]]) = "ok"
    BY <1>5, StatusValues DEF EndsAs
  <2> QED
    BY <1>1, <1>2, <1>3, <2>1 DEF Rpc!Succeed, Status, Sent
<1>6. ASSUME resp[r] # "result" PROVE Rpc!Fail(r)
  <2>1. EndsAs[resp[r]] \in Failures
    BY <1>4, <1>6 DEF EndsAs, Failures
  <2>2. StatusOf(EndsAs[resp[r]]) = "failed"
    BY <2>1, StatusValues
  <2> QED
    BY <1>1, <1>2, <2>2 DEF Rpc!Fail, Status, Sent
<1> QED
  BY <1>3, <1>5, <1>6

\* A dropped call is one that NodeRpc abandons.
LEMMA DropMaps ==
    ASSUME IndInv, NEW r \in Requests, DropFuture(r)
    PROVE  Rpc!Abandon(r)
<1>a. TypeOK
  BY DEF IndInv
<1> USE <1>a DEF callVars, lockVars, nodeVars
<1>1. Status[r] = "open" /\ Status' = [Status EXCEPT ![r] = "dropped"]
  BY StatusStep, StatusValues DEF DropFuture, Status
<1>2. Sent' \in {Sent, Sent \cup {r}} /\ runs' = runs
  <2>1. runs' = runs /\ orphaned' = orphaned /\ outbound' \in {outbound, outbound \cup {r}}
    BY DEF DropFuture
  <2> QED
    BY <2>1 DEF Sent, HasRun
<1> QED
  BY <1>1, <1>2 DEF Rpc!Abandon, Status, Sent

\* The node runs a frame when NodeRpc lets it run the call.
LEMMA RunMaps ==
    ASSUME IndInv, NEW r \in Requests, NodeRuns(r)
    PROVE  Rpc!Execute(r)
<1>a. TypeOK
  BY DEF IndInv
<1> USE <1>a DEF callVars, lockVars, nodeVars
<1>1. Status' = Status
  BY DEF NodeRuns, Status
<1>2. r \in Sent /\ runs[r] = 0
  BY DEF NodeRuns, Sent, IndInv, NodeInv
<1>3. runs' = [runs EXCEPT ![r] = 1]
  BY <1>2 DEF NodeRuns
<1>4. Sent' = Sent
  BY <1>2, <1>3 DEF NodeRuns, Sent, HasRun, TypeOK
<1> QED
  BY <1>1, <1>2, <1>3, <1>4 DEF Rpc!Execute, Status, Sent

\* What the map, the timers, the connection task and the answers on their way
\* do is seen by no caller before a call returns.
LEMMA OthersAreUnseen ==
    ASSUME IndInv,
           \/ \E r \in Requests : Register(r) \/ TimeoutElapses(r) \/ NodeAnswers(r)
           \/ LoopStep \/ LinkLost
    PROVE  Unseen
<1>a. TypeOK
  BY DEF IndInv
<1> USE <1>a DEF Unseen, callVars, lockVars, nodeVars
<1>1. ASSUME NEW r \in Requests, Register(r) \/ TimeoutElapses(r) PROVE Unseen
  <2>1. Status[r] = "open" /\ Status' = [Status EXCEPT ![r] = "open"]
    BY <1>1, StatusStep, StatusValues DEF Register, TimeoutElapses, Status, Holding
  <2>2. Sent' = Sent /\ runs' = runs
    BY <1>1, SentKept DEF Register, TimeoutElapses
  <2> QED
    BY <2>1, <2>2 DEF Status
<1>2. ASSUME LoopStep \/ LinkLost PROVE Unseen
  <2>1. state' = state /\ runs' = runs
    BY <1>2 DEF LoopStep, LinkLost, ConnectOk, ConnectErr, InstallSink,
                HandleIncomingMessage, StreamEnds, StreamErrs, StopReading,
                ClearSink, DrainPending, Reconnect
  <2>2. outbound' \cup orphaned' = outbound \cup orphaned
    BY <1>2 DEF LoopStep, LinkLost, ConnectOk, ConnectErr, InstallSink,
                HandleIncomingMessage, StreamEnds, StreamErrs, StopReading,
                ClearSink, DrainPending, Reconnect
  <2> QED
    BY <2>1, <2>2, SentKept DEF Status
<1>3. ASSUME NEW r \in Requests, NodeAnswers(r) PROVE Unseen
  BY <1>3, SentKept DEF NodeAnswers, Status
<1> QED
  BY <1>1, <1>2, <1>3

\* A step of the client is a step of NodeRpc, or none of its callers' concern.
LEMMA RefinesStep == IndInv /\ [Next]_vars => [Rpc!Next]_Rpc!vars
<1> SUFFICES ASSUME IndInv, [Next]_vars PROVE [Rpc!Next]_Rpc!vars
  OBVIOUS
<1>1. Unseen => UNCHANGED Rpc!vars
  BY DEF Rpc!vars, Status, Sent, Unseen
<1>2. CASE UNCHANGED vars
  <2>1. state' = state /\ outbound' = outbound /\ orphaned' = orphaned /\ runs' = runs
    BY <1>2 DEF vars, nodeVars, callVars
  <2>2. Sent' = Sent
    BY <2>1, SentKept
  <2>3. Status' = Status
    BY <2>1 DEF Status
  <2> QED
    BY <1>1, <2>1, <2>2, <2>3 DEF Unseen
<1>3. ASSUME NEW r \in Requests, Call(r) \/ RequestStep(r) \/ DropFuture(r)
      PROVE  Rpc!Next \/ Unseen
  BY <1>3, CallMaps, FailMaps, SendMaps, ReceiveMaps, DropMaps, OthersAreUnseen
     DEF RequestStep, Rpc!Next
<1>4. ASSUME NEW r \in Requests, NodeRuns(r) PROVE Rpc!Next
  BY <1>4, RunMaps DEF Rpc!Next
<1>5. ASSUME LoopStep \/ LinkLost \/ \E r \in Requests : NodeAnswers(r)
      PROVE  Unseen
  BY <1>5, OthersAreUnseen
<1> QED
  BY <1>1, <1>2, <1>3, <1>4, <1>5 DEF Next, NodeStep

\* The client implements NodeRpc: whatever the interleaving, each call is
\* written once at most and run once at most, its result is its own, and no
\* call is written before the one before it has returned.
THEOREM Refinement == Spec => ImplementsRpc
BY RefinesInit, RefinesStep, IndInvHolds, PTL DEF Spec, ImplementsRpc, Rpc!Spec

=============================================================================
