------------------------------ MODULE HubProofs ------------------------------
(***************************************************************************)
(* The hub as it runs, proved for every number of streams, jobs and calls. *)
(* A step of the hub is a step of NodeClient, and so of NodeRpc for the    *)
(* call it is about (NodeClientProofs); seen with the calls of the streams *)
(* alone it is a step of Subscriptions, and with those of the jobs alone a *)
(* step of Transactions.  Their invariants then hold of the hub, and with  *)
(* them SeenInv: a poll the node has run, but that has not returned, keeps *)
(* the mutex, so no submission returns that was applied after it.          *)
(***************************************************************************)
EXTENDS Hub, NodeClientProofs

P == INSTANCE SubscriptionsProofs WITH
       Requests <- Polls, status <- StatusIn(Polls), sent <- SentIn(Polls),
       runs <- RunsIn(Polls)

Q == INSTANCE TransactionsProofs WITH
       Requests <- TxCalls, status <- StatusIn(TxCalls), sent <- SentIn(TxCalls),
       runs <- RunsIn(TxCalls)

\* A poll that was run has what was applied, to all submissions that returned before it
\* returns; what was applied is no later than now.
SeenInv ==
    /\ gen \in Nat \ {0}
    /\ wrote \in [Submissions -> Nat]
    /\ \A c \in Submissions : verdict[c] = "applied" => wrote[c] \in 2..gen
    /\ \A c \in Submissions : wrote[c] <= gen
    /\ \A s \in Subs :
         phase[s] = "calling" /\ runs[Current(s)] = 1 =>
             \A c \in Submissions : outcome[c] = "applied" => wrote[c] <= seen[Current(s)]

HubInv == IndInv /\ P!SubInv /\ Q!TxInv /\ SeenInv

-----------------------------------------------------------------------------
(***************************************************************************)
(* The calls of the streams and of the jobs.                               *)
(***************************************************************************)
\* Each call belongs to a stream or to a job, and to no other.
LEMMA CallsOfTheHub ==
    /\ Polls \subseteq Requests /\ TxCalls \subseteq Requests
    /\ Submissions \subseteq TxCalls
    /\ Polls \cap TxCalls = {}
    /\ \A j \in Jobs : <<j, 0>> \in TxCalls
    /\ \A j \in Jobs : \A k \in 1..MaxSubmits[j] :
         <<j, k>> \in Submissions /\ <<j, k>> \in TxCalls
    /\ \A c \in Submissions : \E j \in Jobs : \E k \in 1..MaxSubmits[j] : c = <<j, k>>
BY CallersDiffer, JobsAreBounded DEF Polls, TxCalls, Submissions

\* What the instances assume of their constants holds.
LEMMA Assumed ==
    /\ P!PollsAreBounded /\ P!PollsAreCalls
    /\ Q!JobsAreBounded /\ Q!JobsAreCalls /\ Q!AmountConstants
BY PollsAreBounded, JobsAreBounded, AmountConstants
   DEF P!PollsAreBounded, P!PollsAreCalls, P!Polls, Polls, Q!JobsAreBounded,
       Q!JobsAreCalls, Q!TxCalls, TxCalls, Q!AmountConstants, Q!Text, Text

\* What the calls C show of a step of one of them: seen with the calls C alone,
\* the call and the calls that were sent are what they are, and the step
\* changes that call and no other.
LEMMA SeenAlone ==
    ASSUME TypeOK, NEW C \in SUBSET Requests, NEW r \in C
    PROVE  /\ StatusIn(C)[r] = Status[r] /\ RunsIn(C)[r] = runs[r]
           /\ r \in Sent => r \in SentIn(C)
           /\ \A q \in SentIn(C) : q \in Sent /\ StatusIn(C)[q] = Status[q]
           /\ Status' = Status => StatusIn(C)' = StatusIn(C)
           /\ Sent' = Sent => SentIn(C)' = SentIn(C)
           /\ runs' = runs => RunsIn(C)' = RunsIn(C)
           /\ \A v : Status' = [Status EXCEPT ![r] = v] =>
                       StatusIn(C)' = [StatusIn(C) EXCEPT ![r] = v]
           /\ Sent' = Sent \cup {r} => SentIn(C)' = SentIn(C) \cup {r}
           /\ runs' = [runs EXCEPT ![r] = 1] => RunsIn(C)' = [RunsIn(C) EXCEPT ![r] = 1]
<1>1. /\ StatusIn(C) = [c \in C |-> Status[c]]
      /\ StatusIn(C)' = [c \in C |-> Status'[c]]
  BY DEF StatusIn, Status
<1>2. SentIn(C) = Sent \cap C /\ SentIn(C)' = Sent' \cap C
  BY DEF SentIn, Sent
<1>3. RunsIn(C) = [c \in C |-> runs[c]] /\ RunsIn(C)' = [c \in C |-> runs'[c]]
  BY DEF RunsIn
<1>4. DOMAIN Status = Requests /\ DOMAIN runs = Requests
  BY DEF Status, TypeOK
<1>5. ASSUME NEW v, Status' = [Status EXCEPT ![r] = v]
      PROVE  StatusIn(C)' = [StatusIn(C) EXCEPT ![r] = v]
  <2>1. \A c \in C : Status'[c] = IF c = r THEN v ELSE Status[c]
    BY ONLY <1>4, <1>5, C \in SUBSET Requests
  <2> QED
    BY ONLY <1>1, <2>1
<1>6. ASSUME runs' = [runs EXCEPT ![r] = 1]
      PROVE  RunsIn(C)' = [RunsIn(C) EXCEPT ![r] = 1]
  <2>1. \A c \in C : runs'[c] = IF c = r THEN 1 ELSE runs[c]
    BY ONLY <1>4, <1>6, C \in SUBSET Requests
  <2> QED
    BY ONLY <1>3, <2>1
<1>7. /\ StatusIn(C)[r] = Status[r] /\ RunsIn(C)[r] = runs[r]
      /\ \A q \in SentIn(C) : q \in Sent /\ StatusIn(C)[q] = Status[q]
  BY ONLY <1>1, <1>2, <1>3, r \in C
<1>8. /\ r \in Sent => r \in SentIn(C)
      /\ Sent' = Sent => SentIn(C)' = SentIn(C)
      /\ Sent' = Sent \cup {r} => SentIn(C)' = SentIn(C) \cup {r}
  BY ONLY <1>2, r \in C
<1>9. /\ Status' = Status => StatusIn(C)' = StatusIn(C)
      /\ runs' = runs => RunsIn(C)' = RunsIn(C)
  BY ONLY <1>1, <1>3
<1> QED
  BY ONLY <1>5, <1>6, <1>7, <1>8, <1>9

\* The steps of NodeRpc, of the abstract state.
LEMMA RpcSteps ==
    ASSUME NEW r
    PROVE  /\ Rpc!Call(r) => /\ Status[r] = "idle" /\ Status' = [Status EXCEPT ![r] = "open"]
                             /\ Sent' = Sent /\ runs' = runs
           /\ Rpc!Send(r) => /\ Status[r] = "open" /\ \A q \in Sent : Status[q] # "open"
                             /\ Sent' = Sent \cup {r} /\ Status' = Status /\ runs' = runs
           /\ Rpc!Execute(r) => /\ r \in Sent /\ runs[r] = 0 /\ runs' = [runs EXCEPT ![r] = 1]
                                /\ Status' = Status /\ Sent' = Sent
           /\ Rpc!Succeed(r) => /\ Status[r] = "open" /\ runs[r] = 1
                                /\ Status' = [Status EXCEPT ![r] = "ok"]
                                /\ Sent' = Sent /\ runs' = runs
           /\ Rpc!Fail(r) => /\ Status[r] = "open" /\ Status' = [Status EXCEPT ![r] = "failed"]
                             /\ Sent' = Sent /\ runs' = runs
           /\ Rpc!Abandon(r) => /\ Status[r] = "open"
                                /\ Status' = [Status EXCEPT ![r] = "dropped"]
                                /\ Sent' = Sent \/ Sent' = Sent \cup {r}
                                /\ runs' = runs
BY DEF Rpc!Call, Rpc!Send, Rpc!Execute, Rpc!Succeed, Rpc!Fail, Rpc!Abandon, Status, Sent

\* A step of a call of the streams is that step with their calls alone.
LEMMA StreamCalls ==
    ASSUME TypeOK, NEW r \in Polls
    PROVE  /\ Rpc!Call(r) => P!Call(r)
           /\ Rpc!Send(r) => P!Send(r)
           /\ Rpc!Execute(r) => P!Execute(r)
           /\ Rpc!Succeed(r) => P!Succeed(r)
           /\ Rpc!Fail(r) => P!Fail(r)
           /\ Rpc!Abandon(r) => P!Abandon(r)
<1>1. Polls \in SUBSET Requests
  BY CallsOfTheHub
<1>2. /\ StatusIn(Polls)[r] = Status[r] /\ RunsIn(Polls)[r] = runs[r]
      /\ r \in Sent => r \in SentIn(Polls)
      /\ \A q \in SentIn(Polls) : q \in Sent /\ StatusIn(Polls)[q] = Status[q]
      /\ Status' = Status => StatusIn(Polls)' = StatusIn(Polls)
      /\ Sent' = Sent => SentIn(Polls)' = SentIn(Polls)
      /\ runs' = runs => RunsIn(Polls)' = RunsIn(Polls)
      /\ \A v : Status' = [Status EXCEPT ![r] = v] =>
                  StatusIn(Polls)' = [StatusIn(Polls) EXCEPT ![r] = v]
      /\ Sent' = Sent \cup {r} => SentIn(Polls)' = SentIn(Polls) \cup {r}
      /\ runs' = [runs EXCEPT ![r] = 1] => RunsIn(Polls)' = [RunsIn(Polls) EXCEPT ![r] = 1]
  BY ONLY TypeOK, <1>1, r \in Polls, SeenAlone
<1>3. Rpc!Call(r) => P!Call(r)
  BY ONLY <1>2, RpcSteps DEF P!Call
<1>4. Rpc!Send(r) => P!Send(r)
  BY ONLY <1>2, RpcSteps DEF P!Send
<1>5. Rpc!Execute(r) => P!Execute(r)
  BY ONLY <1>2, RpcSteps DEF P!Execute
<1>6. Rpc!Succeed(r) => P!Succeed(r)
  BY ONLY <1>2, RpcSteps DEF P!Succeed
<1>7. Rpc!Fail(r) => P!Fail(r)
  BY ONLY <1>2, RpcSteps DEF P!Fail
<1>8. Rpc!Abandon(r) => P!Abandon(r)
  BY ONLY <1>2, RpcSteps DEF P!Abandon
<1> QED
  BY ONLY <1>3, <1>4, <1>5, <1>6, <1>7, <1>8

\* The streams see nothing of the calls of the jobs.
LEMMA StreamApart ==
    ASSUME TypeOK, NEW r \in TxCalls,
           \/ Rpc!Call(r) \/ Rpc!Send(r) \/ Rpc!Execute(r)
           \/ Rpc!Succeed(r) \/ Rpc!Fail(r) \/ Rpc!Abandon(r)
    PROVE  UNCHANGED P!vars
<1>1. /\ \A c \in Polls : Status'[c] = Status[c] /\ runs'[c] = runs[c]
      /\ Sent' \cap Polls = Sent \cap Polls
  <2>1. r \in Requests /\ r \notin Polls /\ Polls \subseteq Requests /\ runs \in [Requests -> Nat]
    BY CallsOfTheHub DEF TypeOK
  <2>2. /\ \/ Status' = Status
           \/ \E v : Status' = [Status EXCEPT ![r] = v]
        /\ Sent' \in {Sent, Sent \cup {r}}
        /\ runs' = runs \/ runs' = [runs EXCEPT ![r] = 1]
    BY DEF Rpc!Call, Rpc!Send, Rpc!Execute, Rpc!Succeed, Rpc!Fail, Rpc!Abandon, Status, Sent
  <2>3. DOMAIN Status = Requests
    BY DEF Status
  <2> HIDE DEF Status, Sent
  <2> QED
    BY <2>1, <2>2, <2>3
<1> QED
  BY <1>1, CallsOfTheHub DEF P!vars, Q!vars, StatusIn, SentIn, RunsIn, Status, Sent

\* Nor of what no caller sees.
LEMMA StreamUnseen ==
    ASSUME Unseen
    PROVE  UNCHANGED P!vars
<1>1. /\ \A c \in Polls : Status'[c] = Status[c] /\ runs'[c] = runs[c]
      /\ Sent' \cap Polls = Sent \cap Polls
  BY DEF Unseen
<1> QED
  BY <1>1, CallsOfTheHub DEF P!vars, Q!vars, StatusIn, SentIn, RunsIn, Status, Sent

\* A step of a call of the jobs is that step with their calls alone.
LEMMA JobCalls ==
    ASSUME TypeOK, NEW r \in TxCalls
    PROVE  /\ Rpc!Call(r) => Q!Call(r)
           /\ Rpc!Send(r) => Q!Send(r)
           /\ Rpc!Execute(r) => Q!Execute(r)
           /\ Rpc!Succeed(r) => Q!Succeed(r)
           /\ Rpc!Fail(r) => Q!Fail(r)
           /\ Rpc!Abandon(r) => Q!Abandon(r)
<1>1. TxCalls \in SUBSET Requests
  BY CallsOfTheHub
<1>2. /\ StatusIn(TxCalls)[r] = Status[r] /\ RunsIn(TxCalls)[r] = runs[r]
      /\ r \in Sent => r \in SentIn(TxCalls)
      /\ \A q \in SentIn(TxCalls) : q \in Sent /\ StatusIn(TxCalls)[q] = Status[q]
      /\ Status' = Status => StatusIn(TxCalls)' = StatusIn(TxCalls)
      /\ Sent' = Sent => SentIn(TxCalls)' = SentIn(TxCalls)
      /\ runs' = runs => RunsIn(TxCalls)' = RunsIn(TxCalls)
      /\ \A v : Status' = [Status EXCEPT ![r] = v] =>
                  StatusIn(TxCalls)' = [StatusIn(TxCalls) EXCEPT ![r] = v]
      /\ Sent' = Sent \cup {r} => SentIn(TxCalls)' = SentIn(TxCalls) \cup {r}
      /\ runs' = [runs EXCEPT ![r] = 1] => RunsIn(TxCalls)' = [RunsIn(TxCalls) EXCEPT ![r] = 1]
  BY ONLY TypeOK, <1>1, r \in TxCalls, SeenAlone
<1>3. Rpc!Call(r) => Q!Call(r)
  BY ONLY <1>2, RpcSteps DEF Q!Call
<1>4. Rpc!Send(r) => Q!Send(r)
  BY ONLY <1>2, RpcSteps DEF Q!Send
<1>5. Rpc!Execute(r) => Q!Execute(r)
  BY ONLY <1>2, RpcSteps DEF Q!Execute
<1>6. Rpc!Succeed(r) => Q!Succeed(r)
  BY ONLY <1>2, RpcSteps DEF Q!Succeed
<1>7. Rpc!Fail(r) => Q!Fail(r)
  BY ONLY <1>2, RpcSteps DEF Q!Fail
<1>8. Rpc!Abandon(r) => Q!Abandon(r)
  BY ONLY <1>2, RpcSteps DEF Q!Abandon
<1> QED
  BY ONLY <1>3, <1>4, <1>5, <1>6, <1>7, <1>8

\* The jobs see nothing of the calls of the streams.
LEMMA JobApart ==
    ASSUME TypeOK, NEW r \in Polls,
           \/ Rpc!Call(r) \/ Rpc!Send(r) \/ Rpc!Execute(r)
           \/ Rpc!Succeed(r) \/ Rpc!Fail(r) \/ Rpc!Abandon(r)
    PROVE  UNCHANGED Q!vars
<1>1. /\ \A c \in TxCalls : Status'[c] = Status[c] /\ runs'[c] = runs[c]
      /\ Sent' \cap TxCalls = Sent \cap TxCalls
  <2>1. r \in Requests /\ r \notin TxCalls /\ TxCalls \subseteq Requests /\ runs \in [Requests -> Nat]
    BY CallsOfTheHub DEF TypeOK
  <2>2. /\ \/ Status' = Status
           \/ \E v : Status' = [Status EXCEPT ![r] = v]
        /\ Sent' \in {Sent, Sent \cup {r}}
        /\ runs' = runs \/ runs' = [runs EXCEPT ![r] = 1]
    BY DEF Rpc!Call, Rpc!Send, Rpc!Execute, Rpc!Succeed, Rpc!Fail, Rpc!Abandon, Status, Sent
  <2>3. DOMAIN Status = Requests
    BY DEF Status
  <2> HIDE DEF Status, Sent
  <2> QED
    BY <2>1, <2>2, <2>3
<1> QED
  BY <1>1, CallsOfTheHub DEF P!vars, Q!vars, StatusIn, SentIn, RunsIn, Status, Sent

\* Nor of what no caller sees.
LEMMA JobUnseen ==
    ASSUME Unseen
    PROVE  UNCHANGED Q!vars
<1>1. /\ \A c \in TxCalls : Status'[c] = Status[c] /\ runs'[c] = runs[c]
      /\ Sent' \cap TxCalls = Sent \cap TxCalls
  BY DEF Unseen
<1> QED
  BY <1>1, CallsOfTheHub DEF P!vars, Q!vars, StatusIn, SentIn, RunsIn, Status, Sent

-----------------------------------------------------------------------------
(***************************************************************************)
(* The steps of the hub as steps of the client.                            *)
(***************************************************************************)
\* A stream that polls has its call, and a job that submits.
LEMMA CallsMade ==
    ASSUME HubInv
    PROVE  /\ \A s \in Subs : phase[s] = "calling" => Current(s) \in Polls
           /\ \A s \in Subs : BeginPoll(s) => <<s, n[s] + 1>> \in Polls
           /\ \A j \in Jobs : SendRawTransaction(j) => <<j, tries[j] + 1>> \in TxCalls
<1>1. /\ n \in [Subs -> Nat] /\ MaxPolls \in Nat
      /\ \A s \in Subs : phase[s] = "calling" => n[s] \in 1..MaxPolls
  BY PollsAreBounded DEF HubInv, P!SubInv, P!Types, P!PollInv
<1>2. tries \in [Jobs -> Nat] /\ MaxSubmits \in [Jobs -> Nat]
  BY JobsAreBounded DEF HubInv, Q!TxInv, Q!Types, Q!TxTypeOK
<1>3. \A s \in Subs : phase[s] = "calling" => Current(s) \in Polls
  BY <1>1 DEF Current, Polls
<1>4. \A s \in Subs : BeginPoll(s) => <<s, n[s] + 1>> \in Polls
  BY <1>1 DEF BeginPoll, Subscribe, Ask, PollAgain, Begins, Polls
<1>5. \A j \in Jobs : SendRawTransaction(j) => <<j, tries[j] + 1>> \in TxCalls
  BY <1>2 DEF SendRawTransaction, TxCalls
<1> QED
  BY <1>3, <1>4, <1>5

\* Callers, and what the node does beside its calls, add nothing to what the
\* client does.
LEMMA HubStepIsStep == HubInv /\ [HubNext]_hubVars => [Next]_vars
<1> SUFFICES ASSUME HubInv, [HubNext]_hubVars PROVE [Next]_vars
  OBVIOUS
<1>1. ASSUME NEW r \in Requests, Call(r) \/ RequestStep(r) \/ DropFuture(r) \/ NodeRuns(r)
      PROVE  Next
  BY <1>1 DEF Next, NodeStep
<1>2. ASSUME NEW r \in Requests, Result(r) \/ NodeError(r) \/ Fails(r) PROVE Next
  <2>1. RequestStep(r)
    BY <1>2 DEF Result, NodeError, Fails, RequestStep
  <2> QED
    BY <1>1, <2>1
<1>3. ASSUME NEW s \in Subs, Poll(s) \/ Pull(s) \/ Cancel(s) PROVE [Next]_vars
  BY <1>1, <1>3, CallsMade, CallsOfTheHub DEF Poll, Pull, Cancel, EndStream
<1>4. ASSUME NEW j \in Jobs, Build(j) \/ BuildDropped(j) \/ Submit(j) PROVE [Next]_vars
  BY <1>1, <1>4, CallsMade, CallsOfTheHub DEF Build, BuildDropped, Submit
<1>5. ASSUME NEW c \in Submissions, SubmitDropped(c) PROVE Next
  BY <1>1, <1>5, CallsOfTheHub DEF SubmitDropped
<1>6. ASSUME NEW r \in Requests, CallProgress(r) PROVE Next
  <2>1. CASE Waits(r)
    BY <1>1, <2>1 DEF Waits, RequestStep
  <2>2. CASE Returns(r)
    BY <1>2, <2>2 DEF Returns, PollReturns, BuildReturns, SubmitReturns
  <2> QED
    BY <1>6, <2>1, <2>2 DEF CallProgress
<1>7. CASE ClientAndNode
  BY <1>7 DEF ClientAndNode, Next, NodeStep
<1>8. ASSUME NEW c \in Polls, NodeReads(c) PROVE Next
  BY <1>1, <1>8, CallsOfTheHub DEF NodeReads
<1>9. ASSUME NEW j \in Jobs, NodeAnswersNonce(j) PROVE Next
  BY <1>1, <1>9, CallsOfTheHub DEF NodeAnswersNonce
<1>10. ASSUME NEW j \in Jobs, NEW k \in 1..MaxSubmits[j], NodeApplies(j, k) \/ NodeRefuses(j, k)
       PROVE  Next
  BY <1>1, <1>10, CallsOfTheHub DEF NodeApplies, NodeRefuses
<1>11. ASSUME NEW u \in Users, OthersWrite(u) PROVE UNCHANGED vars
  BY <1>11 DEF OthersWrite
<1>12. ASSUME NEW g, Show(g) PROVE UNCHANGED vars
  BY <1>12 DEF Show
<1>13. CASE UNCHANGED hubVars
  BY <1>13 DEF hubVars
<1> QED
  BY <1>3, <1>4, <1>5, <1>6, <1>7, <1>8, <1>9, <1>10, <1>11, <1>12, <1>13 DEF HubNext

\* A call returns to its caller as one of NodeRpc.
LEMMA Returned ==
    ASSUME IndInv, NEW r \in Requests
    PROVE  /\ Result(r) => Rpc!Succeed(r)
           /\ NodeError(r) => Rpc!Fail(r) /\ runs[r] = 1
           /\ Fails(r) => Rpc!Fail(r)
<1>1. ASSUME ReceiveResponse(r)
      PROVE  /\ runs[r] = 1
             /\ resp[r] = "result" => Rpc!Succeed(r)
             /\ resp[r] # "result" => Rpc!Fail(r)
  BY <1>1, ReceiveMaps
<1>2. ASSUME NotConnected(r) \/ SendFails(r) \/ RemoveTimedOut(r) PROVE Rpc!Fail(r)
  BY <1>2, FailMaps
<1> QED
  BY <1>1, <1>2 DEF Result, NodeError, Fails

\* While it waits, a call gets its frame out or is not seen.
LEMMA Waiting ==
    ASSUME IndInv, NEW r \in Requests, Waits(r)
    PROVE  Rpc!Send(r) \/ Unseen
BY SendMaps, OthersAreUnseen DEF Waits

\* A step that leaves the client alone is unseen.
LEMMA ClientIdle == UNCHANGED vars => Unseen
<1> SUFFICES ASSUME UNCHANGED vars PROVE Unseen
  OBVIOUS
<1>1. state' = state /\ outbound' = outbound /\ orphaned' = orphaned /\ runs' = runs
  BY DEF vars, nodeVars, callVars
<1> QED
  BY <1>1, SentKept DEF Unseen, Status

\* The streams do in their instance what they do here.
LEMMA SameStreams ==
    ASSUME NEW s
    PROVE  /\ P!Items = Items
           /\ BeginPoll(s) => P!BeginPoll(s)
           /\ Fetches(s) => P!Fetches(s)
           /\ Errs(s) => P!Errs(s)
           /\ ShowSnapshot(s) => P!ShowSnapshot(s)
           /\ ShowError(s) => P!ShowError(s)
           /\ NextItem(s) => P!NextItem(s)
           /\ EndStream(s) => P!EndStream(s)
           /\ Read(s) => P!Read(s)
           /\ Change => P!Change
<1>1. P!Fields = Fields /\ P!Items = Items
  BY DEF Fields, P!Fields, Items, P!Items
<1>2. P!Together(s) = Together(s)
  BY <1>1 DEF Together, P!Together
<1>3. BeginPoll(s) => P!BeginPoll(s)
  BY <1>1, <1>2 DEF BeginPoll, P!BeginPoll, Subscribe, P!Subscribe, Ask, P!Ask, PollAgain,
                    P!PollAgain, Begins, P!Begins
<1>4. /\ Fetches(s) => P!Fetches(s)
      /\ Errs(s) => P!Errs(s)
      /\ NextItem(s) => P!NextItem(s)
      /\ EndStream(s) => P!EndStream(s)
  BY <1>1 DEF Fetches, P!Fetches, Errs, P!Errs, NextItem, P!NextItem, EndStream, P!EndStream,
              Moves, P!Moves
<1>5. /\ ShowSnapshot(s) => P!ShowSnapshot(s)
      /\ ShowError(s) => P!ShowError(s)
  BY DEF ShowSnapshot, P!ShowSnapshot, ShowError, P!ShowError, Shows, P!Shows, Current,
         P!Current
<1>6. (Read(s) => P!Read(s)) /\ (Change => P!Change)
  BY DEF Read, P!Read, Change, P!Change
<1> QED
  BY <1>1, <1>3, <1>4, <1>5, <1>6

\* And so do the jobs and the node with its ledgers.
LEMMA SameJobs ==
    ASSUME NEW j, NEW k
    PROVE  /\ CreateUnsigned(j) => Q!CreateUnsigned(j)
           /\ AmountRefused(j) => Q!AmountRefused(j)
           /\ Built(j) => Q!Built(j)
           /\ BuildFails(j) => Q!BuildFails(j)
           /\ SendRawTransaction(j) => Q!SendRawTransaction(j)
           /\ Relayed(j) => Q!Relayed(j)
           /\ SubmitFails(j) => Q!SubmitFails(j)
           /\ AnswersNonce(j) => Q!AnswersNonce(j)
           /\ Applies(j, k) => Q!Applies(j, k)
           /\ Refuses(j, k) => Q!Refuses(j, k)
           /\ ForeignTransaction(j) => Q!ForeignTransaction(j)
<1> USE DEF ledgerVars, Q!ledgerVars, jobVars, Q!jobVars, NextNonce, Q!NextNonce
<1>1. \A t : Q!ParseCltAmount(t) = ParseCltAmount(t)
  BY DEF ParseCltAmount, Q!ParseCltAmount, ParseU64, Q!ParseU64
<1>2. \A v : Q!Number(v) = Number(v) /\ Q!Decimal(v) = Decimal(v) /\ Q!Absent = Absent
  BY DEF Number, Q!Number, Decimal, Q!Decimal, Absent, Q!Absent
<1>3. \A a : Q!WalletReads(a) = WalletReads(a)
  BY DEF WalletReads, Q!WalletReads, JsNumbers, Q!JsNumbers, Distance, Q!Distance
<1>4. \A what, json : ReadNonce(j, what, json) => Q!ReadNonce(j, what, json)
  BY DEF ReadNonce, Q!ReadNonce
<1>5. \A u, tx, v : Enters(u, tx, v) => Q!Enters(u, tx, v)
  BY DEF Enters, Q!Enters
<1>6. CreateUnsigned(j) => Q!CreateUnsigned(j)
  BY <1>1, <1>2, <1>4
     DEF CreateUnsigned, Q!CreateUnsigned,
         CreateUnsignedRideRequest, Q!CreateUnsignedRideRequest,
         CreateUnsignedRideOffer, Q!CreateUnsignedRideOffer,
         CreateUnsignedRidePay, Q!CreateUnsignedRidePay,
         CreateUnsignedRideAcceptance, Q!CreateUnsignedRideAcceptance,
         CreateUnsignedRideCancel, Q!CreateUnsignedRideCancel,
         CreateUnsignedRideRequestCancel, Q!CreateUnsignedRideRequestCancel,
         CreateUnsignedBurn, Q!CreateUnsignedBurn
<1>7. /\ AmountRefused(j) => Q!AmountRefused(j)
      /\ Built(j) => Q!Built(j)
      /\ BuildFails(j) => Q!BuildFails(j)
      /\ SendRawTransaction(j) => Q!SendRawTransaction(j)
  BY <1>1, <1>2 DEF AmountRefused, Q!AmountRefused, Built, Q!Built, BuildFails,
     Q!BuildFails, SendRawTransaction, Q!SendRawTransaction
<1>8. /\ Relayed(j) => Q!Relayed(j)
      /\ SubmitFails(j) => Q!SubmitFails(j)
      /\ AnswersNonce(j) => Q!AnswersNonce(j)
  BY DEF Relayed, Q!Relayed, SubmitFails, Q!SubmitFails, Ends, Q!Ends, AnswersNonce,
         Q!AnswersNonce
<1>9. /\ Applies(j, k) => Q!Applies(j, k)
      /\ Refuses(j, k) => Q!Refuses(j, k)
      /\ ForeignTransaction(j) => Q!ForeignTransaction(j)
  BY <1>3, <1>5 DEF Applies, Q!Applies, Refuses, Q!Refuses, ForeignTransaction,
     Q!ForeignTransaction
<1> QED
  BY <1>6, <1>7, <1>8, <1>9

-----------------------------------------------------------------------------
(***************************************************************************)
(* The steps of the hub as steps of the streams, and of the jobs.          *)
(***************************************************************************)
\* What a step of the hub is for the streams.
LEMMA HubStepOfStreams == HubInv /\ [HubNext]_hubVars => [P!SubNext]_P!allVars
<1> SUFFICES ASSUME HubInv, [HubNext]_hubVars PROVE [P!SubNext]_P!allVars
  OBVIOUS
<1> DEFINE Same == UNCHANGED P!allVars
<1>1. IndInv /\ TypeOK
  BY DEF HubInv, IndInv
<1>2. ASSUME UNCHANGED streamVars, UNCHANGED P!vars PROVE Same
  BY <1>2 DEF P!allVars, P!streamVars, streamVars
<1> HIDE DEF Same
<1>3. ASSUME NEW s \in Subs, Poll(s) PROVE P!Poll(s)
  <2>1. <<s, n[s] + 1>> \in Polls /\ BeginPoll(s) /\ Call(<<s, n[s] + 1>>)
    BY <1>3, CallsMade DEF Poll
  <2>2. P!Call(<<s, n[s] + 1>>)
    BY <1>1, <2>1, CallsOfTheHub, CallMaps, StreamCalls
  <2> QED
    BY <2>1, <2>2, SameStreams DEF P!Poll
<1>4. ASSUME NEW s \in Subs, PollReturns(s) PROVE P!Fetch(s) \/ P!PollErrs(s)
  <2>1. Current(s) \in Polls /\ Current(s) = P!Current(s)
    BY <1>4, CallsMade DEF PollReturns, Fetches, Errs, Moves, Current, P!Current
  <2>2. /\ Result(Current(s)) => P!Succeed(Current(s))
        /\ Fails(Current(s)) => P!Fail(Current(s))
    BY <1>1, <2>1, CallsOfTheHub, Returned, StreamCalls
  <2> QED
    BY <1>4, <2>1, <2>2, SameStreams DEF PollReturns, P!Fetch, P!PollErrs
<1>5. ASSUME NEW s \in Subs, Pull(s) PROVE P!Pull(s)
  BY <1>5, SameStreams, ClientIdle, StreamUnseen DEF Pull, P!Pull
<1>6. ASSUME NEW s \in Subs, Cancel(s) PROVE P!Cancel(s)
  <2>1. Current(s) = P!Current(s) /\ EndStream(s)
    BY <1>6 DEF Cancel, Current, P!Current
  <2>2. CASE phase[s] = "calling"
    <3>1. Current(s) \in Polls /\ DropFuture(Current(s))
      BY <1>6, <2>2, CallsMade DEF Cancel
    <3>2. P!Abandon(Current(s))
      BY <1>1, <3>1, CallsOfTheHub, DropMaps, StreamCalls
    <3> QED
      BY <2>1, <2>2, <3>2, SameStreams DEF P!Cancel
  <2>3. CASE phase[s] # "calling"
    BY <1>6, <2>1, <2>3, SameStreams, ClientIdle, StreamUnseen DEF Cancel, P!Cancel
  <2> QED
    BY <2>2, <2>3
<1>7. ASSUME NEW r \in TxCalls, UNCHANGED streamVars,
             Call(r) \/ DropFuture(r) \/ Result(r) \/ NodeError(r) \/ Fails(r) \/ NodeRuns(r)
      PROVE  Same
  <2>1. \/ Rpc!Call(r) \/ Rpc!Abandon(r) \/ Rpc!Succeed(r) \/ Rpc!Fail(r) \/ Rpc!Execute(r)
    BY <1>1, <1>7, CallsOfTheHub, CallMaps, DropMaps, Returned, RunMaps
  <2> QED
    BY <1>1, <1>2, <1>7, <2>1, StreamApart
<1>8. ASSUME UNCHANGED streamVars, Unseen PROVE Same
  BY <1>2, <1>8, StreamUnseen
<1>9. ASSUME NEW j \in Jobs, Build(j) \/ BuildReturns(j) \/ BuildDropped(j) \/ Submit(j)
      PROVE  Same
  <2>1. UNCHANGED streamVars
    BY <1>9 DEF Build, BuildReturns, BuildDropped, Submit
  <2>2. CASE UNCHANGED vars
    BY <1>8, <2>1, <2>2, ClientIdle
  <2>3. \/ UNCHANGED vars
        \/ \E r \in TxCalls : Call(r) \/ DropFuture(r) \/ Result(r) \/ Fails(r)
    BY <1>9, CallsMade, CallsOfTheHub DEF Build, BuildReturns, BuildDropped, Submit
  <2> QED
    BY <1>7, <2>1, <2>2, <2>3
<1>10. ASSUME NEW c \in Submissions, SubmitReturns(c) \/ SubmitDropped(c) PROVE Same
  <2>1. UNCHANGED streamVars
    BY <1>10 DEF SubmitReturns, SubmitDropped, callerVars
  <2> QED
    BY <1>7, <1>10, <2>1, CallsOfTheHub DEF SubmitReturns, SubmitDropped
<1>11. ASSUME NEW r \in Requests, Waits(r) PROVE (\E c \in Polls : P!Deliver(c)) \/ Same
  <2>1. UNCHANGED streamVars /\ (Rpc!Send(r) \/ Unseen)
    BY <1>1, <1>11, Waiting DEF Waits, callerVars
  <2>2. CASE Unseen
    BY <1>8, <2>1, <2>2
  <2>3. CASE Rpc!Send(r) /\ r \in Polls
    BY <1>1, <2>1, <2>3, StreamCalls DEF P!Deliver, streamVars, P!streamVars
  <2>4. CASE Rpc!Send(r) /\ r \in TxCalls
    BY <1>1, <1>2, <2>1, <2>4, StreamApart
  <2> QED
    BY <2>1, <2>2, <2>3, <2>4, CallersDiffer
<1>12. ASSUME ClientAndNode PROVE Same
  <2>1. UNCHANGED streamVars /\ Unseen
    BY <1>1, <1>12, OthersAreUnseen DEF ClientAndNode, callerVars
  <2> QED
    BY <1>8, <2>1
<1>13. ASSUME NEW c \in Polls, NodeReads(c) PROVE P!NodeReads(c)
  <2>1. P!Execute(c)
    BY <1>1, <1>13, CallsOfTheHub, RunMaps, StreamCalls DEF NodeReads
  <2> QED
    BY <1>13, <2>1, SameStreams DEF NodeReads, P!NodeReads
<1>14. ASSUME NEW j \in Jobs, NodeAnswersNonce(j) PROVE Same
  BY <1>7, <1>14, CallsOfTheHub DEF NodeAnswersNonce
<1>15. ASSUME NEW j \in Jobs, NEW k \in 1..MaxSubmits[j], NodeRefuses(j, k) PROVE Same
  BY <1>7, <1>15, CallsOfTheHub DEF NodeRefuses
<1>16. ASSUME NEW j \in Jobs, NEW k \in 1..MaxSubmits[j], NodeApplies(j, k)
       PROVE  P!NodeChanges
  <2>1. Rpc!Execute(<<j, k>>) /\ Change
    BY <1>1, <1>16, CallsOfTheHub, RunMaps DEF NodeApplies
  <2>2. UNCHANGED P!vars
    BY <1>1, <2>1, CallsOfTheHub, StreamApart
  <2> QED
    BY <2>1, <2>2, SameStreams DEF P!NodeChanges
<1>17. ASSUME NEW u \in Users, OthersWrite(u) PROVE P!NodeChanges
  BY <1>17, SameStreams, ClientIdle, StreamUnseen DEF OthersWrite, P!NodeChanges
<1>18. ASSUME UNCHANGED hubVars PROVE Same
  BY <1>8, <1>18, ClientIdle DEF hubVars, callerVars
<1>19. ASSUME NEW r \in Requests, Returns(r) PROVE P!SubNext \/ Same
  BY <1>4, <1>9, <1>10, <1>19 DEF Returns, P!SubNext, P!StreamStep
<1>20. ASSUME \E s \in Subs : Poll(s) \/ Pull(s) \/ Cancel(s) PROVE P!SubNext
  BY <1>3, <1>5, <1>6, <1>20 DEF P!SubNext, P!StreamStep
<1>21. ASSUME \E r \in Requests : CallProgress(r) PROVE P!SubNext \/ Same
  BY <1>11, <1>19, <1>21 DEF CallProgress, P!SubNext
<1>22. ASSUME \E j \in Jobs : Build(j) \/ BuildDropped(j) \/ Submit(j) \/ NodeAnswersNonce(j)
       PROVE  Same
  BY <1>9, <1>14, <1>22
<1>23. ASSUME (\E c \in Polls : NodeReads(c)) \/ (\E u \in Users : OthersWrite(u))
       PROVE  P!SubNext
  BY <1>13, <1>17, <1>23 DEF P!SubNext
<1>24. ASSUME \E j \in Jobs : \E k \in 1..MaxSubmits[j] : NodeApplies(j, k) \/ NodeRefuses(j, k)
       PROVE  P!SubNext \/ Same
  BY <1>15, <1>16, <1>24 DEF P!SubNext
<1>25. ASSUME \E c \in Submissions : SubmitDropped(c) PROVE Same
  BY <1>10, <1>25
<1>26. ASSUME NEW g \in Items, Show(g) PROVE P!SubNext
  <2>1. P!Show(g) /\ g \in P!Items
    BY <1>26, SameStreams, ClientIdle, StreamUnseen DEF Show, P!Show
  <2> QED
    BY <2>1 DEF P!SubNext
<1> QED
  <2>1. P!SubNext \/ Same
    BY <1>12, <1>18, <1>20, <1>21, <1>22, <1>23, <1>24, <1>25, <1>26 DEF HubNext
  <2> QED
    BY <2>1 DEF Same

\* What a step of the hub is for the jobs.
LEMMA HubStepOfJobs == HubInv /\ [HubNext]_hubVars => [Q!TxNext]_Q!allTxVars
<1> SUFFICES ASSUME HubInv, [HubNext]_hubVars PROVE [Q!TxNext]_Q!allTxVars
  OBVIOUS
<1> DEFINE Same == UNCHANGED Q!allTxVars
<1>1. IndInv /\ TypeOK
  BY DEF HubInv, IndInv
<1>2. ASSUME UNCHANGED txVars PROVE UNCHANGED Q!txVars
  BY <1>2 DEF txVars, Q!txVars, jobVars, Q!jobVars, ledgerVars, Q!ledgerVars
<1>3. ASSUME UNCHANGED Q!txVars, UNCHANGED Q!vars PROVE Same
  BY <1>3 DEF Q!allTxVars
<1> HIDE DEF Same
<1>4. ASSUME UNCHANGED txVars, Unseen PROVE Same
  BY <1>2, <1>3, <1>4, JobUnseen
<1>5. ASSUME NEW r \in Polls, UNCHANGED txVars,
             Call(r) \/ DropFuture(r) \/ Result(r) \/ Fails(r) \/ NodeRuns(r)
      PROVE  Same
  <2>1. \/ Rpc!Call(r) \/ Rpc!Abandon(r) \/ Rpc!Succeed(r) \/ Rpc!Fail(r) \/ Rpc!Execute(r)
    BY <1>1, <1>5, CallsOfTheHub, CallMaps, DropMaps, Returned, RunMaps
  <2> QED
    BY <1>1, <1>2, <1>3, <1>5, <2>1, JobApart
<1>6. ASSUME NEW r \in TxCalls
      PROVE  /\ Call(r) => Q!Call(r)
             /\ DropFuture(r) => Q!Abandon(r)
             /\ Result(r) => Q!Succeed(r)
             /\ NodeError(r) => Q!Fail(r) /\ RunsIn(TxCalls)[r] = 1
             /\ Fails(r) => Q!Fail(r)
             /\ NodeRuns(r) => Q!Execute(r)
  <2>1. r \in Requests
    BY CallsOfTheHub
  <2>2. RunsIn(TxCalls)[r] = runs[r]
    BY DEF RunsIn
  <2> QED
    BY <1>1, <2>1, <2>2, CallMaps, DropMaps, Returned, RunMaps, JobCalls
<1>7. ASSUME NEW s \in Subs, Poll(s) \/ Pull(s) \/ Cancel(s) \/ PollReturns(s) PROVE Same
  <2>1. UNCHANGED txVars
    BY <1>7 DEF Poll, Pull, Cancel, PollReturns
  <2>2. CASE UNCHANGED vars
    BY <1>4, <2>1, <2>2, ClientIdle
  <2>3. \/ UNCHANGED vars
        \/ \E r \in Polls : Call(r) \/ DropFuture(r) \/ Result(r) \/ Fails(r)
    BY <1>7, CallsMade DEF Poll, Pull, Cancel, PollReturns, Fetches, Errs, Moves
  <2> QED
    BY <1>5, <2>1, <2>2, <2>3
<1>8. ASSUME NEW j \in Jobs, Build(j) PROVE Q!JobStep(j)
  <2>1. CASE CreateUnsigned(j) /\ Call(<<j, 0>>)
    <3>1. Q!Build(j)
      BY <1>6, <2>1, CallsOfTheHub, SameJobs DEF Q!Build
    <3> QED
      BY <3>1 DEF Q!JobStep
  <2>2. CASE AmountRefused(j) /\ UNCHANGED vars
    <3>1. Q!BuildRefused(j)
      BY <2>2, SameJobs, ClientIdle, JobUnseen DEF Q!BuildRefused
    <3> QED
      BY <3>1 DEF Q!JobStep
  <2> QED
    BY <1>8, <2>1, <2>2 DEF Build
<1>9. ASSUME NEW j \in Jobs, BuildReturns(j) \/ BuildDropped(j) PROVE Q!JobStep(j)
  <2>1. Q!NonceRead(j) \/ Q!NonceReadFails(j)
    BY <1>6, <1>9, CallsOfTheHub, SameJobs
       DEF BuildReturns, BuildDropped, Q!NonceRead, Q!NonceReadFails
  <2> QED
    BY <2>1 DEF Q!JobStep
<1>10. ASSUME NEW j \in Jobs, Submit(j) PROVE Q!JobStep(j)
  <2>1. Q!Submit(j)
    BY <1>6, <1>10, CallsMade, SameJobs DEF Submit, Q!Submit
  <2> QED
    BY <2>1 DEF Q!JobStep
<1>11. ASSUME NEW c \in Submissions, SubmitReturns(c) \/ SubmitDropped(c)
       PROVE  Q!SubmissionStep(c)
  <2>1. ASSUME SubmitReturns(c) PROVE Q!SubmitReturns(c) \/ Q!SubmitErrs(c)
    BY <1>6, <2>1, CallsOfTheHub, SameJobs
       DEF SubmitReturns, Q!SubmitReturns, Q!SubmitErrs
  <2>2. ASSUME SubmitDropped(c) PROVE Q!SubmitDropped(c)
    BY <1>2, <1>6, <2>2, CallsOfTheHub DEF SubmitDropped, Q!SubmitDropped, callerVars
  <2> QED
    BY <1>11, <2>1, <2>2 DEF Q!SubmissionStep
<1>12. ASSUME NEW r \in Requests, Waits(r) PROVE (\E c \in TxCalls : Q!Deliver(c)) \/ Same
  <2>1. UNCHANGED txVars /\ (Rpc!Send(r) \/ Unseen)
    BY <1>1, <1>12, Waiting DEF Waits, callerVars
  <2>2. CASE Unseen
    BY <1>4, <2>1, <2>2
  <2>3. CASE Rpc!Send(r) /\ r \in TxCalls
    BY <1>1, <1>2, <2>1, <2>3, JobCalls DEF Q!Deliver
  <2>4. CASE Rpc!Send(r) /\ r \in Polls
    BY <1>1, <1>2, <1>3, <2>1, <2>4, JobApart
  <2> QED
    BY <2>1, <2>2, <2>3, <2>4, CallersDiffer
<1>13. ASSUME ClientAndNode PROVE Same
  <2>1. UNCHANGED txVars /\ Unseen
    BY <1>1, <1>13, OthersAreUnseen DEF ClientAndNode, callerVars
  <2> QED
    BY <1>4, <2>1
<1>14. ASSUME NEW c \in Polls, NodeReads(c) PROVE Same
  BY <1>5, <1>14 DEF NodeReads
<1>15. ASSUME NEW j \in Jobs, NodeAnswersNonce(j) PROVE Q!JobStep(j)
  <2>1. Q!NodeAnswersNonce(j)
    BY <1>6, <1>15, CallsOfTheHub, SameJobs DEF NodeAnswersNonce, Q!NodeAnswersNonce
  <2> QED
    BY <2>1 DEF Q!JobStep
<1>16. ASSUME NEW j \in Jobs, NEW k \in 1..MaxSubmits[j], NodeApplies(j, k) \/ NodeRefuses(j, k)
       PROVE  Q!JobStep(j)
  <2>1. Q!NodeApplies(j, k) \/ Q!NodeRefuses(j, k)
    BY <1>6, <1>16, CallsOfTheHub, SameJobs
       DEF NodeApplies, NodeRefuses, Q!NodeApplies, Q!NodeRefuses
  <2> QED
    BY <2>1 DEF Q!JobStep
<1>17. ASSUME NEW u \in Users, OthersWrite(u) PROVE Q!OthersWrite(u)
  BY <1>17, SameJobs, ClientIdle, JobUnseen DEF OthersWrite, Q!OthersWrite
<1>18. ASSUME UNCHANGED hubVars PROVE Same
  BY <1>4, <1>18, ClientIdle DEF hubVars, callerVars
<1>19. ASSUME NEW r \in Requests, CallProgress(r) PROVE Q!TxNext \/ Same
  <2>1. CASE Waits(r)
    BY <1>12, <2>1 DEF Q!TxNext
  <2>2. CASE Returns(r)
    BY <1>7, <1>9, <1>11, <2>2 DEF Returns, Q!TxNext, Q!Submissions, Submissions
  <2> QED
    BY <1>19, <2>1, <2>2 DEF CallProgress
<1>20. ASSUME \E s \in Subs : Poll(s) \/ Pull(s) \/ Cancel(s) PROVE Same
  BY <1>7, <1>20
<1>21. ASSUME \E j \in Jobs : Build(j) \/ BuildDropped(j) \/ Submit(j) \/ NodeAnswersNonce(j)
       PROVE  Q!TxNext
  BY <1>8, <1>9, <1>10, <1>15, <1>21 DEF Q!TxNext
<1>22. ASSUME \E j \in Jobs : \E k \in 1..MaxSubmits[j] : NodeApplies(j, k) \/ NodeRefuses(j, k)
       PROVE  Q!TxNext
  BY <1>16, <1>22 DEF Q!TxNext
<1>23. ASSUME (\E c \in Submissions : SubmitDropped(c)) \/ (\E u \in Users : OthersWrite(u))
       PROVE  Q!TxNext
  BY <1>11, <1>17, <1>23 DEF Q!TxNext, Q!Submissions, Submissions
<1>24. ASSUME \E c \in Polls : NodeReads(c) PROVE Same
  BY <1>14, <1>24
<1>25. ASSUME \E g \in Items : Show(g) PROVE Same
  BY <1>4, <1>25, ClientIdle DEF Show
<1> QED
  <2>1. Q!TxNext \/ Same
    BY <1>13, <1>18, <1>19, <1>20, <1>21, <1>22, <1>23, <1>24, <1>25 DEF HubNext
  <2> QED
    BY <2>1 DEF Same

-----------------------------------------------------------------------------
(***************************************************************************)
(* What submissions return, and what polls fetch.                          *)
(***************************************************************************)
\* A poll that was run and has not returned has the mutex: no submission gets
\* the node's word meanwhile.
LEMMA PollHasTheNode ==
    ASSUME HubInv, NEW s \in Subs, phase[s] = "calling", runs[Current(s)] = 1,
           NEW c \in Submissions
    PROVE  ~Result(c) /\ ~NodeError(c)
<1> USE DEF HubInv
<1>1. Current(s) \in Polls /\ Current(s) \in Requests /\ c \in Requests /\ c # Current(s)
  BY CallsMade, CallsOfTheHub
<1>2. StatusOf(state[Current(s)]) = "open"
  BY <1>1 DEF P!SubInv, P!OpenInv, P!Current, Current, StatusIn
<1>3. state[Current(s)] \notin Unsent
  BY <1>1 DEF IndInv, NodeInv
<1>4. state[Current(s)] \in Holding
  <2>1. state[Current(s)] \in {"waiting", "expired"} \cup Ended
    BY <1>1, <1>3 DEF IndInv, TypeOK, Unsent, Holding
  <2>2. state[Current(s)] \notin Ended
    BY <1>2, StatusValues DEF Ended
  <2> QED
    BY <2>1, <2>2 DEF Holding
<1>5. state[c] \notin Holding
  BY <1>1, <1>4 DEF IndInv, LockInv, OneInProgress
<1> QED
  BY <1>5 DEF Result, NodeError, ReceiveResponse, Holding

\* A submission the node has yet to run has no verdict, and has not returned one.
LEMMA NoOutcomeYet ==
    ASSUME HubInv, NEW c \in Submissions, runs[c] = 0
    PROVE  outcome[c] # "applied"
<1>1. PICK j \in Jobs : \E k \in 1..MaxSubmits[j] : c = <<j, k>>
  BY CallsOfTheHub
<1>a. PICK k \in 1..MaxSubmits[j] : c = <<j, k>>
  BY <1>1
<1>2. RunsIn(TxCalls)[<<j, k>>] = 0
  BY <1>a, CallsOfTheHub DEF RunsIn
<1>3. verdict[<<j, k>>] = "none"
  BY <1>2 DEF HubInv, Q!TxInv, Q!CallInv
<1>4. outcome[c] = "applied" => verdict[c] = "applied"
  BY DEF HubInv, Q!TxInv, Q!LedgerInv, Q!Submissions, Submissions
<1> QED
  BY <1>a, <1>3, <1>4

\* Whatever begins no poll, runs none, and neither applies nor returns a transaction.
LEMMA SeenKept ==
    ASSUME SeenInv, UNCHANGED <<n, seen, outcome, verdict, wrote>>, gen' \in {gen, gen + 1},
           \A s \in Subs : phase'[s] = "calling" =>
               phase[s] = "calling" /\ runs'[Current(s)] = runs[Current(s)]
    PROVE  SeenInv'
BY DEF SeenInv, Current

\* Building and submitting returns nothing of a submission, and makes the node do nothing.
LEMMA NoOutcome ==
    ASSUME NEW j
    PROVE  /\ CreateUnsigned(j) => UNCHANGED <<outcome, verdict>>
           /\ AmountRefused(j) \/ Built(j) \/ BuildFails(j) => UNCHANGED <<outcome, verdict>>
           /\ SendRawTransaction(j) => UNCHANGED <<outcome, verdict>>
BY DEF CreateUnsigned, CreateUnsignedRideRequest, CreateUnsignedRideOffer,
       CreateUnsignedRidePay, CreateUnsignedRideAcceptance, CreateUnsignedRideCancel,
       CreateUnsignedRideRequestCancel, CreateUnsignedBurn, ReadNonce, AmountRefused, Built,
       BuildFails, SendRawTransaction, ledgerVars

\* No submission returns that was applied after a poll in progress was run.
LEMMA SeenStep == HubInv /\ [HubNext]_hubVars => SeenInv'
<1> SUFFICES ASSUME HubInv, [HubNext]_hubVars PROVE SeenInv'
  OBVIOUS
<1>1. IndInv /\ SeenInv /\ runs \in [Requests -> Nat]
  BY DEF HubInv, IndInv, TypeOK
<1>2. ASSUME NEW r \in Requests,
             \/ Call(r) \/ DropFuture(r) \/ Result(r) \/ NodeError(r) \/ Fails(r)
             \/ RequestStep(r)
      PROVE  runs' = runs
  BY <1>2 DEF Call, DropFuture, Result, NodeError, Fails, RequestStep, NotConnected, Register,
              SendFrame, SendFails, ReceiveResponse, TimeoutElapses, RemoveTimedOut, nodeVars
<1>3. ASSUME NEW r \in Requests, NodeRuns(r)
      PROVE  runs[r] = 0 /\ runs' = [runs EXCEPT ![r] = 1]
  BY <1>1, <1>3, RunMaps DEF Rpc!Execute
<1>4. ASSUME UNCHANGED callerVars, runs' = runs PROVE SeenInv'
  BY <1>1, <1>4, SeenKept DEF callerVars, streamVars, txVars, jobVars, ledgerVars
<1>5. ASSUME NEW s \in Subs, Poll(s) PROVE SeenInv'
  <2>1. /\ n' = [n EXCEPT ![s] = @ + 1] /\ phase' = [phase EXCEPT ![s] = "calling"]
        /\ UNCHANGED <<gen, seen, outcome, verdict, wrote>>
    BY <1>5 DEF Poll, BeginPoll, Subscribe, Ask, PollAgain, Begins, txVars, jobVars, ledgerVars
  <2>2. <<s, n[s] + 1>> \in Polls /\ runs' = runs
    BY <1>2, <1>5, CallsMade, CallsOfTheHub DEF Poll
  <2>3. /\ n \in [Subs -> Nat]
        /\ phase \in [Subs -> P!Phases]
        /\ runs[<<s, n[s] + 1>>] = 0
    <3>1. n \in [Subs -> Nat] /\ n[s] + 1 \in 1..MaxPolls
      BY <2>2 DEF HubInv, P!SubInv, P!Types, Polls
    <3>2. RunsIn(Polls)[<<s, n[s] + 1>>] = 0
      BY <3>1 DEF HubInv, P!SubInv, P!PollInv
    <3> QED
      BY <2>2, <3>1, <3>2 DEF HubInv, P!SubInv, P!Types, RunsIn
  <2>4. ASSUME NEW t \in Subs, phase'[t] = "calling", runs'[Current(t)'] = 1
        PROVE  t # s /\ phase[t] = "calling" /\ Current(t)' = Current(t) /\ runs[Current(t)] = 1
    BY <2>1, <2>2, <2>3, <2>4 DEF Current
  <2> QED
    BY <1>1, <2>1, <2>4 DEF SeenInv
<1>6. ASSUME NEW s \in Subs, PollReturns(s) \/ Pull(s) \/ Cancel(s) PROVE SeenInv'
  <2>1. /\ \E v \in {"fetched", "erred", "sleeping", "cancelled"} :
             phase' = [phase EXCEPT ![s] = v]
        /\ UNCHANGED <<n, gen, seen, outcome, verdict, wrote>>
    BY <1>6 DEF PollReturns, Fetches, Errs, Moves, Pull, NextItem, Cancel, EndStream,
                txVars, jobVars, ledgerVars
  <2>2. runs' = runs
    BY <1>2, <1>6, CallsMade, CallsOfTheHub
       DEF PollReturns, Fetches, Errs, Moves, Pull, Cancel, vars, nodeVars
  <2>3. phase \in [Subs -> P!Phases]
    BY DEF HubInv, P!SubInv, P!Types
  <2>4. \A t \in Subs : phase'[t] = "calling" => phase[t] = "calling"
    BY <2>1, <2>3
  <2> QED
    BY <1>1, <2>1, <2>2, <2>4, SeenKept
<1>7. ASSUME NEW j \in Jobs, Build(j) \/ BuildReturns(j) \/ BuildDropped(j) \/ Submit(j)
      PROVE  SeenInv'
  <2>1. UNCHANGED <<streamVars, outcome, verdict, wrote>>
    BY <1>7, NoOutcome DEF Build, BuildReturns, BuildDropped, Submit
  <2>2. runs' = runs
    BY <1>2, <1>7, CallsMade, CallsOfTheHub
       DEF Build, BuildReturns, BuildDropped, Submit, vars, nodeVars
  <2> QED
    BY <1>1, <2>1, <2>2, SeenKept DEF streamVars
<1>8. ASSUME NEW c \in Submissions, SubmitReturns(c) PROVE SeenInv'
  <2>1. /\ \/ outcome' = [outcome EXCEPT ![c] = verdict[c]] /\ (Result(c) \/ NodeError(c))
           \/ outcome' = [outcome EXCEPT ![c] = "error"]
        /\ UNCHANGED <<streamVars, verdict, wrote>>
    BY <1>8 DEF SubmitReturns, Relayed, SubmitFails, Ends, ledgerVars
  <2>2. runs' = runs
    BY <1>2, <1>8, CallsOfTheHub DEF SubmitReturns
  <2>3. outcome \in [Submissions -> {"nothing", "applied", "refused", "error"}]
    BY DEF HubInv, Q!TxInv, Q!Types, Q!TxTypeOK, Q!Submissions, Submissions
  <2>4. ASSUME NEW s \in Subs, phase[s] = "calling", runs[Current(s)] = 1
        PROVE  outcome' = [outcome EXCEPT ![c] = "error"]
    BY <2>1, <2>4, PollHasTheNode
  <2>5. ASSUME NEW s \in Subs, phase[s] = "calling", runs[Current(s)] = 1,
               NEW d \in Submissions, outcome'[d] = "applied"
        PROVE  outcome[d] = "applied"
    BY <2>3, <2>4, <2>5
  <2> QED
    BY <1>1, <2>1, <2>2, <2>5 DEF SeenInv, Current, streamVars
<1>9. ASSUME NEW c \in Polls, NodeReads(c) PROVE SeenInv'
  <2>1. /\ seen' = [seen EXCEPT ![c] = gen] /\ runs' = [runs EXCEPT ![c] = 1]
        /\ UNCHANGED <<phase, n, gen, outcome, verdict, wrote>>
    BY <1>3, <1>9, CallsOfTheHub DEF NodeReads, Read, txVars, jobVars, ledgerVars
  <2>2. seen \in [Polls -> Nat]
    BY DEF HubInv, P!SubInv, P!Types
  <2>3. ASSUME NEW s \in Subs, phase[s] = "calling", runs'[Current(s)] = 1
        PROVE  \/ seen'[Current(s)] = gen
               \/ runs[Current(s)] = 1 /\ seen'[Current(s)] = seen[Current(s)]
    BY <1>1, <2>1, <2>2, <2>3, CallsMade, CallsOfTheHub
  <2> QED
    BY <1>1, <2>1, <2>3 DEF SeenInv, Current
<1>10. ASSUME NEW r \in TxCalls, NodeRuns(r), NEW s \in Subs, phase[s] = "calling"
       PROVE  runs'[Current(s)] = runs[Current(s)]
  BY <1>1, <1>3, <1>10, CallsMade, CallsOfTheHub
<1>11. ASSUME NEW j \in Jobs, NodeAnswersNonce(j) PROVE SeenInv'
  BY <1>1, <1>10, <1>11, CallsOfTheHub, SeenKept
     DEF NodeAnswersNonce, AnswersNonce, streamVars, jobVars
<1>12. ASSUME NEW j \in Jobs, NEW k \in 1..MaxSubmits[j], NodeApplies(j, k) \/ NodeRefuses(j, k)
       PROVE  SeenInv'
  <2>1. <<j, k>> \in Submissions /\ <<j, k>> \in TxCalls /\ NodeRuns(<<j, k>>)
    BY <1>12, CallsOfTheHub DEF NodeApplies, NodeRefuses
  <2>2. outcome[<<j, k>>] # "applied"
    BY <1>3, <2>1, CallsOfTheHub, NoOutcomeYet
  <2>3. verdict \in [Submissions -> {"none", "applied", "refused"}]
    BY DEF HubInv, Q!TxInv, Q!Types, Q!TxTypeOK, Q!Submissions, Submissions
  <2>4. \A s \in Subs : phase[s] = "calling" => runs'[Current(s)] = runs[Current(s)]
    BY <1>10, <2>1
  <2>5. CASE NodeRefuses(j, k)
    <3>1. /\ verdict' = [verdict EXCEPT ![<<j, k>>] = "refused"]
          /\ UNCHANGED <<streamVars, outcome, wrote>>
      BY <2>5 DEF NodeRefuses, Refuses, jobVars
    <3> QED
      BY <1>1, <2>3, <2>4, <3>1 DEF SeenInv, Current, streamVars
  <2>6. CASE NodeApplies(j, k)
    <3>1. /\ verdict' = [verdict EXCEPT ![<<j, k>>] = "applied"]
          /\ gen' = gen + 1 /\ wrote' = [wrote EXCEPT ![<<j, k>>] = gen']
          /\ UNCHANGED <<phase, n, seen, outcome>>
      BY <2>6 DEF NodeApplies, Applies, Change, jobVars
    <3>2. gen' \in Nat \ {0} /\ wrote' \in [Submissions -> Nat]
      <4>1. gen \in Nat \ {0} /\ wrote \in [Submissions -> Nat]
        BY <1>1 DEF SeenInv
      <4>2. gen' \in Nat \ {0}
        BY <3>1, <4>1
      <4> QED
        BY <3>1, <4>1, <4>2
    <3>3. \A c \in Submissions : wrote'[c] <= gen' /\ (verdict'[c] = "applied" => wrote'[c] \in 2..gen')
      BY <1>1, <2>3, <3>1 DEF SeenInv
    <3>4. \A c \in Submissions : outcome[c] = "applied" => wrote'[c] = wrote[c]
      BY <1>1, <2>2, <3>1 DEF SeenInv
    <3> QED
      BY <1>1, <2>4, <3>1, <3>2, <3>3, <3>4 DEF SeenInv, Current
  <2> QED
    BY <1>12, <2>5, <2>6
<1>13. ASSUME NEW u \in Users, OthersWrite(u) PROVE SeenInv'
  BY <1>1, <1>13, SeenKept DEF OthersWrite, ForeignTransaction, Change, jobVars, vars, nodeVars
<1>14. ASSUME NEW c \in Submissions, SubmitDropped(c) PROVE SeenInv'
  BY <1>2, <1>4, <1>14, CallsOfTheHub DEF SubmitDropped
<1>15. ASSUME NEW r \in Requests, Waits(r) PROVE SeenInv'
  BY <1>2, <1>4, <1>15 DEF Waits, RequestStep
<1>16. CASE ClientAndNode
  <2>1. Unseen /\ UNCHANGED callerVars
    BY <1>1, <1>16, OthersAreUnseen DEF ClientAndNode
  <2> QED
    BY <1>4, <2>1 DEF Unseen
<1>17. CASE UNCHANGED hubVars
  BY <1>4, <1>17 DEF hubVars, vars, nodeVars
<1>18. ASSUME NEW r \in Requests, CallProgress(r) PROVE SeenInv'
  BY <1>6, <1>7, <1>8, <1>15, <1>18 DEF CallProgress, Returns
<1>19. ASSUME NEW g, Show(g) PROVE SeenInv'
  <2>1. /\ UNCHANGED <<n, gen, seen, outcome, verdict, wrote, runs>>
        /\ phase' = [s \in Subs |-> IF s \in g THEN "yielded" ELSE phase[s]]
    BY <1>19 DEF Show, ShowSnapshot, ShowError, Shows, txVars, jobVars, ledgerVars, vars,
                 nodeVars
  <2>2. \A s \in Subs : phase'[s] = "calling" => phase[s] = "calling"
    BY <2>1
  <2> QED
    BY <1>1, <2>1, <2>2, SeenKept
<1> QED
  BY <1>5, <1>6, <1>7, <1>9, <1>11, <1>12, <1>13, <1>14, <1>16, <1>17, <1>18, <1>19
     DEF HubNext

-----------------------------------------------------------------------------
(***************************************************************************)
(* The theorems.                                                           *)
(***************************************************************************)
\* The streams and the jobs start as in the instances.
LEMMA HubStarts == HubInit => P!SubInit /\ Q!TxInit
<1> SUFFICES ASSUME HubInit PROVE P!SubInit /\ Q!TxInit
  OBVIOUS
<1>1. Status = [r \in Requests |-> "idle"] /\ Sent = {} /\ runs = [r \in Requests |-> 0]
  BY RefinesInit DEF HubInit, Rpc!Init, Status, Sent
<1>2. P!Init
  BY <1>1, CallsOfTheHub DEF P!Init, StatusIn, SentIn, RunsIn, Status, Sent
<1>3. Q!Init
  BY <1>1, CallsOfTheHub DEF Q!Init, StatusIn, SentIn, RunsIn, Status, Sent
<1>4. P!StreamsInit
  BY DEF HubInit, StreamsInit, P!StreamsInit, P!Polls, Polls
<1>5. Q!JobsInit
  BY DEF HubInit, JobsInit, Q!JobsInit, Q!Submissions, Submissions, Q!Absent, Absent
<1> QED
  BY <1>2, <1>3, <1>4, <1>5 DEF P!SubInit, Q!TxInit

\* The inductive invariant of the hub: that of the client, of the streams and of
\* the jobs, and what relates them.
LEMMA HubInvHolds == HubSpec => []HubInv
<1>1. HubInit => HubInv
  <2> SUFFICES ASSUME HubInit PROVE HubInv
    OBVIOUS
  <2>1. IndInv
    BY IndInvInit DEF HubInit
  <2>2. P!SubInv /\ Q!TxInv
    BY HubStarts, Assumed, P!SubInvInit, Q!TxInitInv
  <2>3. SeenInv
    BY DEF HubInit, StreamsInit, JobsInit, SeenInv
  <2> QED
    BY <2>1, <2>2, <2>3 DEF HubInv
<1>2. HubInv /\ [HubNext]_hubVars => HubInv'
  <2> SUFFICES ASSUME HubInv, [HubNext]_hubVars PROVE HubInv'
    OBVIOUS
  <2>1. IndInv'
    BY HubStepIsStep, IndInvStep DEF HubInv
  <2>2. P!SubInv'
    BY HubStepOfStreams, Assumed, P!SubInvStep DEF HubInv
  <2>3. Q!TxInv'
    BY HubStepOfJobs, Assumed, Q!TxInvStep DEF HubInv
  <2> QED
    BY <2>1, <2>2, <2>3, SeenStep DEF HubInv
<1> QED
  BY <1>1, <1>2, PTL DEF HubSpec

\* The schema's resolvers use the client as NodeClient lets them: all that is
\* proved of it holds in the hub.
THEOREM HubUsesTheClient == HubSpec => Spec
<1>1. HubInit => Init
  BY DEF HubInit
<1> QED
  BY <1>1, HubStepIsStep, HubInvHolds, PTL DEF HubSpec, Spec

\* The streams over the client behave as those of the instance.
LEMMA HubRunsStreams == HubSpec => P!SubSpec
BY HubStarts, HubStepOfStreams, HubInvHolds, PTL DEF HubSpec, P!SubSpec

\* And the jobs as those of the other.
LEMMA HubRunsJobs == HubSpec => Q!TxSpec
BY HubStarts, HubStepOfJobs, HubInvHolds, PTL DEF HubSpec, Q!TxSpec

\* Streams ImplementsStreams names are those of the proofs.
LEMMA StreamsAreTheSame == P!SubSpec => S!SubSpec
<1> USE DEF S!vars, P!vars, S!streamVars, P!streamVars, S!Current, P!Current, S!Moves, P!Moves
<1>1. P!SubInit => S!SubInit
  BY DEF S!SubInit, P!SubInit, S!Init, P!Init, S!StreamsInit, P!StreamsInit, S!Polls, P!Polls
<1>2. S!Fields = P!Fields /\ S!Items = P!Items
  BY DEF S!Fields, P!Fields, S!Items, P!Items
<1>3. \A r : /\ P!Call(r) => S!Call(r)
             /\ P!Send(r) => S!Send(r)
             /\ P!Execute(r) => S!Execute(r)
             /\ P!Succeed(r) => S!Succeed(r)
             /\ P!Fail(r) => S!Fail(r)
             /\ P!Abandon(r) => S!Abandon(r)
  BY DEF S!Call, P!Call, S!Send, P!Send, S!Execute, P!Execute, S!Succeed, P!Succeed, S!Fail,
         P!Fail, S!Abandon, P!Abandon
<1>4. ASSUME NEW s PROVE P!Poll(s) => S!Poll(s)
  <2>1. S!Together(s) = P!Together(s)
    BY <1>2 DEF S!Together, P!Together
  <2> QED
    BY <1>2, <1>3, <2>1
       DEF S!Poll, P!Poll, S!BeginPoll, P!BeginPoll, S!Subscribe, P!Subscribe, S!Ask, P!Ask,
           S!PollAgain, P!PollAgain, S!Begins, P!Begins
<1>5. \A s : /\ P!Fetch(s) => S!Fetch(s)
             /\ P!PollErrs(s) => S!PollErrs(s)
             /\ P!Pull(s) => S!Pull(s)
  BY <1>2, <1>3 DEF S!Fetch, P!Fetch, S!Fetches, P!Fetches, S!PollErrs, P!PollErrs, S!Errs,
                    P!Errs, S!Pull, P!Pull, S!NextItem, P!NextItem
<1>6. \A s : P!Cancel(s) => S!Cancel(s)
  BY <1>2, <1>3 DEF S!Cancel, P!Cancel, S!EndStream, P!EndStream
<1>7. \A g : P!Show(g) => S!Show(g)
  BY DEF S!Show, P!Show, S!ShowSnapshot, P!ShowSnapshot, S!ShowError, P!ShowError, S!Shows,
         P!Shows
<1>8. /\ \A c : P!Deliver(c) => S!Deliver(c)
      /\ \A c : P!NodeReads(c) => S!NodeReads(c)
      /\ P!NodeChanges => S!NodeChanges
  BY <1>3 DEF S!Deliver, P!Deliver, S!NodeReads, P!NodeReads, S!Read, P!Read, S!NodeChanges,
              P!NodeChanges, S!Change, P!Change
<1>9. [P!SubNext]_P!allVars => [S!SubNext]_S!allVars
  BY <1>2, <1>4, <1>5, <1>6, <1>7, <1>8
     DEF S!SubNext, P!SubNext, S!allVars, P!allVars, S!StreamStep, P!StreamStep
<1> QED
  BY <1>1, <1>9, PTL DEF P!SubSpec, S!SubSpec

\* And jobs those of the proofs.
LEMMA JobsAreTheSame == Q!TxSpec => T!TxSpec
<1> USE DEF T!vars, Q!vars, T!txVars, Q!txVars, T!jobVars, Q!jobVars, T!ledgerVars,
            Q!ledgerVars, T!TxCalls, Q!TxCalls, T!Submissions, Q!Submissions,
            T!NextNonce, Q!NextNonce
<1>1. Q!TxInit => T!TxInit
  BY DEF T!TxInit, Q!TxInit, T!Init, Q!Init, T!JobsInit, Q!JobsInit, T!Absent, Q!Absent
<1>2. \A t : T!ParseCltAmount(t) = Q!ParseCltAmount(t)
  BY DEF T!ParseCltAmount, Q!ParseCltAmount, T!ParseU64, Q!ParseU64
<1>3. \A m : T!Number(m) = Q!Number(m) /\ T!Decimal(m) = Q!Decimal(m) /\ T!Absent = Q!Absent
  BY DEF T!Number, Q!Number, T!Decimal, Q!Decimal, T!Absent, Q!Absent
<1>4. \A a : T!WalletReads(a) = Q!WalletReads(a)
  BY DEF T!WalletReads, Q!WalletReads, T!JsNumbers, Q!JsNumbers, T!Distance, Q!Distance
<1>5. \A r : /\ Q!Call(r) => T!Call(r)
             /\ Q!Send(r) => T!Send(r)
             /\ Q!Execute(r) => T!Execute(r)
             /\ Q!Succeed(r) => T!Succeed(r)
             /\ Q!Fail(r) => T!Fail(r)
             /\ Q!Abandon(r) => T!Abandon(r)
  BY DEF T!Call, Q!Call, T!Send, Q!Send, T!Execute, Q!Execute, T!Succeed, Q!Succeed,
         T!Fail, Q!Fail, T!Abandon, Q!Abandon
<1>6. ASSUME NEW j PROVE Q!JobStep(j) => T!JobStep(j)
  <2>1. \A what, json : Q!ReadNonce(j, what, json) => T!ReadNonce(j, what, json)
    BY DEF T!ReadNonce, Q!ReadNonce
  <2>2. \A u, tx, m : Q!Enters(u, tx, m) => T!Enters(u, tx, m)
    BY DEF T!Enters, Q!Enters
  <2>3. Q!CreateUnsigned(j) => T!CreateUnsigned(j)
    BY <1>2, <1>3, <2>1
       DEF T!CreateUnsigned, Q!CreateUnsigned, T!CreateUnsignedRideRequest,
           Q!CreateUnsignedRideRequest, T!CreateUnsignedRideOffer,
           Q!CreateUnsignedRideOffer, T!CreateUnsignedRidePay, Q!CreateUnsignedRidePay,
           T!CreateUnsignedRideAcceptance, Q!CreateUnsignedRideAcceptance,
           T!CreateUnsignedRideCancel, Q!CreateUnsignedRideCancel,
           T!CreateUnsignedRideRequestCancel, Q!CreateUnsignedRideRequestCancel,
           T!CreateUnsignedBurn, Q!CreateUnsignedBurn
  <2>4. /\ Q!AmountRefused(j) => T!AmountRefused(j)
        /\ Q!Built(j) => T!Built(j)
        /\ Q!BuildFails(j) => T!BuildFails(j)
        /\ Q!SendRawTransaction(j) => T!SendRawTransaction(j)
        /\ Q!AnswersNonce(j) => T!AnswersNonce(j)
    BY <1>2, <1>3 DEF T!AmountRefused, Q!AmountRefused, T!Built, Q!Built, T!BuildFails,
           Q!BuildFails, T!SendRawTransaction, Q!SendRawTransaction, T!AnswersNonce,
           Q!AnswersNonce
  <2>5. \A k : /\ Q!Applies(j, k) => T!Applies(j, k)
               /\ Q!Refuses(j, k) => T!Refuses(j, k)
    BY <1>4, <2>2 DEF T!Applies, Q!Applies, T!Refuses, Q!Refuses
  <2> QED
    BY <1>5, <2>3, <2>4, <2>5
       DEF T!JobStep, Q!JobStep, T!Build, Q!Build, T!BuildRefused, Q!BuildRefused,
           T!NonceRead, Q!NonceRead, T!NonceReadFails, Q!NonceReadFails, T!Submit,
           Q!Submit, T!NodeAnswersNonce, Q!NodeAnswersNonce, T!NodeApplies,
           Q!NodeApplies, T!NodeRefuses, Q!NodeRefuses
<1>7. ASSUME NEW c PROVE Q!SubmissionStep(c) => T!SubmissionStep(c)
  BY <1>5 DEF T!SubmissionStep, Q!SubmissionStep, T!SubmitReturns, Q!SubmitReturns,
              T!SubmitErrs, Q!SubmitErrs, T!SubmitDropped, Q!SubmitDropped, T!Relayed,
              Q!Relayed, T!SubmitFails, Q!SubmitFails, T!Ends, Q!Ends
<1>8. ASSUME NEW c PROVE Q!Deliver(c) => T!Deliver(c)
  BY <1>5 DEF T!Deliver, Q!Deliver
<1>9. ASSUME NEW u PROVE Q!OthersWrite(u) => T!OthersWrite(u)
  BY DEF T!OthersWrite, Q!OthersWrite, T!ForeignTransaction, Q!ForeignTransaction,
         T!Enters, Q!Enters
<1>10. [Q!TxNext]_Q!allTxVars => [T!TxNext]_T!allTxVars
  BY <1>6, <1>7, <1>8, <1>9 DEF T!TxNext, Q!TxNext, T!allTxVars, Q!allTxVars
<1> QED
  BY <1>1, <1>10, PTL DEF Q!TxSpec, T!TxSpec

-----------------------------------------------------------------------------
\* What Subscriptions shows of streams over a client they know by its promise
\* holds over the client there is, beside any transactions: NodeRpc is all of
\* the client that the streams depend on.
THEOREM StreamsRefined == HubSpec => ImplementsStreams
BY HubRunsStreams, StreamsAreTheSame, PTL DEF ImplementsStreams

\* The same of Transactions, beside any streams.
THEOREM JobsRefined == HubSpec => ImplementsTransactions
BY HubRunsJobs, JobsAreTheSame, PTL DEF ImplementsTransactions

\* A submission that returned as applied has changed what the node holds, at the
\* moment the auxiliary variable says.
THEOREM HubTypeCorrect == HubSpec => []HubTypeOK
<1>1. HubInv => HubTypeOK
  <2> SUFFICES ASSUME HubInv PROVE HubTypeOK
    OBVIOUS
  <2>1. \A c \in Submissions : outcome[c] = "applied" => verdict[c] = "applied"
    BY DEF HubInv, Q!TxInv, Q!LedgerInv, Q!Submissions, Submissions
  <2> QED
    BY <2>1 DEF HubInv, SeenInv, HubTypeOK
<1> QED
  BY <1>1, HubInvHolds, PTL

\* A list or a balance that is fetched after a submission has returned as applied
\* has that transaction in it, on any stream and by any query, even if its poll was
\* begun before: it waited for the mutex meanwhile.
THEOREM ReadYourWrites == HubSpec => WritesAreSeen
<1>1. HubInv /\ [HubNext]_hubVars =>
        [\A s \in Subs : phase[s] = "calling" /\ phase'[s] = "fetched" =>
            \A c \in Submissions : outcome[c] = "applied" =>
               seen[Current(s)] >= wrote[c]]_phase
  <2> SUFFICES ASSUME HubInv, [HubNext]_hubVars,
                      NEW s \in Subs, phase[s] = "calling", phase'[s] = "fetched",
                      NEW c \in Submissions, outcome[c] = "applied"
               PROVE  seen[Current(s)] >= wrote[c]
    OBVIOUS
  <2>1. RunsIn(Polls)[Current(s)] = 1
    <3>1. P!SubInv /\ [P!SubNext]_P!allVars
      BY HubStepOfStreams DEF HubInv
    <3>2. P!Current(s) = Current(s)
      BY DEF P!Current, Current
    <3> QED
      BY <3>1, <3>2, Assumed, P!ListFetched
  <2>2. runs[Current(s)] = 1 /\ Current(s) \in Polls
    BY <2>1, CallsMade DEF RunsIn
  <2>3. wrote[c] <= seen[Current(s)]
    BY <2>2 DEF HubInv, SeenInv
  <2>4. wrote[c] \in Nat /\ seen[Current(s)] \in Nat
    BY <2>2 DEF HubInv, SeenInv, P!SubInv, P!Types
  <2> QED
    BY <2>3, <2>4
<1> QED
  BY <1>1, HubInvHolds, PTL DEF HubSpec, WritesAreSeen

\* Lists are fetched in the order of the states they show, transactions or not.
THEOREM HubFetchesInOrder == HubSpec => FetchedInOrder
<1>1. P!FetchedInOrder => FetchedInOrder
  BY DEF P!FetchedInOrder, FetchedInOrder, P!Current, Current
<1> QED
  BY <1>1, HubRunsStreams, Assumed, P!FetchesInOrder, PTL

\* What is shown is no older than the moment its poll was begun.
THEOREM HubFreshSnapshots == HubSpec => SnapshotIsFresh
<1>1. P!SnapshotIsFresh => SnapshotIsFresh
  BY DEF P!SnapshotIsFresh, SnapshotIsFresh
<1> QED
  BY <1>1, HubRunsStreams, Assumed, P!FreshSnapshots, PTL

\* When a submission returns as applied, its transaction is in the ledger, however
\* the calls of streams and jobs mix.
THEOREM HubAcceptedStands == HubSpec => []AcceptedIsApplied
<1>1. Q!AcceptedIsApplied => AcceptedIsApplied
  BY DEF Q!AcceptedIsApplied, AcceptedIsApplied
<1> QED
  BY <1>1, HubRunsJobs, Assumed, Q!AcceptedStands, PTL

\* The node refuses a transaction only for a race, polls between or not.
THEOREM HubRefusedForRaces == HubSpec => []RefusalsAreRaces
<1>1. Q!RefusalsAreRaces => RefusalsAreRaces
  BY DEF Q!RefusalsAreRaces, RefusalsAreRaces
<1> QED
  BY <1>1, HubRunsJobs, Assumed, Q!RefusedForRaces, PTL
=============================================================================
