--------------------------------- MODULE Hub ---------------------------------
(***************************************************************************)
(* The hub as it runs (src/main.rs gives one Arc<ClutchNodeClient> to the  *)
(* schema): the subscriptions and queries of Streams and the transactions  *)
(* of TxJobs over the one NodeClient, in front of one node.  Subscriptions *)
(* and Transactions have each of them over what NodeRpc promises; here a   *)
(* poll waits behind a submission for the same mutex, a lost link fails    *)
(* both, and what the node applies is what a later poll has to show.       *)
(*                                                                         *)
(* A caller's step that calls, or whose call returns to it, is one step    *)
(* with that of its call: send_request frees the mutex and hands over what *)
(* it got.  Nothing later is part of that step.  The workers of actix are  *)
(* threads (src/hub/server.rs:47): while one parses a list and sends it,   *)
(* or reports a submission, another may take the mutex, and be done first. *)
(* So Show is a step of its own, and outcome is what the call gave its     *)
(* resolver: the user learns of it at some later time, of which nothing is *)
(* said here.  The node changes when it applies a transaction, of this hub *)
(* or of other wallets.                                                    *)
(***************************************************************************)
EXTENDS NodeClient, Streams, TxJobs

ASSUME CallersDiffer == Requests = Polls \cup TxCalls /\ Subs \cap Jobs = {}

VARIABLE
    wrote              \* wrote[c]: gen when submission c had been applied, 0 before

callerVars == <<streamVars, txVars, wrote>>
hubVars == <<vars, callerVars>>

HubInit ==
    /\ Init
    /\ StreamsInit
    /\ JobsInit
    /\ wrote = [c \in Submissions |-> 0]

-----------------------------------------------------------------------------
(***************************************************************************)
(* The ways a call returns.                                                *)
(***************************************************************************)
Result(r) == ReceiveResponse(r) /\ resp[r] = "result"
NodeError(r) == ReceiveResponse(r) /\ resp[r] = "error"

Fails(r) ==
    \/ NotConnected(r)
    \/ SendFails(r)
    \/ RemoveTimedOut(r)
    \/ (ReceiveResponse(r) /\ resp[r] # "result")

-----------------------------------------------------------------------------
(***************************************************************************)
(* Subscriptions and queries.                                              *)
(***************************************************************************)
Poll(s) ==
    /\ BeginPoll(s)
    /\ Call(<<s, n[s] + 1>>)
    /\ UNCHANGED <<txVars, wrote>>

\* The call failed, or its result has not the right shape.
PollReturns(s) ==
    /\ \/ Fetches(s) /\ Result(Current(s))
       \/ Errs(s) /\ (Result(Current(s)) \/ Fails(Current(s)))
    /\ UNCHANGED <<txVars, wrote>>

Show(g) == (ShowSnapshot(g) \/ ShowError(g)) /\ UNCHANGED <<vars, txVars, wrote>>

Pull(s) == NextItem(s) /\ UNCHANGED <<vars, txVars, wrote>>

\* Mutant: the polls run in a task of their own, which nobody aborts.
CancelStream(s) == EndStream(s) /\ UNCHANGED <<vars, txVars, wrote>>

Cancel(s) ==
    /\ EndStream(s)
    /\ IF phase[s] = "calling" THEN DropFuture(Current(s)) ELSE UNCHANGED vars
    /\ UNCHANGED <<txVars, wrote>>

(***************************************************************************)
(* Transactions.                                                           *)
(***************************************************************************)
Build(j) ==
    /\ \/ CreateUnsigned(j) /\ Call(<<j, 0>>)
       \/ AmountRefused(j) /\ UNCHANGED vars
    /\ UNCHANGED <<streamVars, wrote>>

BuildReturns(j) ==
    /\ \/ Built(j) /\ Result(<<j, 0>>)
       \/ BuildFails(j) /\ (Result(<<j, 0>>) \/ Fails(<<j, 0>>))
    /\ UNCHANGED <<streamVars, wrote>>

BuildDropped(j) ==
    /\ BuildFails(j)
    /\ DropFuture(<<j, 0>>)
    /\ UNCHANGED <<streamVars, wrote>>

Submit(j) ==
    /\ SendRawTransaction(j)
    /\ Call(<<j, tries[j] + 1>>)
    /\ UNCHANGED <<streamVars, wrote>>

\* Mutant: an error of the node is taken for its word on the transaction.
SubmitBelieves(c) ==
    /\ \/ Relayed(c) /\ (Result(c) \/ NodeError(c))
       \/ SubmitFails(c) /\ Fails(c)
    /\ UNCHANGED <<streamVars, wrote>>

\* The node's word, which may be a refusal in an error; or an error of no word.
SubmitReturns(c) ==
    /\ \/ Relayed(c) /\ (Result(c) \/ (verdict[c] = "refused" /\ NodeError(c)))
       \/ SubmitFails(c) /\ Fails(c)
    /\ UNCHANGED <<streamVars, wrote>>

SubmitDropped(c) == DropFuture(c) /\ UNCHANGED callerVars

-----------------------------------------------------------------------------
(***************************************************************************)
(* The node (external) runs a call.                                        *)
(***************************************************************************)
NodeReads(c) == NodeRuns(c) /\ Read(c) /\ UNCHANGED <<txVars, wrote>>

NodeAnswersNonce(j) ==
    /\ NodeRuns(<<j, 0>>)
    /\ AnswersNonce(j)
    /\ UNCHANGED <<streamVars, wrote>>

NodeApplies(j, k) ==
    /\ NodeRuns(<<j, k>>)
    /\ Applies(j, k)
    /\ Change
    /\ wrote' = [wrote EXCEPT ![<<j, k>>] = gen']

NodeRefuses(j, k) ==
    /\ NodeRuns(<<j, k>>)
    /\ Refuses(j, k)
    /\ UNCHANGED <<streamVars, wrote>>

OthersWrite(u) == ForeignTransaction(u) /\ Change /\ UNCHANGED <<vars, wrote>>

-----------------------------------------------------------------------------
\* What a call does between its beginning and its return.
Waits(r) ==
    /\ Register(r) \/ SendFrame(r) \/ TimeoutElapses(r)
    /\ UNCHANGED callerVars

Returns(r) ==
    \/ \E s \in Subs : r = Current(s) /\ PollReturns(s)
    \/ \E j \in Jobs : r = <<j, 0>> /\ BuildReturns(j)
    \/ r \in Submissions /\ SubmitReturns(r)

CallProgress(r) == Waits(r) \/ Returns(r)

\* The client's own task, the network, and the node's answers.
ClientAndNode ==
    /\ LoopStep \/ LinkLost \/ \E r \in Requests : NodeAnswers(r)
    /\ UNCHANGED callerVars

HubNext ==
    \/ \E s \in Subs : Poll(s) \/ Pull(s) \/ Cancel(s)
    \/ \E g \in Items : Show(g)
    \/ \E j \in Jobs : Build(j) \/ BuildDropped(j) \/ Submit(j)
    \/ \E c \in Submissions : SubmitDropped(c)
    \/ \E r \in Requests : CallProgress(r)
    \/ ClientAndNode
    \/ \E c \in Polls : NodeReads(c)
    \/ \E j \in Jobs : NodeAnswersNonce(j)
    \/ \E j \in Jobs : \E k \in 1..MaxSubmits[j] : NodeApplies(j, k) \/ NodeRefuses(j, k)
    \/ \E u \in Users : OthersWrite(u)

HubSpec == HubInit /\ [][HubNext]_hubVars

\* The fairness of NodeClient; items are sent on, and sockets ask for the next.
HubFairSpec ==
    /\ HubSpec
    /\ \A r \in Requests : WF_hubVars(CallProgress(r))
    /\ WF_hubVars(LoopMustStep /\ UNCHANGED callerVars)
    /\ SF_hubVars(ConnectOk /\ UNCHANGED callerVars)
    /\ \A s \in Subs : WF_hubVars(Poll(s) \/ Pull(s))
    /\ \A g \in Items : WF_hubVars(Show(g))

-----------------------------------------------------------------------------
\* The node's word on a transaction is on what it did before: one that returned
\* as applied has changed what the node holds.
HubTypeOK ==
    /\ wrote \in [Submissions -> 0..gen]
    /\ \A c \in Submissions : outcome[c] = "applied" => wrote[c] \in 2..gen

\* A list or balance fetched after send_raw_transaction has returned that a
\* transaction was applied has that transaction in it, on any stream or query
\* and also if its poll was begun before.  So who asks after having been told is
\* shown it.  What was fetched before may still be shown afterwards.
WritesAreSeen ==
    [][\A s \in Subs : phase[s] = "calling" /\ phase'[s] = "fetched" =>
          \A c \in Submissions : outcome[c] = "applied" =>
             seen[Current(s)] >= wrote[c]]_phase

-----------------------------------------------------------------------------
(***************************************************************************)
(* Refinement: the callers get from the client what they have in           *)
(* Subscriptions and Transactions.                                         *)
(***************************************************************************)
StatusIn(calls) == [c \in calls |-> StatusOf(state[c])]
SentIn(calls) == (outbound \cup orphaned \cup HasRun) \cap calls
RunsIn(calls) == [c \in calls |-> runs[c]]

S == INSTANCE Subscriptions WITH
       Requests <- Polls, status <- StatusIn(Polls), sent <- SentIn(Polls),
       runs <- RunsIn(Polls)

T == INSTANCE Transactions WITH
       Requests <- TxCalls, status <- StatusIn(TxCalls), sent <- SentIn(TxCalls),
       runs <- RunsIn(TxCalls)

\* The streams over the real client behave as those of Subscriptions, which
\* know NodeRpc alone: transactions beside them change the node and no more.
ImplementsStreams == S!SubSpec

\* And so do the transactions, beside any streams.
ImplementsTransactions == T!TxSpec
=============================================================================
