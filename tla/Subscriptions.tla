---------------------------- MODULE Subscriptions ----------------------------
(***************************************************************************)
(* The subscriptions and queries over the node client: a poll is one call, *)
(* of which this module knows what NodeRpc promises and no more.           *)
(***************************************************************************)
EXTENDS NodeRpc, Streams

ASSUME PollsAreCalls == Requests = Polls

allVars == <<vars, streamVars>>

SubInit == Init /\ StreamsInit

-----------------------------------------------------------------------------
Poll(s) == BeginPoll(s) /\ Call(<<s, n[s] + 1>>)

Fetch(s) == Fetches(s) /\ Succeed(Current(s))

\* The call failed, or its result has not the right shape.
PollErrs(s) == Errs(s) /\ (Fail(Current(s)) \/ Succeed(Current(s)))

Show(g) == (ShowSnapshot(g) \/ ShowError(g)) /\ UNCHANGED vars

Pull(s) == NextItem(s) /\ UNCHANGED vars

\* Mutant: the polls run in a task of their own, which nobody aborts.
CancelStream(s) == EndStream(s) /\ UNCHANGED vars

Cancel(s) ==
    /\ EndStream(s)
    /\ IF phase[s] = "calling" THEN Abandon(Current(s)) ELSE UNCHANGED vars

\* A frame is written; the node runs it, or changes in between.
Deliver(c) == Send(c) /\ UNCHANGED streamVars
NodeReads(c) == Execute(c) /\ Read(c)
NodeChanges == Change /\ UNCHANGED vars

StreamStep(s) == Poll(s) \/ Fetch(s) \/ PollErrs(s) \/ Pull(s)

SubNext ==
    \/ \E s \in Subs : StreamStep(s) \/ Cancel(s)
    \/ \E g \in Items : Show(g)
    \/ \E c \in Requests : Deliver(c) \/ NodeReads(c)
    \/ NodeChanges

SubSpec == SubInit /\ [][SubNext]_allVars

\* A call returns in the end (NodeClient's EveryCallReturns), with an answer or
\* with an error; what was fetched is sent on; sleeps end, and sockets ask for
\* the next item.
SubFairSpec ==
    /\ SubSpec
    /\ \A s \in Subs : WF_allVars(StreamStep(s))
    /\ \A g \in Items : WF_allVars(Show(g))

-----------------------------------------------------------------------------
\* A subscription has one call in progress at most, and none once it is over:
\* polls never overlap, however slow the node is.
OneOpenPoll ==
    \A s \in Subs : \A k \in 1..MaxPolls :
        status[<<s, k>>] = "open" => phase[s] = "calling" /\ k = n[s]
=============================================================================
