---------------------------- MODULE Transactions ----------------------------
(***************************************************************************)
(* The transactions over the node client, of which this module knows what  *)
(* NodeRpc promises and no more.                                           *)
(***************************************************************************)
EXTENDS NodeRpc, TxJobs

ASSUME JobsAreCalls == Requests = TxCalls

allTxVars == <<vars, txVars>>

TxInit == Init /\ JobsInit

-----------------------------------------------------------------------------
\* A builder that parses its amount calls get_next_nonce, another one returns.
Build(j) == CreateUnsigned(j) /\ Call(<<j, 0>>)
BuildRefused(j) == AmountRefused(j) /\ UNCHANGED vars

NonceRead(j) == Built(j) /\ Succeed(<<j, 0>>)

NonceReadFails(j) ==
    /\ BuildFails(j)
    /\ Fail(<<j, 0>>) \/ Succeed(<<j, 0>>) \/ Abandon(<<j, 0>>)

Submit(j) == SendRawTransaction(j) /\ Call(<<j, tries[j] + 1>>)

\* A refusal may come as result or as error.
SubmitReturns(c) ==
    /\ Relayed(c)
    /\ Succeed(c) \/ (verdict[c] = "refused" /\ runs[c] = 1 /\ Fail(c))

SubmitErrs(c) == SubmitFails(c) /\ Fail(c)

SubmitDropped(c) == Abandon(c) /\ UNCHANGED txVars

\* A frame is written; the node runs it.
Deliver(c) == Send(c) /\ UNCHANGED txVars
NodeAnswersNonce(j) == AnswersNonce(j) /\ Execute(<<j, 0>>)
NodeApplies(j, k) == Applies(j, k) /\ Execute(<<j, k>>)
NodeRefuses(j, k) == Refuses(j, k) /\ Execute(<<j, k>>)
OthersWrite(u) == ForeignTransaction(u) /\ UNCHANGED vars

JobStep(j) ==
    \/ Build(j)
    \/ BuildRefused(j)
    \/ NonceRead(j)
    \/ NonceReadFails(j)
    \/ Submit(j)
    \/ NodeAnswersNonce(j)
    \/ \E k \in 1..MaxSubmits[j] : NodeApplies(j, k) \/ NodeRefuses(j, k)

SubmissionStep(c) == SubmitReturns(c) \/ SubmitErrs(c) \/ SubmitDropped(c)

TxNext ==
    \/ \E j \in Jobs : JobStep(j)
    \/ \E c \in Submissions : SubmissionStep(c)
    \/ \E c \in Requests : Deliver(c)
    \/ \E u \in Users : OthersWrite(u)

TxSpec == TxInit /\ [][TxNext]_allTxVars
=============================================================================
