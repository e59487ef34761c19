------------------------------- MODULE TxJobs -------------------------------
(***************************************************************************)
(* A transaction on its way (src/hub/graphql/mutation.rs): a builder reads *)
(* the next nonce of its user from the node and returns the unsigned       *)
(* transaction; the user's wallet signs it; send_raw_transaction relays    *)
(* it, once more if the user tries again.  Jobs run concurrently, those of *)
(* one user too: nothing is locked between the nonce and its use.          *)
(*                                                                         *)
(* Every call of the node is one of TxCalls: <<j, 0>> is the nonce read of *)
(* job j and <<j, k>> its k-th submission.  The node keeps a ledger for    *)
(* each account, in which a transaction takes the place its nonce names;   *)
(* wallets also write to it without this hub.  This module has the jobs    *)
(* and the ledgers alone; Transactions lets them call the client NodeRpc   *)
(* promises, Hub the client there is.                                      *)
(*                                                                         *)
(* Abstracted: the user of a job is its Owner (Auth says who that can be); *)
(* locations, hashes, the referrer and the cached chain id are the same    *)
(* text wherever they appear; a signature binds its text.                  *)
(***************************************************************************)
EXTENDS Amounts, Sequences

CONSTANTS
    Jobs,              \* transactions to be built
    Texts,             \* Texts[j]: what may be typed for the amount of j
    Users,             \* accounts
    Owner,             \* Owner[j]: the AuthUser who builds and submits j
    Elsewhere,         \* a transaction that did not come through this hub
    MaxSubmits,        \* bound: MaxSubmits[j] submissions of j
    MaxElsewhere       \* bound: places of a ledger foreign transactions may take

ASSUME JobsAreBounded ==
    /\ Owner \in [Jobs -> Users]
    /\ Elsewhere \notin Jobs
    /\ Texts \in [Jobs -> SUBSET Text]
    /\ MaxSubmits \in [Jobs -> Nat] /\ MaxElsewhere \in Nat

TxCalls == UNION {{j} \X (0..MaxSubmits[j]) : j \in Jobs}
Submissions == UNION {{j} \X (1..MaxSubmits[j]) : j \in Jobs}

VARIABLES
    step,              \* step[j]: "new", "reading", "built" or "failed"
    kind,              \* kind[j]: "fare", "burn", or "plain" if it has no amount
    amount,            \* amount[j]: its JSON value in the unsigned transaction
    nonce,             \* nonce[j]: the nonce in the unsigned transaction
    tries,             \* tries[j]: submissions begun
    outcome,           \* outcome[c]: what the resolver returned for submission c
    ledger,            \* ledger[u]: the transactions the node applied
    nextThen,          \* nextThen[j]: u's next nonce when j was begun
    read,              \* read[j]: the nonce the node answered to <<j, 0>>
    verdict            \* verdict[c]: what the node made of submission c

jobVars == <<step, kind, amount, nonce, tries, outcome>>
ledgerVars == <<ledger, read, verdict>>
txVars == <<jobVars, ledgerVars, nextThen>>

Amount == [json : {"number", "string", "absent"}, value : 0..MaxI64]
Entry == [tx : Jobs \cup {Elsewhere}, amount : 0..MaxU64]

NextNonce(u) == Len(ledger[u]) + 1

TxTypeOK ==
    /\ step \in [Jobs -> {"new", "reading", "built", "failed"}]
    /\ kind \in [Jobs -> {"fare", "burn", "plain"}]
    /\ amount \in [Jobs -> Amount]
    /\ nonce \in [Jobs -> Nat]
    /\ tries \in [Jobs -> Nat]
    /\ \A j \in Jobs : tries[j] <= MaxSubmits[j]
    /\ outcome \in [Submissions -> {"nothing", "applied", "refused", "error"}]
    /\ ledger \in [Users -> Seq(Entry)]
    /\ nextThen \in [Jobs -> Nat]
    /\ read \in [Jobs -> Nat]
    /\ verdict \in [Submissions -> {"none", "applied", "refused"}]

JobsInit ==
    /\ step = [j \in Jobs |-> "new"]
    /\ kind = [j \in Jobs |-> "plain"]
    /\ amount = [j \in Jobs |-> Absent]
    /\ nonce = [j \in Jobs |-> 0]
    /\ tries = [j \in Jobs |-> 0]
    /\ outcome = [c \in Submissions |-> "nothing"]
    /\ ledger = [u \in Users |-> <<>>]
    /\ nextThen = [j \in Jobs |-> 0]
    /\ read = [j \in Jobs |-> 0]
    /\ verdict = [c \in Submissions |-> "none"]

-----------------------------------------------------------------------------
(***************************************************************************)
(* The builders, up to the call of get_next_nonce.                         *)
(***************************************************************************)
ReadNonce(j, what, json) ==
    /\ step[j] = "new"
    /\ step' = [step EXCEPT ![j] = "reading"]
    /\ kind' = [kind EXCEPT ![j] = what]
    /\ amount' = [amount EXCEPT ![j] = json]
    /\ nextThen' = [nextThen EXCEPT ![j] = NextNonce(Owner[j])]
    /\ UNCHANGED <<nonce, tries, outcome, ledgerVars>>

CreateUnsignedRideRequest(j) ==
    \E t \in Texts[j] : \E fare \in ParseCltAmount(t) : ReadNonce(j, "fare", Number(fare))

CreateUnsignedRideOffer(j) ==
    \E t \in Texts[j] : \E fare \in ParseCltAmount(t) : ReadNonce(j, "fare", Number(fare))

CreateUnsignedRidePay(j) ==
    \E t \in Texts[j] : \E fare \in ParseCltAmount(t) :
        fare # 0 /\ ReadNonce(j, "fare", Number(fare))

CreateUnsignedRideAcceptance(j) == ReadNonce(j, "plain", Absent)
CreateUnsignedRideCancel(j) == ReadNonce(j, "plain", Absent)
CreateUnsignedRideRequestCancel(j) == ReadNonce(j, "plain", Absent)

\* Mutant: the amount is put into the transaction as the other builders do.
CreateUnsignedBurnAsNumber(j) ==
    \E t \in Texts[j] : \E n \in ParseCltAmount(t) : ReadNonce(j, "burn", Number(n))

\* Mutant: the amount is parsed without the check against i64::MAX.
CreateUnsignedBurnOfU64(j) ==
    \E t \in Texts[j] : \E n \in ParseU64(t) : ReadNonce(j, "burn", Decimal(n))

\* "Amount stays a JSON string inside the blob too."
CreateUnsignedBurn(j) ==
    \E t \in Texts[j] : \E n \in ParseCltAmount(t) : ReadNonce(j, "burn", Decimal(n))

\* An amount that does not parse, or a payment of nothing: no call is made.
AmountRefused(j) ==
    /\ step[j] = "new"
    /\ \E t \in Texts[j] : ParseCltAmount(t) \subseteq {0}
    /\ step' = [step EXCEPT ![j] = "failed"]
    /\ UNCHANGED <<kind, amount, nonce, tries, outcome, ledgerVars, nextThen>>

CreateUnsigned(j) ==
    \/ CreateUnsignedRideRequest(j)
    \/ CreateUnsignedRideOffer(j)
    \/ CreateUnsignedRidePay(j)
    \/ CreateUnsignedRideAcceptance(j)
    \/ CreateUnsignedRideCancel(j)
    \/ CreateUnsignedRideRequestCancel(j)
    \/ CreateUnsignedBurn(j)

(***************************************************************************)
(* ... and from its return to the unsigned transaction.                    *)
(***************************************************************************)
Built(j) ==
    /\ step[j] = "reading"
    /\ step' = [step EXCEPT ![j] = "built"]
    /\ nonce' = [nonce EXCEPT ![j] = read[j]]
    /\ UNCHANGED <<kind, amount, tries, outcome, ledgerVars, nextThen>>

\* Mutant: "A down/unreachable node used to fall back to nonce 1".
FallBackToOne(j) ==
    /\ step[j] = "reading"
    /\ step' = [step EXCEPT ![j] = "built"]
    /\ nonce' = [nonce EXCEPT ![j] = 1]
    /\ UNCHANGED <<kind, amount, tries, outcome, ledgerVars, nextThen>>

\* The call failed, or its result has no number in "nonce"; or the future was
\* dropped.  Nothing is left of the draft.
BuildFails(j) ==
    /\ step[j] = "reading"
    /\ step' = [step EXCEPT ![j] = "failed"]
    /\ kind' = [kind EXCEPT ![j] = "plain"]
    /\ amount' = [amount EXCEPT ![j] = Absent]
    /\ UNCHANGED <<nonce, tries, outcome, ledgerVars, nextThen>>

-----------------------------------------------------------------------------
(***************************************************************************)
(* send_raw_transaction: the signed text is relayed as it is.  The user    *)
(* may send it again at any time, before an answer too, and learns of the  *)
(* outcome some time after the resolver has returned it.                   *)
(***************************************************************************)
SendRawTransaction(j) ==
    /\ step[j] = "built"
    /\ tries[j] < MaxSubmits[j]
    /\ tries' = [tries EXCEPT ![j] = @ + 1]
    /\ UNCHANGED <<step, kind, amount, nonce, outcome, ledgerVars, nextThen>>

Ends(c, what) ==
    /\ outcome' = [outcome EXCEPT ![c] = what]
    /\ UNCHANGED <<step, kind, amount, nonce, tries, ledgerVars, nextThen>>

\* The node's word is passed on.
Relayed(c) == Ends(c, verdict[c])

\* Mutant: a timeout is taken for "the node has it".
SubmitTakenForDone(c) == Ends(c, "applied")

\* The call failed: whatever the node makes of it, the user learns no more.
SubmitFails(c) == Ends(c, "error")

-----------------------------------------------------------------------------
(***************************************************************************)
(* The node (external): it answers with the next nonce of the account, and *)
(* takes a transaction exactly when that is its nonce.                     *)
(***************************************************************************)
AnswersNonce(j) ==
    /\ read' = [read EXCEPT ![j] = NextNonce(Owner[j])]
    /\ UNCHANGED <<jobVars, ledger, verdict, nextThen>>

Enters(u, tx, n) == ledger' = [ledger EXCEPT ![u] = Append(@, [tx |-> tx, amount |-> n])]

Applies(j, k) ==
    /\ nonce[j] = NextNonce(Owner[j])
    /\ \E n \in WalletReads(amount[j]) : Enters(Owner[j], j, n)
    /\ verdict' = [verdict EXCEPT ![<<j, k>>] = "applied"]
    /\ UNCHANGED <<jobVars, read, nextThen>>

Refuses(j, k) ==
    /\ nonce[j] # NextNonce(Owner[j])
    /\ verdict' = [verdict EXCEPT ![<<j, k>>] = "refused"]
    /\ UNCHANGED <<jobVars, ledger, read, nextThen>>

\* Wallets that use another hub, or none.
ForeignTransaction(u) ==
    /\ Len(ledger[u]) < MaxElsewhere
    /\ Enters(u, Elsewhere, 0)
    /\ UNCHANGED <<jobVars, read, verdict, nextThen>>

-----------------------------------------------------------------------------
\* The node refuses a transaction only for a race: its nonce was taken after
\* its builder was called, by another transaction or by an earlier submission
\* of its own.  It is never one that was used before, and none is skipped.
RefusalsAreRaces ==
    \A j \in Jobs : \A k \in 1..MaxSubmits[j] :
        verdict[<<j, k>>] = "refused" => nonce[j] \in nextThen[j]..Len(ledger[Owner[j]])

\* When send_raw_transaction returns that a transaction was applied, it is in the
\* ledger, in the place its nonce names.
AcceptedIsApplied ==
    \A j \in Jobs : \A k \in 1..MaxSubmits[j] :
        outcome[<<j, k>>] = "applied" =>
            /\ nonce[j] \in DOMAIN ledger[Owner[j]]
            /\ ledger[Owner[j]][nonce[j]].tx = j

\* The transactions of this hub the node applied, with the amounts it applied.
Applied(what) ==
    {e \in UNION {{ledger[u][n] : n \in DOMAIN ledger[u]} : u \in Users} :
        e.tx # Elsewhere /\ kind[e.tx] = what}

\* "nothing above 2^53 is ever rounded by a JS Number on the way through"
\* (mutation.rs:405): what is burnt is what its user typed, in every wallet.
BurnIsExact == \A e \in Applied("burn") : e.amount = amount[e.tx].value

\* "hub-api's own output stays String-safe past 2^53" (types.rs:21): a list
\* shows the fare the node holds, whether it sends a number or a string, and
\* none is missing: not even one at i64::MAX, which a wallet's Number rounds up.
ListsAreExact ==
    \A e \in Applied("fare") :
        \A shape \in {Number(e.amount), Decimal(e.amount)} :
            U64AsString(shape) = {Decimal(e.amount)}

\* "every fare/amount/balance scalar crosses the wire as a decimal string"
\* (types.rs:4-7): no fare is rounded on its way from its user to the node.
FareIsExact == \A e \in Applied("fare") : e.amount = amount[e.tx].value
=============================================================================
