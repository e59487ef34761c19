-------------------------- MODULE TransactionsProofs --------------------------
(***************************************************************************)
(* Transactions, proved for any number of jobs, users, submissions and     *)
(* foreign transactions, and for every amount.  A nonce that was read for  *)
(* a job lies between the next nonce when its builder was called and the   *)
(* next one now, so the node can only refuse it when it has been taken     *)
(* since; what the ledger holds of this hub stands where its nonce says.   *)
(***************************************************************************)
EXTENDS Transactions, TLAPS

RpcTypes ==
    /\ status \in [Requests -> {"idle", "open", "ok", "failed", "dropped"}]
    /\ runs \in [Requests -> {0, 1}]
    /\ sent \subseteq Requests

Types == RpcTypes /\ TxTypeOK

\* What was not begun is unknown to the node, and a submission that was run
\* has a verdict.
CallInv ==
    /\ \A j \in Jobs : step[j] = "new" =>
         status[<<j, 0>>] = "idle" /\ <<j, 0>> \notin sent /\ runs[<<j, 0>>] = 0
    /\ \A j \in Jobs : step[j] # "built" => tries[j] = 0
    /\ \A j \in Jobs : \A k \in 1..MaxSubmits[j] : k > tries[j] =>
         status[<<j, k>>] = "idle" /\ <<j, k>> \notin sent /\ runs[<<j, k>>] = 0
    /\ \A j \in Jobs : \A k \in 1..MaxSubmits[j] :
         runs[<<j, k>>] = 1 <=> verdict[<<j, k>>] # "none"

\* The nonce of a job is one its account was at since its builder was called.
NonceOf(j) ==
    /\ step[j] \in {"reading", "built"} => nextThen[j] \in 1..NextNonce(Owner[j])
    /\ step[j] = "reading" /\ runs[<<j, 0>>] = 1 =>
         read[j] \in nextThen[j]..NextNonce(Owner[j])
    /\ step[j] = "built" => nonce[j] \in nextThen[j]..NextNonce(Owner[j])
    /\ \A k \in 1..MaxSubmits[j] : verdict[<<j, k>>] = "refused" =>
         nonce[j] \in nextThen[j]..Len(ledger[Owner[j]])

NonceInv == \A j \in Jobs : NonceOf(j)

\* What the hub sent stands in the ledger where its nonce says, with an amount
\* a wallet read from it.
EntryOf(u, n) ==
    LET tx == ledger[u][n].tx
    IN  tx # Elsewhere =>
            /\ step[tx] = "built"
            /\ u = Owner[tx] /\ n = nonce[tx]
            /\ ledger[u][n].amount \in WalletReads(amount[tx])

VerdictOf(j) ==
    \A k \in 1..MaxSubmits[j] : verdict[<<j, k>>] = "applied" =>
        /\ step[j] = "built"
        /\ nonce[j] \in DOMAIN ledger[Owner[j]]
        /\ ledger[Owner[j]][nonce[j]].tx = j

LedgerInv ==
    /\ \A u \in Users : \A n \in DOMAIN ledger[u] : EntryOf(u, n)
    /\ \A j \in Jobs : VerdictOf(j)
    /\ \A c \in Submissions : outcome[c] = "applied" => verdict[c] = "applied"
    /\ \A j \in Jobs : kind[j] = "burn" => amount[j].json = "string"

TxInv == Types /\ CallInv /\ NonceInv /\ LedgerInv

-----------------------------------------------------------------------------
\* The constants, and which calls there are.
LEMMA JobFacts ==
    /\ Owner \in [Jobs -> Users]
    /\ Elsewhere \notin Jobs
    /\ Texts \in [Jobs -> SUBSET Text]
    /\ MaxSubmits \in [Jobs -> Nat] /\ MaxElsewhere \in Nat
    /\ Requests = UNION {{j} \X (0..MaxSubmits[j]) : j \in Jobs}
BY JobsAreBounded, JobsAreCalls DEF TxCalls

\* The calls of a job are its nonce read and its submissions.
LEMMA Calls ==
    /\ \A j \in Jobs : <<j, 0>> \in Requests /\ <<j, 0>> \notin Submissions
    /\ \A j \in Jobs : \A k \in 1..MaxSubmits[j] :
         <<j, k>> \in Submissions /\ <<j, k>> \in Requests
    /\ Submissions \subseteq Requests
    /\ \A c \in Submissions : \E j \in Jobs : \E k \in 1..MaxSubmits[j] : c = <<j, k>>
    /\ \A j \in Jobs : tries[j] \in Nat /\ tries[j] < MaxSubmits[j] =>
         /\ tries[j] + 1 \in 1..MaxSubmits[j]
         /\ <<j, tries[j] + 1>> \in Submissions
BY JobFacts DEF Submissions

\* A parsed amount is one the transaction can carry.
LEMMA ParsedAmounts ==
    \A t \in Text : \A n \in ParseCltAmount(t) :
        n \in 0..MaxI64 /\ Number(n) \in Amount /\ Decimal(n) \in Amount
BY AmountConstants DEF ParseCltAmount, ParseU64, Number, Decimal, Amount, Text

\* A transaction without an amount moves none.
LEMMA AbsentIsAmount == Absent \in Amount /\ WalletReads(Absent) = {0}
BY AmountConstants DEF Absent, Amount, WalletReads

\* A Number rounds no amount up past the next power of two: that is a double
\* itself, and nearer than anything above it.
LEMMA RoundingFits ==
    ASSUME NEW a \in 0..MaxI64, NEW d \in JsNumbers(a)
    PROVE  d \in 0..MaxU64
<1>1. /\ a \in Nat /\ d \in Nat /\ MaxI64 \in Nat /\ MaxU64 \in Nat
      /\ a <= MaxI64 /\ MaxI64 < MaxU64
  BY AmountConstants DEF JsNumbers
<1>2. Distance(a, d) <= Distance(a, MaxI64 + 1)
  BY AmountConstants DEF JsNumbers
<1> QED
  BY <1>1, <1>2 DEF Distance

\* So whatever a wallet makes of an amount is a u64.
LEMMA WalletsStayInU64 ==
    ASSUME NEW a \in Amount, NEW m \in WalletReads(a)
    PROVE  m \in 0..MaxU64
<1>1. a.value \in 0..MaxI64 /\ (m = a.value \/ m \in JsNumbers(a.value))
  BY DEF Amount, WalletReads
<1>2. \A v \in 0..MaxI64 : v \in 0..MaxU64
  BY AmountConstants
<1> QED
  BY <1>1, <1>2, RoundingFits

\* What a builder does up to its call, for whichever kind of transaction.
LEMMA Builders ==
    ASSUME NEW j \in Jobs, Build(j)
    PROVE  \E what \in {"fare", "burn", "plain"}, json \in Amount :
                /\ ReadNonce(j, what, json) /\ Call(<<j, 0>>)
                /\ what = "burn" => json.json = "string"
<1> USE JobFacts, ParsedAmounts
<1>0. CreateUnsigned(j) /\ Call(<<j, 0>>)
  BY DEF Build
<1>1. CASE CreateUnsignedRideRequest(j)
  BY <1>0, <1>1 DEF CreateUnsignedRideRequest
<1>2. CASE CreateUnsignedRideOffer(j)
  BY <1>0, <1>2 DEF CreateUnsignedRideOffer
<1>3. CASE CreateUnsignedRidePay(j)
  BY <1>0, <1>3 DEF CreateUnsignedRidePay
<1>4. CASE CreateUnsignedBurn(j)
  <2>1. \A n : Decimal(n).json = "string"
    BY DEF Decimal
  <2> QED
    BY <1>0, <1>4, <2>1 DEF CreateUnsignedBurn
<1>5. CASE ReadNonce(j, "plain", Absent)
  BY <1>0, <1>5, AbsentIsAmount
<1> QED
  BY <1>0, <1>1, <1>2, <1>3, <1>4, <1>5
     DEF CreateUnsigned, CreateUnsignedRideAcceptance, CreateUnsignedRideCancel,
         CreateUnsignedRideRequestCancel

-----------------------------------------------------------------------------
\* No step breaks the types.
LEMMA TypesStep == TxInv /\ [TxNext]_allTxVars => Types'
<1> SUFFICES ASSUME TxInv, [TxNext]_allTxVars PROVE Types'
  OBVIOUS
<1> USE JobFacts, Calls DEF TxInv, Types, RpcTypes, TxTypeOK, vars, txVars, jobVars,
                            ledgerVars, NextNonce
<1>0. \A u \in Users : Len(ledger[u]) \in Nat
  OBVIOUS
<1>1. ASSUME NEW j \in Jobs, NEW what \in {"fare", "burn", "plain"}, NEW json \in Amount,
             ReadNonce(j, what, json), Call(<<j, 0>>)
      PROVE  Types'
  <2>1. RpcTypes'
    BY <1>1 DEF ReadNonce, Call
  <2>2. nextThen' \in [Jobs -> Nat]
    BY <1>0, <1>1 DEF ReadNonce
  <2>3. step' \in [Jobs -> {"new", "reading", "built", "failed"}]
        /\ kind' \in [Jobs -> {"fare", "burn", "plain"}]
        /\ amount' \in [Jobs -> Amount]
    BY <1>1 DEF ReadNonce
  <2> QED
    BY <1>1, <2>1, <2>2, <2>3 DEF ReadNonce
<1>2. ASSUME NEW j \in Jobs, BuildRefused(j) PROVE Types'
  BY <1>2 DEF BuildRefused, AmountRefused
<1>3. ASSUME NEW j \in Jobs, NonceRead(j) PROVE Types'
  BY <1>3 DEF NonceRead, Built, Succeed
<1>4. ASSUME NEW j \in Jobs, NonceReadFails(j) PROVE Types'
  <2>1. RpcTypes'
    <3>1. CASE Fail(<<j, 0>>)
      BY <3>1 DEF Fail
    <3>2. CASE Succeed(<<j, 0>>)
      BY <3>2 DEF Succeed
    <3>3. CASE Abandon(<<j, 0>>)
      BY <3>3 DEF Abandon
    <3> QED
      BY <1>4, <3>1, <3>2, <3>3 DEF NonceReadFails, BuildFails
  <2>2. step' \in [Jobs -> {"new", "reading", "built", "failed"}]
        /\ kind' \in [Jobs -> {"fare", "burn", "plain"}]
        /\ amount' \in [Jobs -> Amount]
    BY <1>4, AbsentIsAmount DEF NonceReadFails, BuildFails
  <2> QED
    BY <1>4, <2>1, <2>2 DEF NonceReadFails, BuildFails
<1>5. ASSUME NEW j \in Jobs, Submit(j) PROVE Types'
  <2>1. RpcTypes'
    BY <1>5 DEF Submit, SendRawTransaction, Call
  <2>2. tries' \in [Jobs -> Nat] /\ \A i \in Jobs : tries'[i] <= MaxSubmits[i]
    BY <1>5 DEF Submit, SendRawTransaction
  <2> QED
    BY <1>5, <2>1, <2>2 DEF Submit, SendRawTransaction
<1>6. ASSUME NEW j \in Jobs, NodeAnswersNonce(j) PROVE Types'
  <2>1. read' \in [Jobs -> Nat]
    BY <1>0, <1>6 DEF NodeAnswersNonce, AnswersNonce
  <2>2. RpcTypes'
    BY <1>6 DEF NodeAnswersNonce, AnswersNonce, Execute
  <2> QED
    BY <1>6, <2>1, <2>2 DEF NodeAnswersNonce, AnswersNonce
<1>7. ASSUME NEW j \in Jobs, NEW k \in 1..MaxSubmits[j], NodeApplies(j, k) PROVE Types'
  <2>1. PICK n \in WalletReads(amount[j]) : Enters(Owner[j], j, n)
    BY <1>7 DEF NodeApplies, Applies
  <2>2. [tx |-> j, amount |-> n] \in Entry
    BY <2>1, WalletsStayInU64 DEF Entry
  <2>3. ledger' \in [Users -> Seq(Entry)]
    BY <2>1, <2>2 DEF Enters
  <2> QED
    BY <1>7, <2>3 DEF NodeApplies, Applies, Execute
<1>8. ASSUME NEW j \in Jobs, NEW k \in 1..MaxSubmits[j], NodeRefuses(j, k) PROVE Types'
  BY <1>8 DEF NodeRefuses, Refuses, Execute
<1>9. ASSUME NEW c \in Submissions, SubmitReturns(c) PROVE Types'
  <2>1. verdict[c] # "none"
    BY <1>9 DEF SubmitReturns, Relayed, Succeed, CallInv
  <2> QED
    BY <1>9, <2>1 DEF SubmitReturns, Relayed, Succeed, Fail, Ends
<1>10. ASSUME NEW c \in Submissions, SubmitErrs(c) PROVE Types'
  BY <1>10 DEF SubmitErrs, SubmitFails, Fail, Ends
<1>11. ASSUME NEW c \in Submissions, SubmitDropped(c) PROVE Types'
  BY <1>11 DEF SubmitDropped, Abandon
<1>12. ASSUME NEW c \in Requests, Deliver(c) PROVE Types'
  BY <1>12 DEF Deliver, Send
<1>13. ASSUME NEW u \in Users, OthersWrite(u) PROVE Types'
  <2>1. [tx |-> Elsewhere, amount |-> 0] \in Entry
    BY AmountConstants DEF Entry
  <2>2. ledger' \in [Users -> Seq(Entry)]
    BY <1>13, <2>1 DEF OthersWrite, ForeignTransaction, Enters
  <2> QED
    BY <1>13, <2>2 DEF OthersWrite, ForeignTransaction
<1>14. CASE UNCHANGED allTxVars
  BY <1>14 DEF allTxVars, txVars
<1> QED
  BY <1>1, <1>2, <1>3, <1>4, <1>5, <1>6, <1>7, <1>8, <1>9, <1>10, <1>11, <1>12, <1>13,
     <1>14, Builders DEF TxNext, JobStep, SubmissionStep

\* A step of one call that is begun leaves what is known of the others.
LEMMA CallKept ==
    ASSUME TxInv, NEW c \in Requests, status[c] # "idle" \/ c \in sent,
           \A j \in Jobs : step'[j] = "new" => step[j] = "new",
           \A j \in Jobs : step[j] = "built" => step'[j] = "built",
           UNCHANGED tries,
           \A d \in Requests : d # c => status'[d] = status[d] /\ runs'[d] = runs[d],
           sent' \subseteq sent \cup {c},
           \A j \in Jobs : \A k \in 1..MaxSubmits[j] :
               runs'[<<j, k>>] = 1 <=> verdict'[<<j, k>>] # "none"
    PROVE  CallInv'
<1>a. /\ \A j \in Jobs : step[j] = "new" =>
           status[<<j, 0>>] = "idle" /\ <<j, 0>> \notin sent /\ runs[<<j, 0>>] = 0
      /\ \A j \in Jobs : step[j] # "built" => tries[j] = 0
      /\ \A j \in Jobs : \A k \in 1..MaxSubmits[j] : k > tries[j] =>
           status[<<j, k>>] = "idle" /\ <<j, k>> \notin sent /\ runs[<<j, k>>] = 0
  BY DEF TxInv, CallInv
<1>b. /\ \A j \in Jobs : <<j, 0>> \in Requests
      /\ \A j \in Jobs : \A k \in 1..MaxSubmits[j] : <<j, k>> \in Requests
  BY Calls
<1>1. ASSUME NEW j \in Jobs, step'[j] = "new"
      PROVE  status'[<<j, 0>>] = "idle" /\ <<j, 0>> \notin sent' /\ runs'[<<j, 0>>] = 0
  <2>1. status[<<j, 0>>] = "idle" /\ <<j, 0>> \notin sent /\ runs[<<j, 0>>] = 0
    BY <1>a, <1>1
  <2>2. <<j, 0>> # c /\ <<j, 0>> \in Requests
    BY <1>b, <2>1
  <2> QED
    BY <2>1, <2>2
<1>2. ASSUME NEW j \in Jobs, NEW k \in 1..MaxSubmits[j], k > tries'[j]
      PROVE  status'[<<j, k>>] = "idle" /\ <<j, k>> \notin sent' /\ runs'[<<j, k>>] = 0
  <2>1. status[<<j, k>>] = "idle" /\ <<j, k>> \notin sent /\ runs[<<j, k>>] = 0
    BY <1>a, <1>2
  <2>2. <<j, k>> # c /\ <<j, k>> \in Requests
    BY <1>b, <2>1
  <2> QED
    BY <2>1, <2>2
<1>3. \A j \in Jobs : step'[j] # "built" => tries'[j] = 0
  BY <1>a
<1> QED
  BY <1>1, <1>2, <1>3 DEF CallInv

\* No step makes the node know a call that was not begun.
LEMMA CallStep == TxInv /\ [TxNext]_allTxVars => CallInv'
<1> SUFFICES ASSUME TxInv, [TxNext]_allTxVars PROVE CallInv'
  OBVIOUS
<1>a. /\ step \in [Jobs -> {"new", "reading", "built", "failed"}]
      /\ tries \in [Jobs -> Nat]
      /\ status \in [Requests -> {"idle", "open", "ok", "failed", "dropped"}]
      /\ runs \in [Requests -> {0, 1}]
      /\ verdict \in [Submissions -> {"none", "applied", "refused"}]
  BY DEF TxInv, Types, RpcTypes, TxTypeOK
<1>b. /\ \A j \in Jobs : <<j, 0>> \in Requests
      /\ \A j \in Jobs : \A k \in 1..MaxSubmits[j] :
           <<j, k>> \in Submissions /\ <<j, k>> \in Requests /\ k # 0
  BY Calls, JobFacts
<1>c. \A j \in Jobs : \A k \in 1..MaxSubmits[j] :
        runs[<<j, k>>] = 1 <=> verdict[<<j, k>>] # "none"
  BY DEF TxInv, CallInv
<1>d. /\ \A j \in Jobs : step[j] = "new" =>
           status[<<j, 0>>] = "idle" /\ <<j, 0>> \notin sent /\ runs[<<j, 0>>] = 0
      /\ \A j \in Jobs : step[j] # "built" => tries[j] = 0
      /\ \A j \in Jobs : \A k \in 1..MaxSubmits[j] : k > tries[j] =>
           status[<<j, k>>] = "idle" /\ <<j, k>> \notin sent /\ runs[<<j, k>>] = 0
  BY DEF TxInv, CallInv
<1>1. ASSUME NEW j \in Jobs, NEW what, NEW json, ReadNonce(j, what, json), Call(<<j, 0>>)
      PROVE  CallInv'
  <2>1. /\ step[j] = "new" /\ step' = [step EXCEPT ![j] = "reading"]
        /\ status' = [status EXCEPT ![<<j, 0>>] = "open"]
        /\ UNCHANGED <<sent, runs, tries, verdict>>
    BY <1>1 DEF ReadNonce, Call, ledgerVars
  <2>2. \A i \in Jobs : step'[i] = "new" => i # j /\ step[i] = "new"
    BY <1>a, <2>1
  <2>3. \A i \in Jobs : step'[i] # "built" => step[i] # "built"
    BY <1>a, <2>1
  <2>4. \A d \in Requests : d # <<j, 0>> => status'[d] = status[d]
    BY <1>a, <2>1
  <2> QED
    BY <1>b, <1>c, <1>d, <2>1, <2>2, <2>3, <2>4 DEF CallInv
<1>2. ASSUME NEW j \in Jobs, BuildRefused(j) PROVE CallInv'
  <2>1. /\ step[j] = "new" /\ step' = [step EXCEPT ![j] = "failed"]
        /\ UNCHANGED <<status, sent, runs, tries, verdict>>
    BY <1>2 DEF BuildRefused, AmountRefused, vars, ledgerVars
  <2>2. \A i \in Jobs : step'[i] = "new" => step[i] = "new"
    BY <1>a, <2>1
  <2>3. \A i \in Jobs : step'[i] # "built" => step[i] # "built"
    BY <1>a, <2>1
  <2> QED
    BY <1>c, <1>d, <2>1, <2>2, <2>3 DEF CallInv
<1>3. ASSUME NEW j \in Jobs, NonceRead(j) \/ NonceReadFails(j) PROVE CallInv'
  <2>1. /\ step[j] = "reading" /\ status[<<j, 0>>] = "open"
        /\ step' = [step EXCEPT ![j] = "built"] \/ step' = [step EXCEPT ![j] = "failed"]
        /\ \E v : status' = [status EXCEPT ![<<j, 0>>] = v]
        /\ UNCHANGED <<runs, tries, verdict>>
        /\ sent' \subseteq sent \cup {<<j, 0>>}
    BY <1>3 DEF NonceRead, Built, NonceReadFails, BuildFails, Succeed, Fail, Abandon, ledgerVars
  <2>2. \A i \in Jobs : step'[i] = "new" => step[i] = "new"
    BY <1>a, <2>1
  <2>3. \A i \in Jobs : step[i] = "built" => step'[i] = "built"
    BY <1>a, <2>1
  <2>4. \A d \in Requests : d # <<j, 0>> => status'[d] = status[d]
    BY <1>a, <2>1
  <2> QED
    BY <1>b, <1>c, <2>1, <2>2, <2>3, <2>4, CallKept
<1>4. ASSUME NEW j \in Jobs, Submit(j) PROVE CallInv'
  <2>1. /\ step[j] = "built" /\ tries[j] < MaxSubmits[j]
        /\ tries' = [tries EXCEPT ![j] = tries[j] + 1]
        /\ status' = [status EXCEPT ![<<j, tries[j] + 1>>] = "open"]
        /\ UNCHANGED <<step, sent, runs, verdict>>
    BY <1>4 DEF Submit, SendRawTransaction, Call, ledgerVars
  <2>2. \A i \in Jobs : tries[i] \in Nat /\ tries'[i] >= tries[i]
    BY <1>a, <2>1
  <2>3. tries'[j] = tries[j] + 1
    BY <1>a, <2>1
  <2>4. \A d \in Requests : d # <<j, tries[j] + 1>> => status'[d] = status[d]
    BY <1>a, <2>1
  <2>5. ASSUME NEW i \in Jobs, NEW k \in 1..MaxSubmits[i], k > tries'[i]
        PROVE  status'[<<i, k>>] = "idle" /\ <<i, k>> \notin sent' /\ runs'[<<i, k>>] = 0
    <3>1. k \in Nat /\ tries'[i] \in Nat /\ tries[i] \in Nat
      <4>1. MaxSubmits[i] \in Nat
        BY JobFacts
      <4>2. tries' \in [Jobs -> Nat]
        BY <1>a, <2>1
      <4> QED
        BY <1>a, <4>1, <4>2
    <3>2. k > tries[i]
      BY <2>2, <2>5, <3>1
    <3>3. <<i, k>> # <<j, tries[j] + 1>>
      <4>1. CASE i # j
        BY <4>1
      <4>2. CASE i = j
        <5>1. k # tries[j] + 1
          BY <2>3, <2>5, <3>1, <4>2
        <5> QED
          BY <5>1
      <4> QED
        BY <4>1, <4>2
    <3> QED
      BY <1>b, <1>d, <2>1, <2>4, <3>2, <3>3
  <2>6. \A i \in Jobs : step'[i] = "new" =>
          status'[<<i, 0>>] = "idle" /\ <<i, 0>> \notin sent' /\ runs'[<<i, 0>>] = 0
    <3>1. \A i \in Jobs : <<i, 0>> # <<j, tries[j] + 1>>
      BY <2>2
    <3> QED
      BY <1>b, <1>d, <2>1, <2>4, <3>1
  <2>7. \A i \in Jobs : step'[i] # "built" => tries'[i] = 0
    BY <1>a, <1>d, <2>1
  <2>8. \A i \in Jobs : \A k \in 1..MaxSubmits[i] :
          runs'[<<i, k>>] = 1 <=> verdict'[<<i, k>>] # "none"
    BY <1>c, <2>1
  <2> QED
    BY <2>5, <2>6, <2>7, <2>8 DEF CallInv
<1>5. ASSUME NEW j \in Jobs, NodeAnswersNonce(j) PROVE CallInv'
  <2>1. /\ <<j, 0>> \in sent
        /\ runs' = [runs EXCEPT ![<<j, 0>>] = 1]
        /\ UNCHANGED <<step, tries, status, sent, verdict>>
    BY <1>5 DEF NodeAnswersNonce, AnswersNonce, Execute, jobVars
  <2>2. \A d \in Requests : d # <<j, 0>> => runs'[d] = runs[d]
    BY <1>a, <2>1
  <2>3. \A i \in Jobs : \A k \in 1..MaxSubmits[i] : <<i, k>> # <<j, 0>>
    BY <1>b
  <2> QED
    BY <1>b, <1>c, <2>1, <2>2, <2>3, CallKept
<1>6. ASSUME NEW j \in Jobs, NEW k \in 1..MaxSubmits[j], NodeApplies(j, k) \/ NodeRefuses(j, k)
      PROVE  CallInv'
  <2>1. /\ <<j, k>> \in sent
        /\ runs' = [runs EXCEPT ![<<j, k>>] = 1]
        /\ \/ verdict' = [verdict EXCEPT ![<<j, k>>] = "applied"]
           \/ verdict' = [verdict EXCEPT ![<<j, k>>] = "refused"]
        /\ UNCHANGED <<step, tries, status, sent>>
    BY <1>6 DEF NodeApplies, Applies, NodeRefuses, Refuses, Execute, jobVars
  <2>2. \A d \in Requests : d # <<j, k>> => runs'[d] = runs[d]
    BY <1>a, <2>1
  <2>3. \A d \in Submissions : d # <<j, k>> => verdict'[d] = verdict[d]
    BY <1>a, <2>1
  <2>4. runs'[<<j, k>>] = 1 /\ verdict'[<<j, k>>] # "none"
    BY <1>a, <1>b, <2>1
  <2>5. \A i \in Jobs : \A l \in 1..MaxSubmits[i] :
          runs'[<<i, l>>] = 1 <=> verdict'[<<i, l>>] # "none"
    BY <1>b, <1>c, <2>2, <2>3, <2>4
  <2> QED
    BY <1>b, <2>1, <2>2, <2>5, CallKept
<1>7. ASSUME NEW c \in Submissions, SubmitReturns(c) \/ SubmitErrs(c) \/ SubmitDropped(c)
      PROVE  CallInv'
  <2>1. /\ status[c] = "open"
        /\ \E v : status' = [status EXCEPT ![c] = v]
        /\ UNCHANGED <<step, tries, runs, verdict>>
        /\ sent' \subseteq sent \cup {c}
    BY <1>7 DEF SubmitReturns, Relayed, SubmitErrs, SubmitFails, SubmitDropped, Succeed,
                Fail, Abandon,
                Ends, txVars, jobVars, ledgerVars
  <2>2. \A d \in Requests : d # c => status'[d] = status[d]
    BY <1>a, <2>1
  <2>3. c \in Requests
    BY Calls
  <2> QED
    BY <1>c, <2>1, <2>2, <2>3, CallKept
<1>8. ASSUME NEW c \in Requests, Deliver(c) PROVE CallInv'
  <2>1. /\ status[c] = "open" /\ sent' = sent \cup {c}
        /\ UNCHANGED <<step, tries, status, runs, verdict>>
    BY <1>8 DEF Deliver, Send, txVars, jobVars, ledgerVars
  <2> QED
    BY <1>c, <2>1, CallKept
<1>9. CASE UNCHANGED <<step, tries, status, sent, runs, verdict>>
  BY <1>c, <1>d, <1>9 DEF CallInv
<1>10. ASSUME NEW u \in Users, OthersWrite(u) PROVE CallInv'
  BY <1>9, <1>10 DEF OthersWrite, ForeignTransaction, vars, jobVars
<1>11. CASE UNCHANGED allTxVars
  BY <1>9, <1>11 DEF allTxVars, txVars, vars, jobVars, ledgerVars
<1> QED
  BY <1>1, <1>2, <1>3, <1>4, <1>5, <1>6, <1>7, <1>8, <1>10, <1>11, Builders
     DEF TxNext, JobStep, SubmissionStep

-----------------------------------------------------------------------------
\* Ledgers only grow, and what stands in them stays.
LEMMA LedgersGrow ==
    ASSUME TxInv, [TxNext]_allTxVars, NEW u \in Users
    PROVE  /\ Len(ledger[u]) \in Nat /\ Len(ledger'[u]) \in Nat
           /\ Len(ledger[u]) <= Len(ledger'[u])
           /\ \A n \in DOMAIN ledger[u] : n \in DOMAIN ledger'[u] /\ ledger'[u][n] = ledger[u][n]
<1>1. ledger \in [Users -> Seq(Entry)] /\ ledger' \in [Users -> Seq(Entry)]
  BY TypesStep DEF TxInv, Types, TxTypeOK
<1>2. ASSUME NEW v \in Users, NEW tx, NEW n, Enters(v, tx, n)
      PROVE  \/ ledger'[u] = ledger[u]
             \/ ledger'[u] = Append(ledger[u], [tx |-> tx, amount |-> n])
  BY <1>1, <1>2 DEF Enters
<1>3. \/ ledger'[u] = ledger[u]
      \/ \E tx, n : ledger'[u] = Append(ledger[u], [tx |-> tx, amount |-> n])
  <2>1. ASSUME NEW j \in Jobs, NEW k, NodeApplies(j, k)
        PROVE  \E n : Enters(Owner[j], j, n)
    BY <2>1 DEF NodeApplies, Applies
  <2>2. ledger' = ledger \/ \E v \in Users : \E tx, n : Enters(v, tx, n)
    <3>1. ASSUME NEW j \in Jobs, Build(j) PROVE ledger' = ledger
      BY <3>1, Builders DEF ReadNonce, ledgerVars
    <3> QED
      BY <2>1, <3>1, JobFacts
         DEF TxNext, JobStep, SubmissionStep, BuildRefused, AmountRefused, NonceRead, Built,
             NonceReadFails, BuildFails, Submit, SendRawTransaction,
             NodeAnswersNonce, AnswersNonce, NodeRefuses, Refuses, SubmitReturns, Relayed,
             SubmitErrs, SubmitFails, Ends, SubmitDropped,
             Deliver, OthersWrite, ForeignTransaction, ledgerVars, allTxVars, txVars
  <2> QED
    BY <1>2, <2>2
<1>4. CASE ledger'[u] = ledger[u]
  BY <1>1, <1>4
<1>5. ASSUME NEW e, ledger'[u] = Append(ledger[u], e)
      PROVE  /\ Len(ledger'[u]) = Len(ledger[u]) + 1
             /\ \A n \in 1..Len(ledger[u]) : ledger'[u][n] = ledger[u][n]
  BY <1>1, <1>5
<1>6. CASE \E tx, n : ledger'[u] = Append(ledger[u], [tx |-> tx, amount |-> n])
  <2>1. /\ Len(ledger'[u]) = Len(ledger[u]) + 1
        /\ \A n \in 1..Len(ledger[u]) : ledger'[u][n] = ledger[u][n]
    BY <1>5, <1>6
  <2>2. DOMAIN ledger[u] = 1..Len(ledger[u]) /\ DOMAIN ledger'[u] = 1..Len(ledger'[u])
        /\ Len(ledger[u]) \in Nat
    BY <1>1
  <2> QED
    BY <2>1, <2>2
<1> QED
  BY <1>3, <1>4, <1>6

\* A job that is not begun or not built has no submission with a verdict.
LEMMA NoVerdict ==
    ASSUME TxInv, NEW j \in Jobs, step[j] # "built", NEW k \in 1..MaxSubmits[j]
    PROVE  verdict[<<j, k>>] = "none" /\ <<j, k>> \notin sent
<1>1. k > tries[j]
  BY JobFacts DEF TxInv, CallInv
<1> QED
  BY <1>1 DEF TxInv, CallInv

\* The account of a job moves forward only.
LEMMA NonceGrows ==
    ASSUME TxInv, [TxNext]_allTxVars, NEW j \in Jobs
    PROVE  /\ NextNonce(Owner[j]) \in Nat \ {0} /\ NextNonce(Owner[j])' \in Nat
           /\ NextNonce(Owner[j]) <= NextNonce(Owner[j])'
           /\ Len(ledger[Owner[j]]) = NextNonce(Owner[j]) - 1
           /\ Len(ledger'[Owner[j]]) = NextNonce(Owner[j])' - 1
BY LedgersGrow, JobFacts DEF NextNonce

\* A step that does not touch job j leaves its nonce right.
LEMMA NonceKept ==
    ASSUME TxInv, [TxNext]_allTxVars, NEW j \in Jobs,
           step'[j] = step[j] \/ step'[j] = "failed",
           nextThen'[j] = nextThen[j], nonce'[j] = nonce[j],
           read'[j] = read[j], runs'[<<j, 0>>] = runs[<<j, 0>>],
           \A k \in 1..MaxSubmits[j] :
               verdict'[<<j, k>>] = "refused" => verdict[<<j, k>>] = "refused"
    PROVE  NonceOf(j)'
<1>1. NonceOf(j)
  BY DEF TxInv, NonceInv
<1>2. nextThen[j] \in Nat /\ nonce[j] \in Nat /\ read[j] \in Nat
  BY DEF TxInv, Types, TxTypeOK
<1> QED
  BY <1>1, <1>2, NonceGrows DEF NonceOf

\* No step gives a job a nonce from before its builder was called, or one the
\* account has not come to.
LEMMA NonceStep == TxInv /\ [TxNext]_allTxVars => NonceInv'
<1> SUFFICES ASSUME TxInv, [TxNext]_allTxVars, NEW i \in Jobs PROVE NonceOf(i)'
  BY DEF NonceInv
<1>a. /\ step \in [Jobs -> {"new", "reading", "built", "failed"}]
      /\ nonce \in [Jobs -> Nat] /\ nextThen \in [Jobs -> Nat] /\ read \in [Jobs -> Nat]
      /\ runs \in [Requests -> {0, 1}]
      /\ verdict \in [Submissions -> {"none", "applied", "refused"}]
  BY DEF TxInv, Types, RpcTypes, TxTypeOK
<1>b. /\ \A j \in Jobs : <<j, 0>> \in Requests /\ <<j, 0>> \notin Submissions
      /\ \A j \in Jobs : \A k \in 1..MaxSubmits[j] :
           <<j, k>> \in Submissions /\ <<j, k>> \in Requests /\ k # 0
      /\ MaxSubmits[i] \in Nat
  BY Calls, JobFacts
<1>c. NonceOf(i)
  BY DEF TxInv, NonceInv
<1>1. ASSUME NEW j \in Jobs, NEW what, NEW json, ReadNonce(j, what, json), Call(<<j, 0>>)
      PROVE  NonceOf(i)'
  <2>1. /\ step[j] = "new" /\ step' = [step EXCEPT ![j] = "reading"]
        /\ nextThen' = [nextThen EXCEPT ![j] = NextNonce(Owner[j])]
        /\ UNCHANGED <<nonce, runs, verdict, read, ledger>>
    BY <1>1 DEF ReadNonce, Call, ledgerVars
  <2>2. CASE i = j
    <3>1. runs'[<<i, 0>>] = 0 /\ \A k \in 1..MaxSubmits[i] : verdict'[<<i, k>>] = "none"
      BY <2>1, <2>2, NoVerdict DEF TxInv, CallInv
    <3>2. step'[i] = "reading" /\ nextThen'[i] = NextNonce(Owner[i])
      BY <1>a, <2>1, <2>2
    <3> QED
      BY <3>1, <3>2, NonceGrows DEF NonceOf
  <2> QED
    BY <1>a, <2>1, <2>2, NonceKept
<1>2. ASSUME NEW j \in Jobs, BuildRefused(j) PROVE NonceOf(i)'
  BY <1>2, <1>a, NonceKept DEF BuildRefused, AmountRefused, vars, ledgerVars
<1>3. ASSUME NEW j \in Jobs, NonceRead(j) PROVE NonceOf(i)'
  <2>1. /\ step[j] = "reading" /\ step' = [step EXCEPT ![j] = "built"]
        /\ nonce' = [nonce EXCEPT ![j] = read[j]] /\ runs[<<j, 0>>] = 1
        /\ UNCHANGED <<nextThen, runs, verdict, read, ledger>>
    BY <1>3 DEF NonceRead, Built, Succeed, ledgerVars
  <2>2. CASE i = j
    <3>1. \A k \in 1..MaxSubmits[i] : verdict'[<<i, k>>] = "none"
      BY <2>1, <2>2, NoVerdict
    <3>2. step'[i] = "built" /\ nonce'[i] = read[i] /\ nextThen'[i] = nextThen[i]
      BY <1>a, <2>1, <2>2
    <3>3. nextThen[i] \in 1..NextNonce(Owner[i]) /\ read[i] \in nextThen[i]..NextNonce(Owner[i])
      BY <1>c, <2>1, <2>2 DEF NonceOf
    <3> QED
      BY <1>a, <3>1, <3>2, <3>3, NonceGrows DEF NonceOf
  <2> QED
    BY <1>a, <2>1, <2>2, NonceKept
<1>4. ASSUME NEW j \in Jobs, NonceReadFails(j) PROVE NonceOf(i)'
  <2>1. /\ step' = [step EXCEPT ![j] = "failed"]
        /\ UNCHANGED <<nonce, runs, verdict, read, nextThen>>
    BY <1>4 DEF NonceReadFails, BuildFails, Succeed, Fail, Abandon, ledgerVars
  <2> QED
    BY <1>a, <2>1, NonceKept
<1>5. ASSUME NEW j \in Jobs, Submit(j) PROVE NonceOf(i)'
  BY <1>5, NonceKept DEF Submit, SendRawTransaction, Call, ledgerVars
<1>6. ASSUME NEW j \in Jobs, NodeAnswersNonce(j) PROVE NonceOf(i)'
  <2>1. /\ read' = [read EXCEPT ![j] = NextNonce(Owner[j])]
        /\ runs' = [runs EXCEPT ![<<j, 0>>] = 1]
        /\ UNCHANGED <<step, nextThen, nonce, verdict, ledger>>
    BY <1>6 DEF NodeAnswersNonce, AnswersNonce, Execute, jobVars
  <2>2. CASE i = j
    BY <1>a, <1>c, <2>1, <2>2, NonceGrows DEF NonceOf
  <2> QED
    BY <1>a, <1>b, <2>1, <2>2, NonceKept
<1>7. ASSUME NEW j \in Jobs, NEW k \in 1..MaxSubmits[j], NodeApplies(j, k) PROVE NonceOf(i)'
  <2>1. /\ runs' = [runs EXCEPT ![<<j, k>>] = 1]
        /\ verdict' = [verdict EXCEPT ![<<j, k>>] = "applied"]
        /\ UNCHANGED <<step, nextThen, nonce, read>>
    BY <1>7 DEF NodeApplies, Applies, Execute, jobVars
  <2> QED
    BY <1>a, <1>b, <2>1, NonceKept
<1>8. ASSUME NEW j \in Jobs, NEW k \in 1..MaxSubmits[j], NodeRefuses(j, k) PROVE NonceOf(i)'
  <2>1. /\ runs' = [runs EXCEPT ![<<j, k>>] = 1]
        /\ verdict' = [verdict EXCEPT ![<<j, k>>] = "refused"]
        /\ UNCHANGED <<step, nextThen, nonce, read, ledger>>
    BY <1>8 DEF NodeRefuses, Refuses, Execute, jobVars
  <2>2. CASE i = j
    <3>1. step[i] = "built" /\ nonce[i] # NextNonce(Owner[i])
      BY <1>8, <2>2, NoVerdict DEF NodeRefuses, Refuses, Execute
    <3> QED
      BY <1>a, <1>b, <1>c, <2>1, <2>2, <3>1, NonceGrows DEF NonceOf
  <2> QED
    BY <1>a, <1>b, <2>1, <2>2, NonceKept
<1>9. ASSUME NEW c \in Submissions, SubmitReturns(c) PROVE NonceOf(i)'
  BY <1>9, NonceKept DEF SubmitReturns, Relayed, Succeed, Fail, Ends, ledgerVars
<1>10. ASSUME NEW c \in Submissions, SubmitErrs(c) PROVE NonceOf(i)'
  BY <1>10, NonceKept DEF SubmitErrs, SubmitFails, Fail, Ends, ledgerVars
<1>11. ASSUME NEW c \in Submissions, SubmitDropped(c) PROVE NonceOf(i)'
  BY <1>11, NonceKept DEF SubmitDropped, Abandon, txVars, jobVars, ledgerVars
<1>12. ASSUME NEW c \in Requests, Deliver(c) PROVE NonceOf(i)'
  BY <1>12, NonceKept DEF Deliver, Send, txVars, jobVars, ledgerVars
<1>13. ASSUME NEW u \in Users, OthersWrite(u) PROVE NonceOf(i)'
  BY <1>13, NonceKept DEF OthersWrite, ForeignTransaction, vars, jobVars
<1>14. CASE UNCHANGED allTxVars
  BY <1>14, NonceKept DEF allTxVars, txVars, vars, jobVars, ledgerVars
<1> QED
  BY <1>1, <1>2, <1>3, <1>4, <1>5, <1>6, <1>7, <1>8, <1>9, <1>10, <1>11, <1>12, <1>13,
     <1>14, Builders DEF TxNext, JobStep, SubmissionStep

\* A step that leaves built transactions alone leaves the old entries right.
LEMMA EntryKept ==
    ASSUME TxInv, [TxNext]_allTxVars, NEW u \in Users, NEW n \in DOMAIN ledger[u],
           \A j \in Jobs : step[j] = "built" =>
               step'[j] = "built" /\ nonce'[j] = nonce[j] /\ amount'[j] = amount[j]
    PROVE  n \in DOMAIN ledger'[u] /\ EntryOf(u, n)'
<1>1. n \in DOMAIN ledger'[u] /\ ledger'[u][n] = ledger[u][n]
  BY LedgersGrow
<1>2. EntryOf(u, n)
  BY DEF TxInv, LedgerInv
<1>3. ledger[u][n].tx \in Jobs \cup {Elsewhere}
  <2>1. ledger[u] \in Seq(Entry)
    BY DEF TxInv, Types, TxTypeOK
  <2>2. ledger[u][n] \in Entry
    BY <2>1
  <2> QED
    BY <2>2 DEF Entry
<1> QED
  BY <1>1, <1>2, <1>3 DEF EntryOf

\* A step that accepts no submission of j leaves its entry where it is.
LEMMA VerdictKept ==
    ASSUME TxInv, [TxNext]_allTxVars, NEW j \in Jobs,
           step[j] = "built" => step'[j] = "built" /\ nonce'[j] = nonce[j],
           \A k \in 1..MaxSubmits[j] :
               verdict'[<<j, k>>] = "applied" => verdict[<<j, k>>] = "applied"
    PROVE  VerdictOf(j)'
<1>1. VerdictOf(j)
  BY DEF TxInv, LedgerInv
<1>2. Owner[j] \in Users
  BY JobFacts
<1>3. \A n \in DOMAIN ledger[Owner[j]] :
        n \in DOMAIN ledger'[Owner[j]] /\ ledger'[Owner[j]][n] = ledger[Owner[j]][n]
  BY <1>2, LedgersGrow
<1> QED
  BY <1>1, <1>3 DEF VerdictOf

\* A built transaction is never changed.
LEMMA BuiltStays ==
    ASSUME TxInv, [TxNext]_allTxVars, NEW i \in Jobs, step[i] = "built"
    PROVE  step'[i] = "built" /\ nonce'[i] = nonce[i] /\ amount'[i] = amount[i]
<1>a. /\ step \in [Jobs -> {"new", "reading", "built", "failed"}]
      /\ nonce \in [Jobs -> Nat] /\ amount \in [Jobs -> Amount]
  BY DEF TxInv, Types, TxTypeOK
<1>1. ASSUME NEW j \in Jobs, NEW what, NEW json, ReadNonce(j, what, json), Call(<<j, 0>>)
      PROVE  step'[i] = "built" /\ nonce'[i] = nonce[i] /\ amount'[i] = amount[i]
  BY <1>a, <1>1 DEF ReadNonce
<1>2. ASSUME NEW j \in Jobs, BuildRefused(j) \/ NonceRead(j) \/ NonceReadFails(j)
      PROVE  step'[i] = "built" /\ nonce'[i] = nonce[i] /\ amount'[i] = amount[i]
  BY <1>a, <1>2 DEF BuildRefused, AmountRefused, NonceRead, Built, NonceReadFails, BuildFails
<1>3. \/ \E j \in Jobs : Build(j) \/ BuildRefused(j) \/ NonceRead(j) \/ NonceReadFails(j)
      \/ UNCHANGED <<step, nonce, amount>>
  BY JobFacts
     DEF TxNext, JobStep, SubmissionStep, Submit, SendRawTransaction, NodeAnswersNonce,
         AnswersNonce, NodeApplies, Applies,
         NodeRefuses, Refuses, SubmitReturns, Relayed, SubmitErrs, SubmitFails, Ends,
         SubmitDropped, Deliver, OthersWrite, ForeignTransaction,
         jobVars, allTxVars, txVars
<1> QED
  BY <1>1, <1>2, <1>3, Builders

\* A new entry is a transaction of this hub in the place its nonce names, or a
\* foreign one.
LEMMA NewEntries ==
    ASSUME TxInv, [TxNext]_allTxVars, NEW u \in Users, NEW n \in DOMAIN ledger'[u],
           n \notin DOMAIN ledger[u]
    PROVE  EntryOf(u, n)'
<1>a. ledger \in [Users -> Seq(Entry)]
  BY DEF TxInv, Types, TxTypeOK
<1>1. ASSUME NEW v \in Users, NEW tx, NEW m, Enters(v, tx, m)
      PROVE  u = v /\ n = Len(ledger[u]) + 1 /\ ledger'[u][n] = [tx |-> tx, amount |-> m]
  <2>1. u = v /\ ledger'[u] = Append(ledger[u], [tx |-> tx, amount |-> m])
    BY <1>a, <1>1 DEF Enters
  <2>2. n \in 1..Len(ledger[u]) + 1 /\ ~(n \in 1..Len(ledger[u])) /\ Len(ledger[u]) \in Nat
    BY <1>a, <2>1
  <2> QED
    BY <1>a, <2>1, <2>2
<1>2. ASSUME NEW j \in Jobs, NEW k \in 1..MaxSubmits[j], NodeApplies(j, k)
      PROVE  EntryOf(u, n)'
  <2>1. PICK m \in WalletReads(amount[j]) : Enters(Owner[j], j, m)
    BY <1>2 DEF NodeApplies, Applies
  <2>2. u = Owner[j] /\ n = Len(ledger[u]) + 1 /\ ledger'[u][n] = [tx |-> j, amount |-> m]
    BY <1>1, <2>1, JobFacts
  <2>3. nonce[j] = n /\ UNCHANGED <<step, nonce, amount>>
    BY <1>2, <2>2 DEF NodeApplies, Applies, NextNonce, jobVars
  <2>4. step[j] = "built"
    BY <1>2, NoVerdict DEF NodeApplies, Applies, Execute
  <2> QED
    BY <2>1, <2>2, <2>3, <2>4 DEF EntryOf
<1>3. ASSUME NEW v \in Users, OthersWrite(v) PROVE EntryOf(u, n)'
  <2>1. ledger'[u][n] = [tx |-> Elsewhere, amount |-> 0]
    BY <1>1, <1>3 DEF OthersWrite, ForeignTransaction
  <2> QED
    BY <2>1 DEF EntryOf
<1>4. \/ \E j \in Jobs : \E k \in 1..MaxSubmits[j] : NodeApplies(j, k)
      \/ \E v \in Users : OthersWrite(v)
      \/ ledger' = ledger
  <2>1. ASSUME NEW j \in Jobs, Build(j) PROVE ledger' = ledger
    BY <2>1, Builders DEF ReadNonce, ledgerVars
  <2> QED
    BY <2>1
       DEF TxNext, JobStep, SubmissionStep, BuildRefused, AmountRefused, NonceRead, Built,
           NonceReadFails, BuildFails, Submit, SendRawTransaction,
           NodeAnswersNonce, AnswersNonce, NodeRefuses, Refuses, SubmitReturns, Relayed,
           SubmitErrs, SubmitFails, Ends, SubmitDropped,
           Deliver, ledgerVars, allTxVars, txVars
<1> QED
  BY <1>2, <1>3, <1>4

\* Every step leaves every transaction of this hub where its nonce says.
LEMMA EntryStep ==
    ASSUME TxInv, [TxNext]_allTxVars, NEW u \in Users, NEW n \in DOMAIN ledger'[u]
    PROVE  EntryOf(u, n)'
BY BuiltStays, EntryKept, NewEntries

\* A verdict is given once.
LEMMA VerdictStays ==
    ASSUME TxInv, [TxNext]_allTxVars, NEW c \in Submissions, verdict[c] # "none"
    PROVE  verdict'[c] = verdict[c]
<1>a. verdict \in [Submissions -> {"none", "applied", "refused"}]
  BY DEF TxInv, Types, TxTypeOK
<1>1. ASSUME NEW j \in Jobs, NEW k \in 1..MaxSubmits[j], NodeApplies(j, k) \/ NodeRefuses(j, k)
      PROVE  verdict'[c] = verdict[c]
  <2>1. verdict[<<j, k>>] = "none"
    BY <1>1 DEF NodeApplies, Applies, NodeRefuses, Refuses, Execute, TxInv, CallInv
  <2> QED
    BY <1>a, <1>1, <2>1 DEF NodeApplies, Applies, NodeRefuses, Refuses
<1>2. \/ \E j \in Jobs : \E k \in 1..MaxSubmits[j] : NodeApplies(j, k) \/ NodeRefuses(j, k)
      \/ verdict' = verdict
  <2>1. ASSUME NEW j \in Jobs, Build(j) PROVE verdict' = verdict
    BY <2>1, Builders DEF ReadNonce, ledgerVars
  <2> QED
    BY <2>1
       DEF TxNext, JobStep, SubmissionStep, BuildRefused, AmountRefused, NonceRead, Built,
           NonceReadFails, BuildFails, Submit, SendRawTransaction,
           NodeAnswersNonce, AnswersNonce, SubmitReturns, Relayed, SubmitErrs, SubmitFails,
           Ends, SubmitDropped, Deliver,
           OthersWrite, ForeignTransaction, ledgerVars, allTxVars, txVars
<1> QED
  BY <1>1, <1>2

\* A submission the node applies is in the ledger.
LEMMA VerdictStep ==
    ASSUME TxInv, [TxNext]_allTxVars, NEW i \in Jobs
    PROVE  VerdictOf(i)'
<1>a. verdict \in [Submissions -> {"none", "applied", "refused"}]
      /\ ledger \in [Users -> Seq(Entry)]
  BY DEF TxInv, Types, TxTypeOK
<1>b. step[i] = "built" => step'[i] = "built" /\ nonce'[i] = nonce[i]
  BY BuiltStays
<1>c. \A j \in Jobs : \A k \in 1..MaxSubmits[j] : <<j, k>> \in Submissions
  BY Calls
<1>1. ASSUME NEW j \in Jobs, NEW k \in 1..MaxSubmits[j], NodeApplies(j, k)
      PROVE  VerdictOf(i)'
  <2>1. /\ nonce[j] = Len(ledger[Owner[j]]) + 1 /\ nonce' = nonce /\ step' = step
        /\ verdict' = [verdict EXCEPT ![<<j, k>>] = "applied"]
    BY <1>1 DEF NodeApplies, Applies, NextNonce, jobVars
  <2>2. CASE i = j
    <3>1. PICK m : Enters(Owner[j], j, m)
      BY <1>1 DEF NodeApplies, Applies
    <3>2. ledger'[Owner[j]] = Append(ledger[Owner[j]], [tx |-> j, amount |-> m])
          /\ ledger[Owner[j]] \in Seq(Entry)
      BY <1>a, <3>1, JobFacts DEF Enters
    <3>3. nonce[j] \in DOMAIN ledger'[Owner[j]] /\ ledger'[Owner[j]][nonce[j]].tx = j
      BY <2>1, <3>2
    <3>4. step[j] = "built"
      BY <1>1, NoVerdict DEF NodeApplies, Applies, Execute
    <3> QED
      BY <2>1, <2>2, <3>3, <3>4 DEF VerdictOf
  <2>3. CASE i # j
    <3>1. \A l \in 1..MaxSubmits[i] : verdict'[<<i, l>>] = verdict[<<i, l>>]
      BY <1>a, <1>c, <2>1, <2>3
    <3> QED
      BY <1>b, <3>1, VerdictKept
  <2> QED
    BY <2>2, <2>3
<1>2. ASSUME NEW j \in Jobs, NEW k \in 1..MaxSubmits[j], NodeRefuses(j, k)
      PROVE  VerdictOf(i)'
  <2>1. verdict' = [verdict EXCEPT ![<<j, k>>] = "refused"]
    BY <1>2 DEF NodeRefuses, Refuses
  <2>2. \A l \in 1..MaxSubmits[i] :
          verdict'[<<i, l>>] = "applied" => verdict[<<i, l>>] = "applied"
    BY <1>a, <1>c, <2>1
  <2> QED
    BY <1>b, <2>2, VerdictKept
<1>3. CASE verdict' = verdict
  BY <1>b, <1>3, VerdictKept
<1>4. \/ \E j \in Jobs : \E k \in 1..MaxSubmits[j] : NodeApplies(j, k) \/ NodeRefuses(j, k)
      \/ verdict' = verdict
  <2>1. ASSUME NEW j \in Jobs, Build(j) PROVE verdict' = verdict
    BY <2>1, Builders DEF ReadNonce, ledgerVars
  <2> QED
    BY <2>1
       DEF TxNext, JobStep, SubmissionStep, BuildRefused, AmountRefused, NonceRead, Built,
           NonceReadFails, BuildFails, Submit, SendRawTransaction,
           NodeAnswersNonce, AnswersNonce, SubmitReturns, Relayed, SubmitErrs, SubmitFails,
           Ends, SubmitDropped, Deliver,
           OthersWrite, ForeignTransaction, ledgerVars, allTxVars, txVars
<1> QED
  BY <1>1, <1>2, <1>3, <1>4

\* What a submission returns is what the node decided.
LEMMA OutcomeStep ==
    ASSUME TxInv, [TxNext]_allTxVars, NEW c \in Submissions, outcome'[c] = "applied"
    PROVE  verdict'[c] = "applied"
<1>a. outcome \in [Submissions -> {"nothing", "applied", "refused", "error"}]
  BY DEF TxInv, Types, TxTypeOK
<1>b. outcome[c] = "applied" => verdict[c] = "applied"
  BY DEF TxInv, LedgerInv
<1>1. ASSUME NEW d \in Submissions, SubmitReturns(d) PROVE verdict'[c] = "applied"
  BY <1>a, <1>b, <1>1 DEF SubmitReturns, Relayed, Ends, ledgerVars
<1>2. ASSUME NEW d \in Submissions, SubmitErrs(d) PROVE verdict'[c] = "applied"
  BY <1>a, <1>b, <1>2 DEF SubmitErrs, SubmitFails, Ends, ledgerVars
<1>3. CASE outcome' = outcome
  BY <1>b, <1>3, VerdictStays
<1>4. (\E d \in Submissions : SubmitReturns(d) \/ SubmitErrs(d)) \/ outcome' = outcome
  <2>1. ASSUME NEW j \in Jobs, Build(j) PROVE outcome' = outcome
    BY <2>1, Builders DEF ReadNonce
  <2> QED
    BY <2>1
       DEF TxNext, JobStep, SubmissionStep, BuildRefused, AmountRefused, NonceRead, Built,
           NonceReadFails, BuildFails, Submit, SendRawTransaction,
           NodeAnswersNonce, AnswersNonce, NodeApplies, Applies, NodeRefuses, Refuses,
           SubmitDropped, Deliver,
           OthersWrite, ForeignTransaction, jobVars, allTxVars, txVars
<1> QED
  BY <1>1, <1>2, <1>3, <1>4

\* The amount of a burn is a string.
LEMMA BurnStep ==
    ASSUME TxInv, [TxNext]_allTxVars, NEW i \in Jobs, kind'[i] = "burn"
    PROVE  amount'[i].json = "string"
<1>a. kind \in [Jobs -> {"fare", "burn", "plain"}] /\ amount \in [Jobs -> Amount]
  BY DEF TxInv, Types, TxTypeOK
<1>b. kind[i] = "burn" => amount[i].json = "string"
  BY DEF TxInv, LedgerInv
<1>1. ASSUME NEW j \in Jobs, NEW what, NEW json, ReadNonce(j, what, json),
             what = "burn" => json.json = "string"
      PROVE  amount'[i].json = "string"
  BY <1>a, <1>b, <1>1 DEF ReadNonce
<1>2. ASSUME NEW j \in Jobs, NonceReadFails(j) PROVE amount'[i].json = "string"
  BY <1>a, <1>b, <1>2 DEF NonceReadFails, BuildFails
<1>3. CASE UNCHANGED <<kind, amount>>
  BY <1>b, <1>3
<1>4. (\E j \in Jobs : Build(j) \/ BuildRefused(j) \/ NonceReadFails(j)) \/ UNCHANGED <<kind,
amount>>
  BY DEF TxNext, JobStep, SubmissionStep, Submit, SendRawTransaction, NonceRead, Built,
         NodeAnswersNonce, AnswersNonce,
         NodeApplies, Applies, NodeRefuses, Refuses, SubmitReturns, Relayed, SubmitErrs,
         SubmitFails, Ends, SubmitDropped, Deliver,
         OthersWrite, ForeignTransaction, jobVars, allTxVars, txVars
<1>5. ASSUME NEW j \in Jobs, Build(j) PROVE amount'[i].json = "string"
  BY <1>1, <1>5, Builders
<1>6. ASSUME NEW j \in Jobs, BuildRefused(j) PROVE amount'[i].json = "string"
  BY <1>b, <1>6 DEF BuildRefused, AmountRefused
<1> QED
  BY <1>2, <1>3, <1>4, <1>5, <1>6

\* Entries stay in their places, and stand for verdicts.
LEMMA LedgerStep == TxInv /\ [TxNext]_allTxVars => LedgerInv'
<1> SUFFICES ASSUME TxInv, [TxNext]_allTxVars PROVE LedgerInv'
  OBVIOUS
<1>1. \A u \in Users : \A n \in DOMAIN ledger'[u] : EntryOf(u, n)'
  BY EntryStep
<1>2. \A j \in Jobs : VerdictOf(j)'
  BY VerdictStep
<1>3. \A c \in Submissions : outcome'[c] = "applied" => verdict'[c] = "applied"
  BY OutcomeStep
<1>4. \A j \in Jobs : kind'[j] = "burn" => amount'[j].json = "string"
  BY BurnStep
<1> QED
  BY <1>1, <1>2, <1>3, <1>4 DEF LedgerInv

-----------------------------------------------------------------------------
\* It holds before the first builder is called.
LEMMA TxInitInv == TxInit => TxInv
<1> SUFFICES ASSUME TxInit PROVE TxInv
  OBVIOUS
<1> USE JobFacts DEF TxInit, JobsInit, Init
<1>1. RpcTypes
  BY DEF RpcTypes
<1>2. TxTypeOK
  BY AbsentIsAmount DEF TxTypeOK
<1>3. CallInv
  <2>1. \A c \in Requests : status[c] = "idle" /\ c \notin sent /\ runs[c] = 0
    OBVIOUS
  <2>2. \A c \in Submissions : verdict[c] = "none"
    OBVIOUS
  <2>3. \A j \in Jobs : tries[j] = 0
    OBVIOUS
  <2>4. /\ \A j \in Jobs : <<j, 0>> \in Requests
        /\ \A j \in Jobs : \A k \in 1..MaxSubmits[j] :
             <<j, k>> \in Submissions /\ <<j, k>> \in Requests
    BY Calls
  <2>5. \A j \in Jobs : \A k \in 1..MaxSubmits[j] :
          runs[<<j, k>>] = 1 <=> verdict[<<j, k>>] # "none"
    <3>1. 0 # 1
      OBVIOUS
    <3> QED
      BY ONLY <2>1, <2>2, <2>4, <3>1
  <2> QED
    BY ONLY <2>1, <2>3, <2>4, <2>5 DEF CallInv
<1>4. NonceInv
  BY Calls DEF NonceInv, NonceOf
<1>5. LedgerInv
  BY Calls DEF LedgerInv, EntryOf, VerdictOf
<1> QED
  BY <1>1, <1>2, <1>3, <1>4, <1>5 DEF TxInv, Types

\* No step of the jobs, of the calls or of the node breaks the invariant.
LEMMA TxInvStep == TxInv /\ [TxNext]_allTxVars => TxInv'
BY TypesStep, CallStep, NonceStep, LedgerStep DEF TxInv

\* The inductive invariant of the transactions.
LEMMA TxInvariant == TxSpec => []TxInv
BY TxInitInv, TxInvStep, PTL DEF TxSpec

\* The variables keep their types: among them, no job is submitted more often
\* than begun, and no amount above i64::MAX gets into a transaction.
THEOREM TxTypeCorrect == TxSpec => []TxTypeOK
<1>1. TxInv => TxTypeOK
  BY DEF TxInv, Types
<1> QED
  BY <1>1, TxInvariant, PTL

\* The node refuses a transaction of the hub only for a race.
THEOREM RefusedForRaces == TxSpec => []RefusalsAreRaces
<1>1. TxInv => RefusalsAreRaces
  BY DEF TxInv, NonceInv, NonceOf, RefusalsAreRaces
<1> QED
  BY <1>1, TxInvariant, PTL

\* A submission that returned with success has its transaction in the ledger.
THEOREM AcceptedStands == TxSpec => []AcceptedIsApplied
<1>1. TxInv => AcceptedIsApplied
  BY Calls DEF TxInv, LedgerInv, VerdictOf, AcceptedIsApplied
<1> QED
  BY <1>1, TxInvariant, PTL

\* What is burnt is what the user typed, for every amount and every width.
THEOREM BurnsAreExact == TxSpec => []BurnIsExact
<1>1. TxInv => BurnIsExact
  <2> SUFFICES ASSUME TxInv, NEW e \in Applied("burn") PROVE e.amount = amount[e.tx].value
    BY DEF BurnIsExact
  <2>1. PICK u \in Users : \E n \in DOMAIN ledger[u] : e = ledger[u][n]
    BY DEF Applied
  <2>2. PICK n \in DOMAIN ledger[u] : e = ledger[u][n]
    BY <2>1
  <2>3. e.tx # Elsewhere /\ kind[e.tx] = "burn"
    BY DEF Applied
  <2>4. EntryOf(u, n)
    BY DEF TxInv, LedgerInv
  <2>5. e.tx \in Jobs
    <3>1. ledger[u] \in Seq(Entry)
      BY DEF TxInv, Types, TxTypeOK
    <3>2. e \in Entry
      BY <2>2, <3>1
    <3> QED
      BY <2>3, <3>2 DEF Entry
  <2>6. amount[e.tx].json = "string" /\ e.amount \in WalletReads(amount[e.tx])
    BY <2>2, <2>3, <2>4, <2>5 DEF TxInv, LedgerInv, EntryOf
  <2> QED
    BY <2>6 DEF WalletReads
<1> QED
  BY <1>1, TxInvariant, PTL

\* Whatever the wallet made of a fare, the hub's lists show it, to the digit.
THEOREM ListsShowEveryFare == TxSpec => []ListsAreExact
<1>1. TxInv => ListsAreExact
  <2> SUFFICES ASSUME TxInv, NEW e \in Applied("fare")
               PROVE  /\ U64AsString(Number(e.amount)) = {Decimal(e.amount)}
                      /\ U64AsString(Decimal(e.amount)) = {Decimal(e.amount)}
    BY DEF ListsAreExact
  <2>1. PICK u \in Users : \E n \in DOMAIN ledger[u] : e = ledger[u][n]
    BY DEF Applied
  <2>2. PICK n \in DOMAIN ledger[u] : e = ledger[u][n]
    BY <2>1
  <2>3. ledger[u] \in Seq(Entry)
    BY DEF TxInv, Types, TxTypeOK
  <2>4. e.amount \in 0..MaxU64
    <3>1. e \in Entry
      BY <2>2, <2>3
    <3> QED
      BY <3>1 DEF Entry
  <2>5. {e.amount} \cap (0..MaxU64) = {e.amount}
    BY <2>4
  <2> QED
    BY <2>5 DEF U64AsString, Number, Decimal
<1> QED
  BY <1>1, TxInvariant, PTL
=============================================================================
