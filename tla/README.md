# A verification of clutch-hub-api

clutch-hub-api is a GraphQL gateway in front of one clutch-node. It keeps no
database: it logs wallets in, builds unsigned transactions, relays signed ones
and mirrors lists of the node, and does all of it over a single WebSocket that
every operation shares. This directory holds TLA+ models of its core, the TLC
configurations that check them on small instances, and TLAPS proofs of the
main results for every size.

Contents: [inventory](#1-inventory), [modules](#2-modules-and-the-code),
[runs](#3-runs), [fairness](#4-fairness), [proofs](#5-proofs),
[disagreements found](#6-where-the-code-and-its-words-differ),
[not modelled](#7-what-is-not-modelled), [what is left](#8-what-is-left).

Source paths below are relative to `src/src/` (`hub/` is `src/src/hub/`).

## 1. Inventory

| Component | State it keeps | Operations | What makes it correct |
|---|---|---|---|
| Node client: `hub/clutch_node_client/` | `ws_sink` (mutex over an optional sink), `pending_requests` (mutex over id -> oneshot sender); one connection task | `send_request` and its typed wrappers; connect, read, clear, drain, reconnect | a response goes to the call it answers; every call returns; the map does not grow; a lost connection is replaced; an answer is the node's |
| Startup: `main.rs` | attempt counter | ask for the chain parameters, retry, panic | the start ends, in a known time; a healthy node is found |
| Subscriptions and queries: `hub/graphql/subscription.rs`, `query.rs`, `lists.rs` | per stream: poll counter, the call in progress | poll at once, sleep, poll again; error items; drop; a query of several fields is as many polls, shown together | polls do not overlap, lists are fetched in the order of the states they show, nothing shown is older than its poll, errors do not end a stream |
| Login: `hub/auth.rs`, `signature_keys.rs`, `graphql/handler.rs`, `AuthGuard` | none on the server; the AuthUser of an open WebSocket | `generateToken`, token validation, `connection_init` | only owners of a key act for it; what a proof gives runs out; honest wallets get in |
| Transactions: `graphql/mutation.rs`, `referrer.rs` | none; the cached `chain_id` | seven builders of unsigned transactions, `sendRawTransaction` | the nonce is one the node can take, races apart; a success is one |
| Amounts: `graphql/types.rs` | none | parse and print 64-bit amounts | no rounding, no overflow |
| Schema: `graphql/mod.rs` | none | built once | - |
| Configuration: `hub/configuration.rs` | none | load, refuse weak secrets | - |
| Remote logging: `hub/seq.rs`, `tracing.rs` | one mutex over the HTTP client | one task per event | events get out in the order of their stamps, a backlog is worked off |
| Metrics: `hub/metric.rs`; server: `hub/server.rs` | two gauges nobody sets | serve | - |

How they interact. Everything that talks to the node is a call of
`send_request`: startup, the nonce read of a transaction builder, queries,
each poll of a subscription, and each submission of a
transaction. All of them queue on the `ws_sink` mutex, whose
guard `send_request` keeps from the lock until it returns, **the wait for the
response included**. The connection task takes the same mutex twice per
connection (to install a sink and to clear it), and shares the map of pending
requests with the calls. Login touches none of this, except that the chain id
in its challenge is what startup read. Remote logging has a mutex of its own,
held across an HTTP request in the same way. The tasks run in parallel: actix
starts a worker thread per core (`hub/server.rs:47`), so nothing orders two
clients' items once their calls have freed the mutex.

What is hard: calls interleave with the reader, with the loss of the
connection, with their own timers and with their callers going away; the
notice of a loss, a late answer, the timeout and the removal from the map race
each other; the connection task depends on calls letting go of the mutex; workers
show in any order what they fetched in one; a
call that failed may still be run by the node, so a transaction that "failed"
may be applied and submitted again. PROJECT.json lists the hazards,
each at its line, with the property that covers it.

## 2. Modules and the code

```
NodeRpc            what a call of the client promises            (abstract)
 ^ implemented by
NodeClient         calls, connection task, network and node      (detailed)
 ^ extended by
TimedNodeClient    ... with a clock
 ^ extended by
Startup            ... with main's retry loop as the only caller

Streams            polling streams and queries, without their calls
Subscriptions      Streams over NodeRpc                         (abstract)
Amounts            the forms of an amount
TxJobs             builders, submissions and ledgers, without their calls
Transactions       TxJobs over NodeRpc                          (abstract)
 ^ both implemented by
Hub                Streams and TxJobs over one NodeClient       (detailed)

Auth               login, tokens, WebSocket sessions
SeqLayer           the logger's tasks and Seq

NodeClientProofs                               theorems about the client,
  TimedNodeClientProofs                        the bound on waiting,
  StartupProofs                                the bound on the start
SubscriptionsProofs, TransactionsProofs        the callers over NodeRpc
HubProofs                                      the hub, from these three
AuthProofs, SeqLayerProofs
MCNodeClient, MCTimedNodeClient, MCTransactions, MCHub, MCAuth
                                               constants for TLC
```

Definitions that start with the comment `Mutant:` are not part of a model. Each
is a plausible mistake in the definition below it; with the mistake in its
place TLC must find the property named in PROJECT.json violated.

### NodeClient (client.rs, connection.rs)

A step is the code between two await points that can really suspend.
`pending_requests` is never held across an await, so its critical sections are
single steps; `ws_sink` is, so its holder (`sink_lock`) and its FIFO queue
(`sink_queue`) are state.

| State | Code |
|---|---|
| `state[r]` | the await point of call r: `queued` at the lock (client.rs:99), `sending` (109), `waiting` (117), `expired` between the timer and the map's lock (149), or how it returned |
| `resp[r]` | what the oneshot channel holds; `disconnected` is the empty string of the drain |
| `ws_sink`, `pending_requests` | the fields of the same name |
| `loop` | the await point of `start_connection_loop`: connecting (22), installing (29), reading (37), clearing (54), draining (59), sleeping (74) |
| `link`, `outbound`, `orphaned`, `served`, `inbound`, `runs` | the network and the node: frames on the present link and left over from earlier ones, answers due and under way, and how often the node ran a call |

Each action names the lines it stands for in PROJECT.json. Some choices that
are easy to miss:

* The three mutexed removals from the map are three different actions:
  `SendFails` (the error path of `send`), `RemoveTimedOut` (after the timer)
  and the reader's `HandleIncomingMessage`. The reader may come between the
  timer and `RemoveTimedOut`; its send then goes into a dropped receiver.
* `timeout` polls the channel before its timer, so `TimeoutElapses` needs an
  empty channel.
* `DropFuture`: async-graphql drops the future of a field when the client goes
  away or a sibling field fails. A future can be dropped at each of its awaits:
  it leaves the queue or frees the mutex, and does **not** remove its id from
  the map. A frame it was writing may still get out whole.
* On a link that is already lost the transport may accept a frame (it goes
  nowhere) or refuse it.
* A lost link can leave frames behind that the node still runs
  (`orphaned`); it cannot answer them on a later link.
* `StreamErrs`: an error of tungstenite ends reading although the link works.
* The node may answer out of order, with a `result`, an `error`, neither, or
  with a text that is no JSONRPCResponse (which the reader drops), or never.

Abstracted: the contents of requests and results; the UUID (a call is its own
id, so ids are unique and the node answers ids it was sent); time. Two arms of
`send_request` cannot be reached and have no action: the "Mismatched response
ID" (the map is keyed by the same id) and a second failure to parse the same
text.

### NodeRpc

Three variables: the status of a call as its caller sees it, the frames that
may reach the node, and the runs. A call is sent at most once, run at most
once, and succeeds only after its own run; a failed call may be run later. A
call is sent only when no other sent call is still open: this is the mutex
held across the wait, seen from outside. Callers of the client are modelled
over NodeRpc first, where their own states are few, and over NodeClient in Hub.

### TimedNodeClient

One tick is 5 s: the 10 s timer is `RequestTimeout = 2`, the 5 s pause
`RetryDelay = 1`. `Tick` waits until no task of the hub can take a step
(`Urgent`): the code itself takes no time. The network and the node take as
long as they like, with one exception: a frame is taken or refused at once,
since client.rs:109 has no timeout and a transport that blocks there would hold
up everybody without any bound. `waited` and `ahead` are history variables:
how long a task has been waiting, and who was ahead of it when it began.

### Startup (main.rs)

Attempt n is call n of TimedNodeClient, and no other call exists before the
server is up. `main` is the program counter of `get_chain_info_with_retry`. The node is
`healthy` for stretches of time: then connections succeed, stay up, and every
frame gets its result within the tick. Otherwise anything goes.

### Streams, Subscriptions (subscription.rs, query.rs, lists.rs)

The six resolvers differ in the method they call and in the pause (0.5 or 1 s,
abstracted); the machine is `stream::unfold` in each: poll, yield the snapshot
or the error, sleep when the socket asks for the next item, poll again. A query
is the set of its `Fields`, resolved side by side, each by a call of its own:
its client gets the snapshots of all of them together, after the last, or an
error, and one field that errs ends the others (`Together`, `EndStream`).
Streams has this machine, and Subscriptions pairs each of its steps with the
step of the call: poll n of s is call `<<s, n>>`. What the node holds is a
number that grows with every change, and a snapshot is the number it held when
it ran the poll.

| Phase of a stream or field | Code |
|---|---|
| `off` | not subscribed, not asked |
| `calling` | in `send_request`, from the first poll to its return (subscription.rs:57) |
| `fetched`, `erred` | `send_request` has returned and freed the mutex; the list is being parsed and sent |
| `yielded` | its client has the item (58) |
| `sleeping` | the socket asked for the next one (55) |
| `cancelled` | the stream or the field was dropped |

`fetched` is a phase of its own because the guard is dropped at the end of
`send_request` (client.rs:157) and parsing, yielding and sending follow on one
of several worker threads: another call may run, be fetched and be shown in
between. So the order in which the clients of two workers get their items is
open in the model, as it is in the code. What holds, although no line says so,
is that lists are *fetched* in the order of the states they show
(`FetchedInOrder`), of all streams and queries: it follows from one call at a
time. With calls pipelined, the obvious cure for the first disagreement of
section 6, it would be lost (that is the mutant `SendAtOnce`). For what is
*shown* there is a bound from below: no item is older than the moment its poll
was begun (`SnapshotIsFresh`), so no stream goes back, and who asks after
somebody, on any worker, was shown a change is shown it too.

### TxJobs, Transactions (mutation.rs), Amounts (types.rs)

A job is one transaction on its way. TxJobs has the job and the ledgers,
Transactions pairs its steps with those of the calls. A builder parses the
amount, reads the next nonce (call `<<j, 0>>`) and returns the unsigned text; nothing
is locked between the read and the use. `SendRawTransaction` relays the signed
text (call `<<j, k>>`), again and before an answer too if the user likes. Each
of these calls can fail, be dropped, or be run after it failed. The node keeps
a ledger for each account and applies a transaction exactly when its nonce is
the account's next one; other wallets write to it too (`ForeignTransaction`). This
rule is the model's idea of the node, which is not in the repository, and no
property is listed that follows from it alone. The same goes for the meaning of
a result: that a `result` of `send_raw_transaction` says that the node has
applied the transaction, and an error with its word that it has not, is an
assumption about the node. `outcome` is what the call gave its resolver, and
`AcceptedIsApplied` says that the hub makes no success of anything else.
`nextThen`, `read` and `verdict` are history: what the nonce was when the
builder was called, what the node answered and made of a submission.

Amounts gives the operators: `ParseCltAmount` (trim, u64, at most i64::MAX),
the JSON forms `Number` and `Decimal`, `JsNumbers` (the doubles nearest to a
numeral, either of two), `WalletReads`, `U64AsString`. The widths and the set of
doubles are constants. MCTransactions has an ASSUME that compares
`ParseCltAmount` with a reference definition over all small inputs; TLC
evaluates it in the transactions runs.

### Hub (main.rs, graphql/mod.rs)

`main` makes one `Arc<ClutchNodeClient>` and the schema gives it to every
resolver. Hub is that composition: the steps of Streams and of TxJobs with the
steps of NodeClient they await. A call that returns hands over what it got and
frees the mutex in one step, the end of `send_request`, and that step has
nothing else in it: what a resolver does next, parse, yield, answer, comes later
and in any order with the steps of other workers (`Show`; the moment a user
learns of an `outcome` is not modelled at all). A poll waits behind a submission
for the same mutex, a lost link fails both, and what the node applies is what a
later poll has to show: `gen` of Streams grows when a transaction enters a
ledger, and the history variable `wrote` says at which `gen` a submission did.

`ImplementsStreams` and `ImplementsTransactions` are the refinements: Hub seen
with the calls of the streams alone is Subscriptions, seen with those of the jobs alone
Transactions. A transaction that is waited for never lets a poll do what it
could not do alone, nor the other way round.

That a list fetched after a submission has returned as applied has its
transaction (`WritesAreSeen`), whenever its poll was begun, is another promise
nobody wrote down. A poll the node ran before it applied the transaction holds the
mutex until it returns, so the call of the submission cannot return before it.
With the mutex freed before the wait (the mutant `SendFrameAndUnlock`) it can. A
list that was fetched earlier may still reach its client after the submitter has
his answer; a client that asks after it gets, by `SnapshotIsFresh`, a list with the
transaction in it.

### SeqLayer (seq.rs, tracing.rs)

Each event is a task: it asks for the logger's mutex, stamps the event, posts
it, and releases the mutex when the POST ends. Seq may hang, refuse, or store
a request after its client was told of a failure. The order in which the
runtime starts tasks is open.

### Auth (auth.rs, signature_keys.rs, mutation.rs, handler.rs)

Signatures and tokens are ideal; names are the strings that denote a wallet
(address or key). Integers go from `-Half` to `Half - 1` (2^63 in the code) and
wrap as in a release build (`Wrap`, `WrappingAbs`), because the Dockerfile builds with `--release` and
Cargo.toml does not turn overflow checks on. `GenerateToken` may be called by
anybody with any signature ever made, as often as one likes: the hub keeps no
record. The clock is read a second time for the expiry, perhaps a second later. A
WebSocket session takes its user once, in `ConnectionInit`, and keeps it until
it closes, beyond the expiry of its token.

## 3. Runs

Bounds are in the .cfg files. Times are for two workers.

| Run | Instance | Checks |
|---|---|---|
| client | 3 calls; 270 k states, 110 s | `OneInProgress`, `WaiterIsRegistered`, `DrainFindsNoWaiter`, `LeaksAreDroppedCalls`, `MapEmptyWhileDown`, `AnswersAreHonest`; `EveryCallReturns`, `SinkIsRestored`; `ImplementsRpc` (refinement of NodeRpc) |
| client_timed | 3 calls, symmetric; 1.2 M states, 50 s | `BoundedWait` |
| client_loss | as client_timed | `LossIsNotified` is violated (see 6) |
| startup | 2 attempts; 42 k states, 10 s | `StartupIsBounded`, `HealthyNodeIsFound`, `StartupEnds` |
| startup_minute | 3 attempts | `GivesUpWithinAMinute` is violated (see 6) |
| subscriptions | 1 stream of 2 polls and 1 query of 2 fields, 1 change; 514 k states, 140 s | `OneOpenPoll`, `FetchedInOrder`, `SnapshotIsFresh`, `StreamGoesOn` |
| auth | 2 wallets, 3 names, 2 chains, 7 seconds, 2 signatures; 644 k states, 65 s | `OwnersOnly`, `WindowIsExact`, `ProofsRunOut`, `HonestLoginWorks` |
| auth_window | 1 signature, 3 seconds, every timestamp | `WindowHolds` is violated (see 6) |
| transactions | 2 transactions of one user, 2 + 1 submissions, 1 foreign transaction; 683 k states, 65 s | `RefusalsAreRaces`, `AcceptedIsApplied`, `BurnIsExact`, `ListsAreExact` |
| transactions_fare | as transactions | `FareIsExact` is violated (see 6) |
| hub | 1 stream of one poll and 1 transaction submitted once, 1 foreign transaction, the full client; 366 k states, 160 s | `WritesAreSeen`, `StreamGoesOn`; `ImplementsStreams`, `ImplementsTransactions` (refinements) |
| seq | 3 events, 2 ticks; 16 k states, 2 s | `AcknowledgedInOrder`, `BacklogDrains` |

Each passing run has one type invariant besides.

Why the bounds are enough. The calls of NodeClient are one-shot and the
connection may come and go without end, so the client runs have no bound but
the number of calls. A race between calls needs one that holds the mutex, one
that was dropped or timed out and is still in the map or in the node's hands,
and one that waits: three; the proofs cover every number. The timed run needs a
silent holder, a call in the queue and the connection task between them, three
calls again. Startup with two attempts has a first and a last one; the bound of
`HealthyNodeIsFound` is exact, a tick less is violated. In subscriptions the
query is the second client and its two fields can fail, be dropped and wait for
each other; two polls of the stream are one that was given up and is run late and
one after it, and one change makes two lists differ. Two transactions of one user take the
same nonce, and one of them twice submitted meets itself at the node. In hub
three calls are a nonce read, a submission and the poll that meets either of
them at the mutex, at the node or on the lost link; the theorems of HubProofs
have no bound. Amounts of four bits and Numbers of two have a value on each side of every limit
(5 and 7 for 2^53 + 1 and i64::MAX, 8 and 16 above i64 and u64). In Auth the
window is 1 s, the lifetime 2 s and the leeway 1 s within 7 s, so that a token
is issued at both ends of the window and dies before the clock stops;
timestamps of 5 bits have the extreme values of 64, and a wallet may use one at
the far end. Three events are one that
posts and two that compete.

## 4. Fairness

`FairSpec` of NodeClient assumes what the runtime and the timers give, and
nothing of the node or of callers:

* weak fairness of each call's own steps and of the connection task's: tokio
  polls a task that was woken, its mutexes are FIFO, a `timeout` and a `sleep`
  elapse, and the transport takes or refuses a frame in the end. The last is
  TCP's word, not the code's: neither `ws_sink.send` nor `connect_async` has a
  timeout;
* strong fairness of `ConnectOk`: of infinitely many attempts to connect one
  succeeds. `SinkIsRestored` needs it, `EveryCallReturns` does not;
* none for `StreamErrs`, for `DropFuture`, for the node's answers.

`StartupFairSpec` adds that time passes and that a healthy node does what it
must. `SubFairSpec` assumes that a call returns (`EveryCallReturns`), with an
answer or an error, that sleeps end, that the socket asks for items, and that what
was fetched is sent in the end (`Show`).
`HubFairSpec` does not assume it: it has the fairness of NodeClient, for the steps of a
call and of its caller together, and the last three; that a poll returns is then
part of what `StreamGoesOn` shows.

`FairSpec` of SeqLayer has weak fairness of each task's steps, and of the end of
a POST while Seq does not hang: the HTTP client has no timeout, so nothing ends
one that does. `BacklogDrains` has the premise that Seq hangs only finitely
often.

Transactions has safety properties only: that a submission returns is
`EveryCallReturns`, and nothing promises that the node applies it.

## 5. Proofs

`tlapm` checks every theorem to its leaves. Assumptions on constants are the
named ASSUMEs (`TasksDiffer`, `TicksAreCounted`, `AttemptsAreCalls`,
`PollsAreBounded`, `PollsAreCalls`, `AuthConstants`, `AmountConstants`,
`JobsAreBounded`, `JobsAreCalls`, `CallersDiffer`, `ClockIsBounded`), which TLC
evaluates in the runs. No theorem has a hypothesis besides.

**NodeClientProofs**, for every set of calls. The properties are not inductive
by themselves; `IndInv` is `TypeOK` and three parts:

* `LockInv`: the mutex is held exactly by the call past its lock, and a holder
  implies a sink, which exists exactly while the task is reading or clearing. Hence the
  task cannot be draining while a call is in progress: it had to get the mutex
  to clear the sink.
* `MapInv`: where the id is, from the insert to the answer, in terms of the call's state and
  its channel; nobody ever gets the empty string. It needs `LockInv` for the
  drain.
* `NodeInv`: a frame not yet run belongs to a call not yet run, what was
  answered was run, and calls that never wrote a frame are unknown to the node.

The lemmas `TypeStep`, `LockStep`, `MapStep` and `NodeInvStep` prove one part
each, action by action. From `IndInv`: `TypeCorrect`, `MutualExclusion`,
`NoWaiterIsForgotten`, `DrainIsUnheard`, `OnlyDroppedCallsLeak`,
`LeaksEndWithTheConnection`, `HonestAnswers`, and `Refinement`
(`Spec => ImplementsRpc`). The refinement rests on a lemma for each kind of step
(`CallMaps`, `SendMaps`, `FailMaps`, `ReceiveMaps`, `RunMaps`, `DropMaps`: this step of
the client is that step of NodeRpc; `OthersAreUnseen`: all others are stutters),
which HubProofs uses again.

**TimedNodeClientProofs.** `ClockOnlyRestricts`: `TimedSpec => Spec`, step by
step, so all of the above holds with the clock too. `TimersAreServed`: no timer
is overdue, because time does not pass while one is due.

`WaitIsBounded` is `BoundedWait` for every number of calls and every timeout. Two
strengthenings carry it:

* `QueueInv`: the queue is FIFO, its members are exactly the tasks that wait,
  none stands in it twice, and whoever is in front of a task, or holds the
  mutex it waits for, was `ahead` of it when it asked. `Joins` and `Closes` say
  what an append and a departure from the middle (a dropped call) do to the order.
* `TimeInv`: a task has waited no longer than a timeout for each one of `ahead`
  that is gone, and what the present holder has used of its own. `Tick` can
  only happen while the holder waits for its response, so every tick is paid
  for by the holder's timer, and a holder that goes has used a timeout at most.

**StartupProofs.** The start is a run of the timed client (`StartupIsTimed`), so
the invariants of TimedNodeClientProofs hold of it. `MainInv` adds that only the present
attempt has a call in progress: its call waits for nobody. `SpentInv` bounds the clock
by the finished attempts and what the present one has used, and gives
`StartIsBounded`, for every number of attempts, timeout and pause.
`HealthyNodesAreFound` needs `FoundInv` as well: how long the node can have been
healthy in the present state. While the link is down (`DownInv`, `ClearingInv`)
that is a timeout at most, for the call stuck on the old link, and then what has
passed of the task's own pause; once it is up again (`UpInv`), what has passed of
main's pause too, after which main's call goes out on the new link and is answered.

**SubscriptionsProofs**, for any number of streams, queries and fields, polls
and changes. `PollInv` (an open call is the present poll of its stream; polls not
begun are unknown to the node), `TurnInv` (what the node ran was sent, and one
open call at most was) and `GenInv` (a list in hand was read since its poll was
begun; what was in hand or shown when the node read for the present poll is no
newer than what it read) give `NoOverlap`, `FetchesInOrder` and
`FreshSnapshots`, the latter two as action properties. `TurnInv` is where the
order between streams comes from: while a read answer is open no other call can
return one. Nothing is proved of the order in which items are shown to different
clients; there is none. `SubTypeCorrect` adds the bounds.

**TransactionsProofs**, for any number of users, transactions, submissions and
foreign transactions and all widths. `NonceInv`: a nonce that was read, built
in or refused lies between the account's next nonce when the builder was
called and the one now; ledgers only grow. `LedgerInv`: an entry of this hub
stands in its owner's ledger where its nonce says, with an amount some wallet
reads from its text. Hence `RefusedForRaces`, `AcceptedStands` and
`BurnsAreExact`.
`RoundingFits` bounds what a wallet in JavaScript makes of an amount: 2^63 is a
double itself (`AmountConstants`), so no amount of i64 is rounded past it, and
everything in a ledger is a u64. That is what `ListsShowEveryFare` needs, which is
false for lists that hold numbers to i64::MAX (the mutant `I64AsString`).

**HubProofs**, for any number of streams, queries, polls, jobs, submissions and
accounts. The proofs of Subscriptions and Transactions are instantiated with
the calls of the streams and with those of the jobs, their `status`, `sent` and
`runs` being what the refinement mapping of NodeClientProofs makes of the
client's state. `StreamCalls` and `JobCalls` say that a NodeRpc step of a call
is that step for the callers it belongs to, `StreamApart` and `JobApart` that
the other callers do not notice it, `StreamUnseen` and `JobUnseen` that nobody
notices the client's other steps. With these every action of Hub maps to one
of Subscriptions, or a stutter, and to one of Transactions, or a stutter:
`StreamsRefined`, `JobsRefined`; and `HubUsesTheClient` (`HubSpec => Spec`)
makes everything proved of the client true of the hub.

The invariant is `HubInv`: `IndInv` of the client, `SubInv` and `TxInv` of the
two instances, which every step keeps because it is one of theirs, and `SeenInv`: a
poll that was run and has not returned has read what every submission applied that
has returned. A submission that returns holds the mutex, so there is no such
poll at that moment; a step that runs a poll gives it the present. From it,
`ReadYourWrites` and `HubTypeCorrect`. `HubFetchesInOrder`, `HubFreshSnapshots`,
`HubAcceptedStands` and `HubRefusedForRaces` carry the
results over NodeRpc to the hub with its real client.

**AuthProofs**, for all wallets, names, chains, every width of integers and
every timestamp they hold. What is assumed of numbers is that clock and window
together are less than half the range (`AuthConstants`), and wrap-around is
part of what is proved. `Distances` gives what the code computes for each
position of a timestamp, and `WindowIsThat` that the check passes those in the
window and the one half the range back. Hence `WindowIsRight`;
`HonestWalletsGetIn`; and `ReplayIsBounded`, for which `CoverInv` keeps for each
token a signature that was let pass when it was issued. `OnlyOwnersAct` needs
none of it.

**SeqLayerProofs**, for any number of events. `Holder` (who posts is at the head
of the queue) and `Before` (what was acknowledged was stamped and stored before
the present post) give `StampsFollowArrivals`.

Model-checked only: the liveness properties, which are out of the prover's
reach (`EveryCallReturns`, `SinkIsRestored`, `StartupEnds`, `StreamGoesOn`,
`BacklogDrains`). Induction over data and RECURSIVE operators, out of its reach
too, are not used.

## 6. Where the code and its words differ

1. *Waiting calls are not notified of a loss* (client_loss). connection.rs:58
   says that pending requests are notified, and client.rs:121 handles the
   notice. But the task that drains the map first needs the mutex that the
   waiting call holds; when it gets it, nobody waits any more.
   `DrainFindsNoWaiter`, proved for every number of calls, is the other side of
   it: the notice is never received. The caller gets "Request timed out" up to
   10 s later, and the hub does not begin to reconnect before.
2. *"For up to a minute"* (startup_minute). main.rs:23-24 counts the pauses;
   an attempt may take 10 s of its own, and twelve of them three minutes.
   `StartupIsBounded` checks the bound that holds.
3. *The window at the far end of i64* (auth_window). In a release build the
   timestamp `now - 2^63` passes the check of auth.rs:61, since its distance wraps to
   i64::MIN, whose `abs()` is itself.
   `WindowIsExact`, proved for every width, says that it is the only one.
4. *Fares as bare numbers* (transactions_fare). types.rs:4-7 says that every
   amount crosses the wire as a decimal string, and the burn builder keeps to it
   (mutation.rs:405). The ride request, offer and payment builders write the
   fare as a JSON number up to i64::MAX (mutation.rs:131, 190, 280): a wallet
   in JavaScript signs another fare above 2^53.

A fifth needs no run: README.md:24 shows the challenge in the format without chain
id, which auth.rs:27-31 abandoned (messages of `NoChain` in Auth); a wallet that
follows it is refused.

## 7. What is not modelled

* Cryptography and encodings, beyond what Auth assumes of them; the contents of
  lists and of transactions beyond amount and nonce.
* Configuration: read once, no state; `validate_jwt_secret` is a check of one
  string against a list of cases that its unit tests repeat.
* The schema (its depth and complexity limits are async-graphql's), metrics
  (gauges nobody sets), the HTTP server, CORS and the health check.
* `AuthGuard` is not an action of its own: it reads what `ConnectionInit`, or
  over HTTP a token, gave; in Transactions the user of a job is fixed.
* When a user learns of an outcome, and in which order clients of different workers
  get what was fetched for them: the workers are parallel and nothing is promised.
* At log level debug the HTTP client of the logger emits events of its own
  through the layer; SeqLayer has the shipped level, info.
* The transport's and the runtime's internals, beyond the assumptions of
  sections 2 and 4: without them a peer that stops reading holds the mutex for
  as long as TCP does.

Known hazards without a property carry a note in PROJECT.json.

## 8. What is left

Everything that keeps state and is not listed in section 7 is modelled, and
every safety property of a passing run is proved, the two refinements of Hub
and the one of NodeClient included. Worth doing next: AuthGuard as
the guard of the builders, that is the composition of Auth and Hub with
sessions that outlive their token.
