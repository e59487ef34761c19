------------------------------- MODULE Streams -------------------------------
(***************************************************************************)
(* The GraphQL subscriptions (src/hub/graphql/subscription.rs): six        *)
(* streams that poll the node and mirror what it answers.  They differ in  *)
(* the method they call and in the pause between two polls; the machine is *)
(* the same.  A query (src/hub/graphql/query.rs) is a request of one or    *)
(* more fields, each a call of its own, and its client gets them together  *)
(* after the last: a field is a stream of one poll.  This module has the   *)
(* streams alone, poll n of stream s being call <<s, n>>; Subscriptions    *)
(* lets them call the client NodeRpc promises, Hub the client there is.    *)
(*                                                                         *)
(* A poll is fetched when send_request returns and frees its mutex.  Its   *)
(* item is shown in a later step: the workers of actix are threads         *)
(* (src/hub/server.rs:47), and another one may take the mutex, fetch a     *)
(* newer list and show it before this one is done with parsing and sending.*)
(* stream::unfold is lazy: the next poll starts when the socket asks for   *)
(* the next item.  Cancelling a subscription drops the stream, and with it *)
(* the call in progress.  What the node holds is a number, gen, that grows *)
(* with every change; a snapshot is the gen the node had when it ran the   *)
(* poll.  Items the hub cannot parse are left out of every snapshot alike  *)
(* and are abstracted.                                                     *)
(***************************************************************************)
EXTENDS Naturals

CONSTANTS
    Subs,              \* the subscriptions, and the fields of queries
    Queries,           \* the queries: each is the set of its fields
    MaxPolls,          \* bound: polls of one subscription
    MaxGen             \* bound: changes at the node

ASSUME PollsAreBounded ==
    /\ Queries \subseteq SUBSET Subs
    /\ \A p, q \in Queries : p = q \/ p \cap q = {}
    /\ MaxPolls \in Nat /\ MaxGen \in Nat

Fields == UNION Queries

\* What a client gets at once: an item of its subscription, or all of a query.
Items == {{s} : s \in Subs \ Fields} \cup Queries

\* s and the other fields of its query.
Together(s) == UNION {g \in Items : s \in g}

Polls == Subs \X (1..MaxPolls)

VARIABLES
    phase,             \* phase[s]: where stream s is
    n,                 \* n[s]: polls begun
    gen,               \* what the node holds
    seen,              \* seen[c]: gen when the node ran c
    begun,             \* begun[s]: gen when the present poll was begun
    shown              \* shown[s]: the last snapshot its client got, 0 if none

streamVars == <<phase, n, gen, seen, begun, shown>>

Current(s) == <<s, n[s]>>

SubTypeOK ==
    /\ phase \in [Subs -> {"off", "calling", "fetched", "erred", "yielded", "sleeping", "cancelled"}]
    /\ n \in [Subs -> 0..MaxPolls]
    /\ gen \in 1..(MaxGen + 1)
    /\ seen \in [Polls -> 0..gen]
    /\ begun \in [Subs -> 0..gen]
    /\ shown \in [Subs -> 0..gen]

StreamsInit ==
    /\ phase = [s \in Subs |-> "off"]
    /\ n = [s \in Subs |-> 0]
    /\ gen = 1
    /\ seen = [c \in Polls |-> 0]
    /\ begun = [s \in Subs |-> 0]
    /\ shown = [s \in Subs |-> 0]

-----------------------------------------------------------------------------
\* Call <<s, n[s] + 1>> is made.
Begins(s) ==
    /\ n[s] < MaxPolls
    /\ n' = [n EXCEPT ![s] = @ + 1]
    /\ phase' = [phase EXCEPT ![s] = "calling"]
    /\ begun' = [begun EXCEPT ![s] = gen]
    /\ UNCHANGED <<shown, gen, seen>>

\* The first poll is made at once.
Subscribe(s) == s \notin Fields /\ phase[s] = "off" /\ Begins(s)

\* The fields of a query are resolved side by side; one that erred ends it.
Ask(f) ==
    /\ f \in Fields
    /\ phase[f] = "off"
    /\ \A t \in Together(f) : phase[t] \notin {"erred", "cancelled"}
    /\ Begins(f)

\* The others after a sleep.
PollAgain(s) == phase[s] = "sleeping" /\ Begins(s)

BeginPoll(s) == Subscribe(s) \/ Ask(s) \/ PollAgain(s)

Moves(s, from, to) ==
    /\ phase[s] = from
    /\ phase' = [phase EXCEPT ![s] = to]
    /\ UNCHANGED <<n, begun, shown, gen, seen>>

\* send_request returned the list ...
Fetches(s) == Moves(s, "calling", "fetched")

\* ... or an error, or something that is no list.
Errs(s) == Moves(s, "calling", "erred")

Shows(g, what) ==
    /\ phase' = [s \in Subs |-> IF s \in g THEN "yielded" ELSE phase[s]]
    /\ shown' = [s \in Subs |-> IF s \in g THEN what[s] ELSE shown[s]]
    /\ UNCHANGED <<n, begun, gen, seen>>

\* Mutant: a response is matched by its subscription, not by its id.
ShowAnySnapshot(g) ==
    /\ \A s \in g : phase[s] = "fetched"
    /\ \E k \in [g -> 1..MaxPolls] :
         (\A s \in g : k[s] <= n[s]) /\ Shows(g, [s \in g |-> seen[<<s, k[s]>>]])

\* The item gets to its client: a snapshot of the list, those of all fields ...
ShowSnapshot(g) ==
    /\ \A s \in g : phase[s] = "fetched"
    /\ Shows(g, [s \in g |-> seen[Current(s)]])

\* Mutant: the first error is the last item (the ? operator, say).
ShowErrorAndEnd(g) ==
    /\ \E s \in g : phase[s] = "erred"
    /\ \A s \in g : phase[s] # "calling"
    /\ phase' = [s \in Subs |-> IF s \in g THEN "ended" ELSE phase[s]]
    /\ UNCHANGED <<n, begun, shown, gen, seen>>

\* ... or an error: no field of a query may be missing from its answer.
ShowError(g) ==
    /\ \E s \in g : phase[s] = "erred"
    /\ \A s \in g : phase[s] # "calling"
    /\ Shows(g, shown)

\* The socket asks for the next item: the closure sleeps first.
NextItem(s) == s \notin Fields /\ Moves(s, "yielded", "sleeping")

\* The client unsubscribes, its socket closes, or another field has erred.  What
\* a field of a query has got already is then just never shown.
EndStream(s) ==
    /\ phase[s] = "calling" \/ (s \notin Fields /\ phase[s] \notin {"off", "cancelled"})
    /\ phase' = [phase EXCEPT ![s] = "cancelled"]
    /\ UNCHANGED <<n, begun, shown, gen, seen>>

\* The node (external): it runs a poll, and changes.
Read(c) ==
    /\ seen' = [seen EXCEPT ![c] = gen]
    /\ UNCHANGED <<phase, n, begun, shown, gen>>

Change ==
    /\ gen <= MaxGen
    /\ gen' = gen + 1
    /\ UNCHANGED <<phase, n, begun, shown, seen>>

-----------------------------------------------------------------------------
\* Lists are fetched in the order of the states they show, for all clients: the
\* one that is fetched now is no older than any that is in hand, or that was
\* shown, even when polls time out and the node runs them late.  It is the order
\* in which calls free the mutex, not that in which workers show their items.
FetchedInOrder ==
    [][\A s \in Subs : phase[s] = "calling" /\ phase'[s] = "fetched" =>
          \A t \in Subs :
             /\ seen[Current(s)] >= shown[t]
             /\ phase[t] = "fetched" => seen[Current(s)] >= seen[Current(t)]]_phase

\* A new snapshot is no older than the moment its poll was begun: what had
\* changed by then, the client is told.  So no stream goes back in time, and who
\* asks after somebody was shown a change, by any worker, sees that change.
SnapshotIsFresh ==
    [][\A s \in Subs : shown'[s] # shown[s] => shown'[s] >= begun[s]]_shown

\* Errors do not end a stream: it goes on, up to the item of its last poll,
\* until its client cancels it.  A query is answered.
StreamGoesOn ==
    \A s \in Subs :
        phase[s] = "calling" ~>
            \/ phase[s] = "yielded" /\ (s \in Fields \/ n[s] = MaxPolls)
            \/ \E t \in Together(s) : phase[t] = "cancelled"
=============================================================================
