------------------------- MODULE SubscriptionsProofs -------------------------
(***************************************************************************)
(* The subscriptions and queries, proved for any number of them, of polls  *)
(* and of changes at the node.  A call that is open is the present poll of *)
(* its stream, and the node can run it only after it was begun; what was   *)
(* fetched before was read before, since one call at a time is with the    *)
(* node, and what is shown was fetched.                                    *)
(***************************************************************************)
EXTENDS Subscriptions, TLAPS

Phases == {"off", "calling", "fetched", "erred", "yielded", "sleeping", "cancelled"}

Types ==
    /\ status \in [Requests -> {"idle", "open", "ok", "failed", "dropped"}]
    /\ runs \in [Requests -> Nat]
    /\ sent \subseteq Requests
    /\ phase \in [Subs -> Phases]
    /\ n \in [Subs -> Nat]
    /\ gen \in Nat
    /\ seen \in [Requests -> Nat]
    /\ begun \in [Subs -> Nat]
    /\ shown \in [Subs -> Nat]

\* Only the present poll of a stream that is calling is open; polls not begun
\* are unknown to the node.
PollInv ==
    /\ \A s \in Subs : phase[s] \in {"calling", "fetched"} => n[s] \in 1..MaxPolls
    /\ OneOpenPoll
    /\ \A s \in Subs : \A k \in 1..MaxPolls :
         k > n[s] => <<s, k>> \notin sent /\ runs[<<s, k>>] = 0

OpenInv == \A s \in Subs : phase[s] = "calling" => status[Current(s)] = "open"

\* What the node ran was sent, and one open call at most was.
TurnInv ==
    /\ \A c \in Requests : runs[c] # 0 => c \in sent
    /\ \A c, d \in sent : status[c] = "open" /\ status[d] = "open" => c = d

\* A list in hand was read since its poll was begun, and one that comes next is
\* no older than any that is in hand or was shown.
GenInv ==
    /\ \A s \in Subs : begun[s] <= gen /\ shown[s] <= gen
    /\ \A s \in Subs :
         phase[s] = "fetched" => runs[Current(s)] = 1 /\ seen[Current(s)] \in begun[s]..gen
    /\ \A s \in Subs :
         phase[s] = "calling" /\ runs[Current(s)] = 1 =>
             /\ seen[Current(s)] \in begun[s]..gen
             /\ \A t \in Subs : shown[t] <= seen[Current(s)]
             /\ \A t \in Subs : phase[t] = "fetched" => seen[Current(t)] <= seen[Current(s)]

SubInv == Types /\ PollInv /\ OpenInv /\ TurnInv /\ GenInv

-----------------------------------------------------------------------------
\* The calls are the polls.
LEMMA CallFacts ==
    Requests = Subs \X (1..MaxPolls) /\ MaxPolls \in Nat /\ MaxGen \in Nat
BY PollsAreCalls, PollsAreBounded DEF Polls

\* The present poll is a call, and polls of two streams are two calls.
LEMMA PollFacts ==
    /\ \A s \in Subs, k \in 1..MaxPolls : <<s, k>> \in Requests
    /\ \A c \in Requests : \E s \in Subs, k \in 1..MaxPolls : c = <<s, k>>
    /\ \A s \in Subs : n[s] \in 1..MaxPolls => Current(s) \in Requests
BY CallFacts DEF Current

\* Whatever a poll was begun by, its stream was not calling.
LEMMA BeginsPoll ==
    ASSUME NEW s \in Subs, Poll(s)
    PROVE  phase[s] # "calling" /\ Begins(s) /\ Call(<<s, n[s] + 1>>)
BY DEF Poll, BeginPoll, Subscribe, Ask, PollAgain

\* A poll that returns moves its stream on, and ends its call.
LEMMA PollReturned ==
    ASSUME NEW s, Fetch(s) \/ PollErrs(s)
    PROVE  /\ phase[s] = "calling" /\ status[Current(s)] = "open"
           /\ \E v \in {"fetched", "erred"} : phase' = [phase EXCEPT ![s] = v]
           /\ \E v \in {"ok", "failed"} : status' = [status EXCEPT ![Current(s)] = v]
           /\ UNCHANGED <<n, begun, shown, gen, seen, sent, runs>>
BY DEF Fetch, Fetches, PollErrs, Errs, Moves, Succeed, Fail

\* An item that is shown changes what its streams' clients have, and no calls.
LEMMA ItemShown ==
    ASSUME NEW g, Show(g)
    PROVE  /\ phase' = [s \in Subs |-> IF s \in g THEN "yielded" ELSE phase[s]]
           /\ \E new : /\ shown' = [s \in Subs |-> IF s \in g THEN new[s] ELSE shown[s]]
                       /\ \/ new = shown
                          \/ \A s \in g : phase[s] = "fetched" /\ new[s] = seen[Current(s)]
           /\ UNCHANGED <<n, begun, gen, seen, status, sent, runs>>
<1>1. CASE ShowSnapshot(g)
  <2> DEFINE new == [s \in g |-> seen[Current(s)]]
  <2>1. \A s \in g : phase[s] = "fetched" /\ new[s] = seen[Current(s)]
    BY <1>1 DEF ShowSnapshot
  <2>2. Shows(g, new)
    BY <1>1 DEF ShowSnapshot
  <2> HIDE DEF new
  <2> QED
    BY <2>1, <2>2 DEF Shows, Show, vars
<1>2. CASE ShowError(g)
  BY <1>2 DEF ShowError, Shows, Show, vars
<1> QED
  BY <1>1, <1>2 DEF Show

\* What each item's client has is what it had, or what its stream has in hand.
LEMMA ShownBefore ==
    ASSUME Types, NEW g, Show(g), NEW s \in Subs
    PROVE  \/ shown'[s] = shown[s]
           \/ phase[s] = "fetched" /\ shown'[s] = seen[Current(s)]
BY ItemShown DEF Types

\* No step of the hub or of the node breaks the types.
LEMMA TypesStep == SubInv /\ [SubNext]_allVars => Types'
<1> SUFFICES ASSUME SubInv, [SubNext]_allVars PROVE Types'
  OBVIOUS
<1> USE CallFacts DEF SubInv, Types, vars, streamVars
<1>1. ASSUME NEW s \in Subs, phase[s] # "calling", Begins(s), Call(<<s, n[s] + 1>>)
      PROVE  Types'
  BY <1>1 DEF Begins, Call, Phases
<1>2. ASSUME NEW s \in Subs, Fetch(s) \/ PollErrs(s) PROVE Types'
  BY <1>2, PollReturned DEF Phases
<1>3. ASSUME NEW g, Show(g) PROVE Types'
  <2>1. \A s \in Subs : shown'[s] \in Nat
    <3>1. ASSUME NEW s \in Subs, phase[s] = "fetched" PROVE seen[Current(s)] \in Nat
      BY <3>1, PollFacts DEF PollInv
    <3> QED
      BY <1>3, <3>1, ShownBefore
  <2>2. shown' \in [Subs -> Nat]
    BY <1>3, <2>1, ItemShown
  <2> QED
    BY <1>3, <2>2, ItemShown DEF Phases
<1>4. ASSUME NEW s \in Subs, Pull(s) PROVE Types'
  BY <1>4 DEF Pull, NextItem, Moves, Phases
<1>5. ASSUME NEW s \in Subs, Cancel(s) PROVE Types'
  <2>1. phase[s] = "calling" => Current(s) \in Requests
    BY PollFacts DEF PollInv
  <2> QED
    BY <1>5, <2>1 DEF Cancel, EndStream, Abandon, Phases
<1>6. ASSUME NEW c \in Requests, Deliver(c) PROVE Types'
  BY <1>6 DEF Deliver, Send
<1>7. ASSUME NEW c \in Requests, NodeReads(c) PROVE Types'
  BY <1>7 DEF NodeReads, Read, Execute
<1>8. CASE NodeChanges
  BY <1>8 DEF NodeChanges, Change
<1>9. CASE UNCHANGED allVars
  BY <1>9 DEF allVars
<1> QED
  BY <1>1, <1>2, <1>3, <1>4, <1>5, <1>6, <1>7, <1>8, <1>9,
     BeginsPoll DEF SubNext, StreamStep

\* No step opens a second poll, or sends one that was not begun.
LEMMA PollStep == SubInv /\ [SubNext]_allVars => PollInv'
<1> SUFFICES ASSUME SubInv, [SubNext]_allVars PROVE PollInv'
  OBVIOUS
<1> USE CallFacts DEF SubInv, Types, PollInv, OneOpenPoll, Current, vars, streamVars
<1>1. ASSUME NEW s \in Subs, phase[s] # "calling", Begins(s), Call(<<s, n[s] + 1>>)
      PROVE  PollInv'
  BY <1>1 DEF Begins, Call
<1>2. ASSUME NEW s \in Subs, Fetch(s) \/ PollErrs(s) PROVE PollInv'
  <2>1. /\ phase[s] = "calling" /\ n[s] \in 1..MaxPolls
        /\ \E v \in {"fetched", "erred"} : phase' = [phase EXCEPT ![s] = v]
        /\ \E v \in {"ok", "failed"} : status' = [status EXCEPT ![<<s, n[s]>>] = v]
        /\ UNCHANGED <<n, sent, runs>>
    BY <1>2, PollReturned
  <2>2. OneOpenPoll'
    <3> SUFFICES ASSUME NEW t \in Subs, NEW k \in 1..MaxPolls,
                        status'[<<t, k>>] = "open"
                 PROVE  phase'[t] = "calling" /\ k = n'[t]
      OBVIOUS
    <3>1. <<t, k>> \in Requests
      OBVIOUS
    <3>2. <<t, k>> # <<s, n[s]>>
      BY <2>1, <3>1
    <3>3. status[<<t, k>>] = "open"
      BY <2>1, <3>1, <3>2
    <3>4. phase[t] = "calling" /\ k = n[t] /\ t # s
      BY <3>2, <3>3
    <3> QED
      BY <2>1, <3>4
  <2> QED
    BY <2>1, <2>2
<1>3. ASSUME NEW g, Show(g) PROVE PollInv'
  <2>1. /\ UNCHANGED <<n, status, sent, runs>>
        /\ \A s \in Subs : phase'[s] = phase[s] \/ phase'[s] = "yielded"
    BY <1>3, ItemShown
  <2>2. ASSUME NEW s \in g, NEW k \in 1..MaxPolls, s \in Subs, status[<<s, k>>] = "open"
        PROVE  FALSE
    <3>1. phase[s] = "calling"
      BY <2>2
    <3>2. phase[s] # "calling"
      BY <1>3 DEF Show, ShowSnapshot, ShowError
    <3> QED
      BY <3>1, <3>2
  <2>3. \A s \in Subs : s \notin g => phase'[s] = phase[s]
    BY <1>3, ItemShown
  <2> QED
    BY <2>1, <2>2, <2>3
<1>4. ASSUME NEW s \in Subs, Pull(s) PROVE PollInv'
  BY <1>4 DEF Pull, NextItem, Moves
<1>5. ASSUME NEW s \in Subs, Cancel(s) PROVE PollInv'
  <2>1. phase' = [phase EXCEPT ![s] = "cancelled"] /\ n' = n
    BY <1>5 DEF Cancel, EndStream
  <2>2. CASE phase[s] = "calling"
    <3>1. /\ status' = [status EXCEPT ![Current(s)] = "dropped"]
          /\ sent' \subseteq sent \cup {Current(s)}
          /\ runs' = runs
      BY <1>5, <2>2 DEF Cancel, EndStream, Abandon
    <3>2. OneOpenPoll'
      BY <2>1, <2>2, <3>1
    <3>3. \A t \in Subs : \A k \in 1..MaxPolls :
            k > n'[t] => <<t, k>> \notin sent' /\ runs'[<<t, k>>] = 0
      BY <2>1, <2>2, <3>1
    <3> QED
      BY <2>1, <2>2, <3>2, <3>3
  <2>3. CASE phase[s] # "calling"
    <3>1. UNCHANGED <<status, sent, runs>>
      BY <1>5, <2>3 DEF Cancel, EndStream
    <3> QED
      BY <2>1, <2>3, <3>1
  <2> QED
    BY <2>2, <2>3
<1>6. ASSUME NEW c \in Requests, Deliver(c) PROVE PollInv'
  BY <1>6, PollFacts DEF Deliver, Send
<1>7. ASSUME NEW c \in Requests, NodeReads(c) PROVE PollInv'
  BY <1>7, PollFacts DEF NodeReads, Read, Execute
<1>8. CASE NodeChanges
  BY <1>8 DEF NodeChanges, Change
<1>9. CASE UNCHANGED allVars
  BY <1>9 DEF allVars
<1> QED
  BY <1>1, <1>2, <1>3, <1>4, <1>5, <1>6, <1>7, <1>8, <1>9,
     BeginsPoll DEF SubNext, StreamStep

\* A stream that is calling has its poll open.
LEMMA OpenStep == SubInv /\ [SubNext]_allVars => OpenInv'
<1> SUFFICES ASSUME SubInv, [SubNext]_allVars, NEW t \in Subs, phase'[t] = "calling"
             PROVE  status'[<<t, n'[t]>>] = "open"
  BY DEF OpenInv, Current
<1> USE DEF vars, streamVars
<1>a. /\ phase \in [Subs -> Phases]
      /\ n \in [Subs -> Nat]
      /\ status \in [Requests -> {"idle", "open", "ok", "failed", "dropped"}]
  BY DEF SubInv, Types
<1>b. phase[t] = "calling" => <<t, n[t]>> \in Requests /\ status[<<t, n[t]>>] = "open"
  BY CallFacts DEF SubInv, PollInv, OpenInv, Current
<1>1. ASSUME NEW s \in Subs, phase[s] # "calling", Begins(s), Call(<<s, n[s] + 1>>)
      PROVE  status'[<<t, n'[t]>>] = "open"
  <2>1. <<s, n[s] + 1>> \in Requests /\ n'[s] = n[s] + 1
    BY <1>a, <1>1, CallFacts DEF Begins
  <2> QED
    BY <1>a, <1>b, <1>1, <2>1 DEF Begins, Call
<1>2. ASSUME NEW s \in Subs, Fetch(s) \/ PollErrs(s)
      PROVE  status'[<<t, n'[t]>>] = "open"
  <2>1. /\ \E v \in {"fetched", "erred"} : phase' = [phase EXCEPT ![s] = v]
        /\ \E v : status' = [status EXCEPT ![<<s, n[s]>>] = v]
        /\ n' = n
    BY <1>2, PollReturned DEF Current
  <2>2. t # s /\ phase[t] = "calling"
    BY <1>a, <2>1
  <2> QED
    BY <1>a, <1>b, <2>1, <2>2
<1>3. ASSUME NEW s \in Subs, Pull(s) PROVE status'[<<t, n'[t]>>] = "open"
  BY <1>a, <1>b, <1>3 DEF Pull, NextItem, Moves
<1>4. ASSUME NEW s \in Subs, Cancel(s) PROVE status'[<<t, n'[t]>>] = "open"
  <2>1. /\ phase' = [phase EXCEPT ![s] = "cancelled"] /\ n' = n
        /\ status' = status \/ status' = [status EXCEPT ![<<s, n[s]>>] = "dropped"]
    BY <1>4 DEF Cancel, EndStream, Abandon, Current
  <2>2. t # s /\ phase[t] = "calling"
    BY <1>a, <2>1
  <2> QED
    BY <1>a, <1>b, <2>1, <2>2
<1>5. CASE UNCHANGED <<phase, n, status>>
  BY <1>b, <1>5
<1>6. ASSUME NEW g, Show(g) PROVE status'[<<t, n'[t]>>] = "open"
  <2>1. phase[t] = "calling" /\ n' = n /\ status' = status
    BY <1>6, ItemShown
  <2> QED
    BY <1>b, <2>1
<1> QED
  BY <1>1, <1>2, <1>3, <1>4, <1>5, <1>6, BeginsPoll
     DEF SubNext, StreamStep, Deliver, Send, NodeReads, Read, Execute, NodeChanges, Change,
         allVars

\* No step puts a second open call before the node.
LEMMA TurnStep == SubInv /\ [SubNext]_allVars => TurnInv'
<1> SUFFICES ASSUME SubInv, [SubNext]_allVars PROVE TurnInv'
  OBVIOUS
<1> USE CallFacts DEF SubInv, Types, PollInv, TurnInv, Current, vars, streamVars
<1>1. ASSUME NEW s \in Subs, phase[s] # "calling", Begins(s), Call(<<s, n[s] + 1>>)
      PROVE  TurnInv'
  BY <1>1 DEF Begins, Call
<1>2. ASSUME NEW s \in Subs, Fetch(s) \/ PollErrs(s) PROVE TurnInv'
  <2>1. /\ \E v \in {"ok", "failed"} : status' = [status EXCEPT ![<<s, n[s]>>] = v]
        /\ UNCHANGED <<sent, runs>>
    BY <1>2, PollReturned
  <2>2. \A c \in sent : status'[c] = "open" => status[c] = "open"
    BY <2>1
  <2> QED
    BY <2>1, <2>2
<1>3. ASSUME NEW g, Show(g) PROVE TurnInv'
  BY <1>3, ItemShown
<1>4. ASSUME NEW s \in Subs, Pull(s) PROVE TurnInv'
  BY <1>4 DEF Pull, NextItem, Moves
<1>5. ASSUME NEW s \in Subs, Cancel(s) PROVE TurnInv'
  <2>1. CASE phase[s] = "calling"
    <3>1. Current(s) \in Requests
      BY <2>1, PollFacts
    <3>2. /\ status' = [status EXCEPT ![Current(s)] = "dropped"]
          /\ sent' \subseteq sent \cup {Current(s)} /\ sent \subseteq sent'
          /\ runs' = runs
      BY <1>5, <2>1 DEF Cancel, EndStream, Abandon
    <3>3. status'[Current(s)] = "dropped"
      BY <3>1, <3>2
    <3>4. \A c \in sent' : status'[c] = "open" => c \in sent /\ status[c] = "open"
      BY <3>1, <3>2, <3>3
    <3> HIDE DEF Current
    <3> QED
      BY <3>2, <3>4
  <2>2. CASE phase[s] # "calling"
    BY <1>5, <2>2 DEF Cancel, EndStream
  <2> QED
    BY <2>1, <2>2
<1>6. ASSUME NEW c \in Requests, Deliver(c) PROVE TurnInv'
  BY <1>6 DEF Deliver, Send
<1>7. ASSUME NEW c \in Requests, NodeReads(c) PROVE TurnInv'
  BY <1>7 DEF NodeReads, Read, Execute
<1>8. CASE NodeChanges
  BY <1>8 DEF NodeChanges, Change
<1>9. CASE UNCHANGED allVars
  BY <1>9 DEF allVars
<1> QED
  BY <1>1, <1>2, <1>3, <1>4, <1>5, <1>6, <1>7, <1>8, <1>9,
     BeginsPoll DEF SubNext, StreamStep

\* Two streams are not both answered.
LEMMA OneAnswer ==
    ASSUME SubInv, NEW s \in Subs, NEW t \in Subs,
           phase[s] = "calling", runs[Current(s)] = 1,
           phase[t] = "calling", runs[Current(t)] = 1
    PROVE  s = t
BY PollFacts DEF SubInv, PollInv, OpenInv, TurnInv, Current

\* No step fetches what the node did not hold when the poll was running.
LEMMA GenStep == SubInv /\ [SubNext]_allVars => GenInv'
<1> SUFFICES ASSUME SubInv, [SubNext]_allVars PROVE GenInv'
  OBVIOUS
<1>a. ASSUME NEW g, Show(g), NEW t \in Subs
      PROVE  shown'[t] = shown[t] \/ (phase[t] = "fetched" /\ shown'[t] = seen[<<t, n[t]>>])
  BY <1>a, ShownBefore DEF SubInv, Current
<1> USE CallFacts DEF SubInv, Types, PollInv, GenInv, OneOpenPoll, Current, vars, streamVars
<1>1. ASSUME NEW s \in Subs, phase[s] # "calling", Begins(s), Call(<<s, n[s] + 1>>)
      PROVE  GenInv'
  <2>1. /\ phase' = [phase EXCEPT ![s] = "calling"] /\ n' = [n EXCEPT ![s] = @ + 1]
        /\ begun' = [begun EXCEPT ![s] = gen] /\ n[s] < MaxPolls
        /\ UNCHANGED <<shown, gen, seen, runs>>
    BY <1>1 DEF Begins, Call
  <2>2. runs[<<s, n'[s]>>] = 0
    BY <2>1
  <2>3. \A t \in Subs : t # s => phase'[t] = phase[t] /\ n'[t] = n[t] /\ begun'[t] = begun[t]
    BY <2>1
  <2>4. \A t \in Subs : phase'[t] = "fetched" => t # s
    BY <2>1
  <2>5. \A t \in Subs : phase'[t] = "calling" /\ runs'[<<t, n'[t]>>] = 1 => t # s
    BY <2>1, <2>2
  <2>6. \A t \in Subs : begun'[t] <= gen' /\ shown'[t] <= gen'
    BY <2>1
  <2> QED
    BY <2>1, <2>3, <2>4, <2>5, <2>6
<1>2. ASSUME NEW s \in Subs, Fetch(s) PROVE GenInv'
  <2>1. /\ phase' = [phase EXCEPT ![s] = "fetched"]
        /\ UNCHANGED <<n, begun, gen, seen, runs, shown>>
        /\ phase[s] = "calling" /\ runs[<<s, n[s]>>] = 1
    BY <1>2 DEF Fetch, Fetches, Moves, Succeed
  <2>2. \A t \in Subs : phase'[t] = "calling" => t # s /\ phase[t] = "calling"
    BY <2>1
  <2>3. \A t \in Subs : phase'[t] = "calling" => runs'[<<t, n'[t]>>] # 1
    BY <2>1, <2>2, OneAnswer
  <2>4. \A t \in Subs : phase'[t] = "fetched" =>
            runs'[<<t, n'[t]>>] = 1 /\ seen'[<<t, n'[t]>>] \in begun'[t]..gen'
    BY <2>1
  <2>5. \A t \in Subs : begun'[t] <= gen' /\ shown'[t] <= gen'
    BY <2>1
  <2> QED
    BY ONLY <2>3, <2>4, <2>5 DEF GenInv, Current
<1>3. ASSUME NEW s \in Subs, PollErrs(s) PROVE GenInv'
  <2>1. /\ phase' = [phase EXCEPT ![s] = "erred"]
        /\ UNCHANGED <<n, begun, gen, seen, runs, shown>>
    BY <1>3 DEF PollErrs, Errs, Moves, Succeed, Fail
  <2> QED
    BY <2>1
<1>10. ASSUME NEW g, Show(g) PROVE GenInv'
  <2>1. /\ UNCHANGED <<n, begun, gen, seen, runs>>
        /\ \A s \in Subs : phase'[s] \in {"calling", "fetched"} => phase'[s] = phase[s]
    BY <1>10, ItemShown
  <2>2. \A t \in Subs :
          shown'[t] = shown[t] \/ (phase[t] = "fetched" /\ shown'[t] = seen[<<t, n[t]>>])
    BY ONLY <1>a, <1>10
  <2>3. \A t \in Subs : shown'[t] <= gen
    <3>1. ASSUME NEW t \in Subs, phase[t] = "fetched" PROVE seen[<<t, n[t]>>] <= gen
      BY <3>1
    <3> QED
      BY <2>2, <3>1
  <2>4. ASSUME NEW s \in Subs, phase[s] = "calling", runs[<<s, n[s]>>] = 1, NEW t \in Subs
        PROVE  shown'[t] <= seen[<<s, n[s]>>]
    BY <2>2, <2>4
  <2> QED
    BY <2>1, <2>3, <2>4
<1>4. ASSUME NEW s \in Subs, Pull(s) PROVE GenInv'
  BY <1>4 DEF Pull, NextItem, Moves
<1>5. ASSUME NEW s \in Subs, Cancel(s) PROVE GenInv'
  <2>1. /\ phase' = [phase EXCEPT ![s] = "cancelled"]
        /\ UNCHANGED <<n, begun, gen, seen, runs, shown>>
    BY <1>5 DEF Cancel, EndStream, Abandon
  <2> QED
    BY <2>1
<1>6. ASSUME NEW c \in Requests, Deliver(c) PROVE GenInv'
  BY <1>6 DEF Deliver, Send
<1>7. ASSUME NEW c \in Requests, NodeReads(c) PROVE GenInv'
  <2>1. /\ runs[c] = 0 /\ runs' = [runs EXCEPT ![c] = 1] /\ seen' = [seen EXCEPT ![c] = gen]
        /\ UNCHANGED <<phase, n, begun, gen, shown>>
    BY <1>7 DEF NodeReads, Read, Execute
  <2>2. \A s \in Subs : phase[s] = "fetched" =>
            /\ <<s, n[s]>> # c
            /\ runs'[<<s, n[s]>>] = 1 /\ seen'[<<s, n[s]>>] = seen[<<s, n[s]>>]
    BY <2>1
  <2>3. \A s \in Subs : phase[s] = "calling" /\ runs'[<<s, n[s]>>] = 1 =>
            \/ seen'[<<s, n[s]>>] = gen
            \/ runs[<<s, n[s]>>] = 1 /\ seen'[<<s, n[s]>>] = seen[<<s, n[s]>>]
    BY <2>1
  <2>4. \A s \in Subs : phase[s] = "fetched" => seen[<<s, n[s]>>] <= gen
    OBVIOUS
  <2>5. ASSUME NEW s \in Subs, phase[s] = "calling", runs'[<<s, n[s]>>] = 1
        PROVE  /\ seen'[<<s, n[s]>>] \in begun[s]..gen
               /\ \A t \in Subs : shown[t] <= seen'[<<s, n[s]>>]
               /\ \A t \in Subs : phase[t] = "fetched" => seen[<<t, n[t]>>] <= seen'[<<s, n[s]>>]
    <3>1. CASE seen'[<<s, n[s]>>] = gen
      BY <2>4, <3>1
    <3>2. CASE runs[<<s, n[s]>>] = 1 /\ seen'[<<s, n[s]>>] = seen[<<s, n[s]>>]
      BY <2>5, <3>2
    <3> QED
      BY <2>3, <2>5, <3>1, <3>2
  <2>6. /\ \A s \in Subs : begun'[s] <= gen' /\ shown'[s] <= gen'
        /\ \A s \in Subs : phase'[s] = "fetched" =>
             runs'[<<s, n'[s]>>] = 1 /\ seen'[<<s, n'[s]>>] \in begun'[s]..gen'
    BY <2>1, <2>2
  <2>7. \A s \in Subs : phase'[s] = "calling" /\ runs'[<<s, n'[s]>>] = 1 =>
            /\ seen'[<<s, n'[s]>>] \in begun'[s]..gen'
            /\ \A t \in Subs : shown'[t] <= seen'[<<s, n'[s]>>]
            /\ \A t \in Subs : phase'[t] = "fetched" => seen'[<<t, n'[t]>>] <= seen'[<<s, n'[s]>>]
    BY ONLY <2>1, <2>2, <2>5
  <2> QED
    BY ONLY <2>6, <2>7 DEF GenInv, Current
<1>8. CASE NodeChanges
  <2>1. gen' = gen + 1 /\ UNCHANGED <<phase, n, begun, shown, seen, runs>>
    BY <1>8 DEF NodeChanges, Change
  <2>2. \A s \in Subs : begun[s] <= gen' /\ shown[s] <= gen'
    BY <2>1
  <2>3. \A s \in Subs : seen[<<s, n[s]>>] \in begun[s]..gen =>
            seen[<<s, n[s]>>] \in begun[s]..gen'
    BY <2>1
  <2> QED
    BY <2>1, <2>2, <2>3
<1>9. CASE UNCHANGED allVars
  BY <1>9 DEF allVars
<1> QED
  BY <1>1, <1>2, <1>3, <1>4, <1>5, <1>6, <1>7, <1>8, <1>9, <1>10,
     BeginsPoll DEF SubNext, StreamStep

\* No step of the streams breaks their invariant.
LEMMA SubInvStep == SubInv /\ [SubNext]_allVars => SubInv'
BY TypesStep, PollStep, OpenStep, TurnStep, GenStep DEF SubInv

\* It holds before the first poll.
LEMMA SubInvInit == SubInit => SubInv
BY CallFacts DEF Polls, Phases, SubInit, Init, StreamsInit, SubInv, Types, PollInv, OpenInv, TurnInv,
                 GenInv, OneOpenPoll, Current

\* The inductive invariant of the subscriptions.
LEMMA SubInvHolds == SubSpec => []SubInv
BY SubInvInit, SubInvStep, PTL DEF SubSpec

-----------------------------------------------------------------------------
\* Polls of one subscription never overlap, and a cancelled one has none open
\* (subscription.rs: the unfold closures await one call at a time).
THEOREM NoOverlap == SubSpec => []OneOpenPoll
<1>1. SubInv => OneOpenPoll
  BY DEF SubInv, PollInv
<1> QED
  BY <1>1, SubInvHolds, PTL

\* A list that is fetched is the present poll's, which the node has run.
LEMMA ListFetched ==
    ASSUME SubInv, [SubNext]_allVars, NEW s \in Subs,
           phase[s] = "calling", phase'[s] = "fetched"
    PROVE  runs[Current(s)] = 1
<1>1. CASE Fetch(s)
  BY <1>1 DEF Fetch, Succeed
<1>2. CASE ~Fetch(s)
  <2>1. phase \in [Subs -> Phases]
    BY DEF SubInv, Types
  <2>2. ASSUME NEW t \in Subs, Poll(t) \/ Pull(t) \/ Cancel(t) PROVE FALSE
    BY <2>1, <2>2 DEF Poll, BeginPoll, Subscribe, Ask, PollAgain, Begins, Pull, NextItem, Moves,
                      Cancel, EndStream
  <2>3. ASSUME NEW t \in Subs, Fetch(t) \/ PollErrs(t) PROVE FALSE
    BY <1>2, <2>1, <2>3 DEF Fetch, Fetches, PollErrs, Errs, Moves
  <2>4. ASSUME NEW g, Show(g) PROVE FALSE
    BY <2>4, ItemShown
  <2> QED
    BY <2>2, <2>3, <2>4 DEF SubNext, StreamStep, Deliver, NodeReads, Read, NodeChanges, Change,
                            allVars, streamVars
<1> QED
  BY <1>1, <1>2

\* The hub fetches lists in the order of the states they show.
THEOREM FetchesInOrder == SubSpec => FetchedInOrder
<1>1. SubInv /\ [SubNext]_allVars =>
        [\A s \in Subs : phase[s] = "calling" /\ phase'[s] = "fetched" =>
            \A t \in Subs :
               /\ seen[Current(s)] >= shown[t]
               /\ phase[t] = "fetched" => seen[Current(s)] >= seen[Current(t)]]_phase
  <2> SUFFICES ASSUME SubInv, [SubNext]_allVars, NEW s \in Subs, NEW t \in Subs,
                      phase[s] = "calling", phase'[s] = "fetched"
               PROVE  /\ seen[Current(s)] >= shown[t]
                      /\ phase[t] = "fetched" => seen[Current(s)] >= seen[Current(t)]
    OBVIOUS
  <2>1. /\ shown[t] <= seen[Current(s)]
        /\ phase[t] = "fetched" => seen[Current(t)] <= seen[Current(s)]
    BY ListFetched DEF SubInv, GenInv
  <2>2. /\ seen[Current(s)] \in Nat /\ shown[t] \in Nat
        /\ phase[t] = "fetched" => seen[Current(t)] \in Nat
    BY PollFacts DEF SubInv, Types, PollInv
  <2> QED
    BY <2>1, <2>2
<1> QED
  BY <1>1, SubInvHolds, PTL DEF SubSpec, FetchedInOrder

\* What a client gets is what its stream has in hand.
LEMMA SnapshotShown ==
    ASSUME SubInv, [SubNext]_allVars, NEW s \in Subs, shown'[s] # shown[s]
    PROVE  phase[s] = "fetched" /\ shown'[s] = seen[Current(s)]
<1>1. ASSUME NEW g, Show(g)
      PROVE  phase[s] = "fetched" /\ shown'[s] = seen[Current(s)]
  BY <1>1, ShownBefore DEF SubInv
<1>2. CASE ~\E g \in Items : Show(g)
  BY <1>2 DEF SubNext, StreamStep, Poll, BeginPoll, Subscribe, Ask, PollAgain, Begins, Fetch,
              Fetches, PollErrs, Errs, Moves, Pull, NextItem, Cancel, EndStream, Deliver,
              NodeReads, Read, NodeChanges, Change, allVars, streamVars
<1> QED
  BY <1>1, <1>2

\* A new snapshot is no older than the poll that fetched it.
THEOREM FreshSnapshots == SubSpec => SnapshotIsFresh
<1>1. SubInv /\ [SubNext]_allVars =>
          [\A s \in Subs : shown'[s] # shown[s] => shown'[s] >= begun[s]]_shown
  <2> SUFFICES ASSUME SubInv, [SubNext]_allVars, NEW s \in Subs, shown'[s] # shown[s]
               PROVE  shown'[s] >= begun[s]
    OBVIOUS
  <2>1. seen[Current(s)] \in begun[s]..gen /\ begun[s] \in Nat /\ gen \in Nat
    BY SnapshotShown DEF SubInv, GenInv, Types
  <2> QED
    BY <2>1, SnapshotShown
<1> QED
  BY <1>1, SubInvHolds, PTL DEF SubSpec, SnapshotIsFresh

-----------------------------------------------------------------------------
\* The bounds on what is counted: polls, changes, and what the node knew.
RangeInv ==
    /\ \A s \in Subs : n[s] <= MaxPolls
    /\ gen \in 1..(MaxGen + 1)
    /\ \A c \in Requests : seen[c] <= gen

\* No step goes past a bound.
LEMMA RangeStep == SubInv /\ RangeInv /\ [SubNext]_allVars => RangeInv'
<1> SUFFICES ASSUME SubInv, RangeInv, [SubNext]_allVars PROVE RangeInv'
  OBVIOUS
<1>a. /\ n \in [Subs -> Nat] /\ seen \in [Requests -> Nat] /\ gen \in Nat
      /\ MaxPolls \in Nat /\ MaxGen \in Nat
  BY CallFacts DEF SubInv, Types
<1>1. ASSUME NEW s \in Subs, phase[s] # "calling", Begins(s), Call(<<s, n[s] + 1>>)
      PROVE  RangeInv'
  BY <1>a, <1>1 DEF Begins, RangeInv
<1>2. ASSUME NEW s \in Subs, Fetch(s) \/ PollErrs(s) \/ Pull(s) \/ Cancel(s)
      PROVE  RangeInv'
  BY <1>2, PollReturned DEF Pull, NextItem, Moves, Cancel, EndStream, RangeInv
<1>7. ASSUME NEW g, Show(g) PROVE RangeInv'
  BY <1>7, ItemShown DEF RangeInv
<1>3. ASSUME NEW c \in Requests, Deliver(c) PROVE RangeInv'
  BY <1>3 DEF Deliver, streamVars, RangeInv
<1>4. ASSUME NEW c \in Requests, NodeReads(c) PROVE RangeInv'
  BY <1>a, <1>4 DEF NodeReads, Read, streamVars, RangeInv
<1>5. CASE NodeChanges
  BY <1>a, <1>5 DEF NodeChanges, Change, streamVars, RangeInv
<1>6. CASE UNCHANGED allVars
  BY <1>6 DEF allVars, streamVars, RangeInv
<1> QED
  BY <1>1, <1>2, <1>3, <1>4, <1>5, <1>6, <1>7, BeginsPoll
     DEF SubNext, StreamStep

\* A stream is in one of its phases, and nobody has seen what the node does not
\* hold yet (subscription.rs: the unfold closures).
THEOREM SubTypeCorrect == SubSpec => []SubTypeOK
<1>1. SubInit => RangeInv
  BY CallFacts DEF Polls, SubInit, StreamsInit, RangeInv
<1>2. SubInv /\ RangeInv => SubTypeOK
  <2> SUFFICES ASSUME SubInv, RangeInv PROVE SubTypeOK
    OBVIOUS
  <2>1. n \in [Subs -> 0..MaxPolls] /\ seen \in [Requests -> 0..gen]
    BY CallFacts DEF SubInv, Types, RangeInv
  <2>2. begun \in [Subs -> 0..gen] /\ shown \in [Subs -> 0..gen]
    BY DEF SubInv, Types, GenInv
  <2> QED
    BY <2>1, <2>2, PollsAreCalls DEF SubInv, Types, Phases, RangeInv, SubTypeOK
<1> QED
  BY <1>1, <1>2, RangeStep, SubInvHolds, PTL DEF SubSpec
=============================================================================
