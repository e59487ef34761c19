------------------------ MODULE TimedNodeClientProofs ------------------------
(***************************************************************************)
(* The clock of TimedNodeClient takes behaviours away and adds none, so    *)
(* what is proved of NodeClient holds with it; and no timer of the hub is  *)
(* ever overdue.  Then how long the ws_sink mutex keeps a task waiting,    *)
(* for every number of calls and every timeout.  The mutex is FIFO:        *)
(* whoever is in front of a task was ahead when it asked (QueueInv).  Time *)
(* passes only while the holder waits for its response, and at most a      *)
(* timeout of it for each holder (TimeInv).                                *)
(***************************************************************************)
EXTENDS TimedNodeClient, NodeClientProofs, FiniteSetTheorems

\* A step with the clock is a step without it, or leaves everything but the
\* clock alone.
LEMMA TimedStepIsStep == [TimedNext]_timedVars => [Next]_vars
<1> SUFFICES ASSUME [TimedNext]_timedVars PROVE [Next]_vars
  OBVIOUS
<1>1. ASSUME NEW r \in Requests, TimedCall(r) PROVE Next
  BY <1>1 DEF TimedCall, Next
<1>2. ASSUME NEW r \in Requests, TimedRequest(r) PROVE Next
  <2>1. RequestStep(r)
    BY <1>2 DEF TimedRequest, RequestStep
  <2> QED
    BY <2>1 DEF Next
<1>3. ASSUME NEW r \in Requests, TimedDrop(r) PROVE Next
  BY <1>3 DEF TimedDrop, Next
<1>4. CASE TimedLoop
  <2>1. LoopStep
    BY <1>4 DEF TimedLoop, LoopStep
  <2> QED
    BY <2>1 DEF Next
<1>5. CASE NodeStep
  BY <1>5 DEF Next
<1>6. CASE Tick
  BY <1>6 DEF Tick
<1>7. CASE UNCHANGED timedVars
  BY <1>7 DEF timedVars
<1> QED
  BY <1>1, <1>2, <1>3, <1>4, <1>5, <1>6, <1>7 DEF TimedNext

\* The timed client implements the client: a bound of 10 s on the timer
\* (client.rs:117) and a pause of 5 s (connection.rs:74) only order steps.
THEOREM ClockOnlyRestricts == TimedSpec => Spec
<1>1. TimedInit => Init
  BY DEF TimedInit
<1> QED
  BY <1>1, TimedStepIsStep, PTL DEF TimedSpec, Spec

-----------------------------------------------------------------------------
\* A timer is started at zero and stopped by whatever it times; time does not
\* pass while it is due.
LEMMA TimedTypeStep == TimedTypeOK /\ [TimedNext]_timedVars => TimedTypeOK'
<1> SUFFICES ASSUME TimedTypeOK, [TimedNext]_timedVars PROVE TimedTypeOK'
  OBVIOUS
<1> USE TicksAreCounted, TasksDiffer DEF TimedTypeOK, Tasks, clockVars
<1>1. ASSUME NEW r \in Requests, TimedCall(r) PROVE TimedTypeOK'
  BY <1>1 DEF TimedCall, Asks
<1>2. ASSUME NEW r \in Requests, TimedRequest(r) PROVE TimedTypeOK'
  BY <1>2 DEF TimedRequest, Starts, Finishes
<1>3. ASSUME NEW r \in Requests, TimedDrop(r) PROVE TimedTypeOK'
  BY <1>3 DEF TimedDrop, Starts, Finishes
<1>4. CASE TimedLoop
  <2>1. \A t \in Tasks : Starts(t) \/ UNCHANGED timer =>
          /\ timer' \in [Tasks -> Nat]
          /\ \A r \in Requests : timer'[r] <= RequestTimeout
          /\ timer'[Loop] <= RetryDelay
    BY DEF Starts
  <2>2. Starts(Loop) \/ UNCHANGED timer
    BY <1>4 DEF TimedLoop
  <2>3. Asks(Loop) \/ Finishes(Loop) \/ UNCHANGED <<waited, ahead>>
    BY <1>4 DEF TimedLoop
  <2>4. waited' \in [Tasks -> Nat] /\ ahead' \in [Tasks -> SUBSET Requests]
    BY <2>3 DEF Asks, Finishes
  <2> QED
    BY <2>1, <2>2, <2>4
<1>5. CASE UNCHANGED clockVars
  BY <1>5
<1>6. CASE Tick
  <2>1. \A r \in Requests : state[r] = "waiting" => timer[r] # RequestTimeout
    BY <1>6 DEF Tick, Urgent
  <2>2. loop = "sleeping" => timer[Loop] # RetryDelay
    BY <1>6 DEF Tick, Urgent
  <2>3. timer' = [t \in Tasks |->
                    IF (IF t = Loop THEN loop = "sleeping" ELSE state[t] = "waiting")
                      THEN timer[t] + 1 ELSE timer[t]]
    BY <1>6 DEF Tick
  <2>4. timer' \in [Tasks -> Nat]
    BY <2>3
  <2>5. \A r \in Requests : timer'[r] <= RequestTimeout
    <3> SUFFICES ASSUME NEW r \in Requests PROVE timer'[r] <= RequestTimeout
      OBVIOUS
    <3>1. timer[r] \in Nat /\ timer[r] <= RequestTimeout /\ r # Loop
      OBVIOUS
    <3> QED
      BY <2>1, <2>3, <3>1
  <2>6. timer'[Loop] <= RetryDelay
    <3>1. timer[Loop] \in Nat /\ timer[Loop] <= RetryDelay
      OBVIOUS
    <3> QED
      BY <2>2, <2>3, <3>1
  <2>7. waited' \in [Tasks -> Nat] /\ ahead' = ahead
    BY <1>6 DEF Tick
  <2> QED
    BY <2>4, <2>5, <2>6, <2>7
<1>7. CASE UNCHANGED timedVars
  BY <1>7 DEF timedVars
<1> QED
  BY <1>1, <1>2, <1>3, <1>4, <1>5, <1>6, <1>7 DEF TimedNext

\* No timer of a call or of the connection task ever runs past its duration.
THEOREM TimersAreServed == TimedSpec => []TimedTypeOK
<1>1. TimedInit => TimedTypeOK
  BY TicksAreCounted, TasksDiffer DEF TimedInit, TimedTypeOK, Tasks, Zero
<1> QED
  BY <1>1, TimedTypeStep, PTL DEF TimedSpec

-----------------------------------------------------------------------------
Places == 1..Len(sink_queue)
Waiting == {sink_queue[i] : i \in Places}
InFront(a, b) == \E i, j \in Places : i < j /\ sink_queue[i] = a /\ sink_queue[j] = b

QueueInv ==
    /\ \A r \in Requests : r \in Waiting <=> state[r] = "queued"
    /\ Loop \in Waiting <=> loop \in {"installing", "clearing"}
    /\ \A t \in Tasks : ~InFront(t, t)
    /\ \A r \in Requests, t \in Tasks : InFront(r, t) => r \in ahead[t]
    /\ sink_lock # Nobody => \A t \in Waiting : sink_lock \in ahead[t]
    /\ \A t \in Tasks : \A r \in ahead[t] : state[r] # "idle"

-----------------------------------------------------------------------------
(***************************************************************************)
(* Who joins the queue and who leaves it.                                  *)
(***************************************************************************)
\* The queue holds tasks, and places in it.
LEMMA QueueTypes ==
    ASSUME sink_queue \in Seq(Tasks)
    PROVE  /\ Len(sink_queue) \in Nat
           /\ Waiting \subseteq Tasks
<1>1. Len(sink_queue) \in Nat
  BY LenProperties
<1>2. \A i \in Places : sink_queue[i] \in Tasks
  BY ElementOfSeq DEF Places
<1> QED
  BY <1>1, <1>2 DEF Waiting

\* A task that asks for the mutex is behind everybody.
LEMMA Joins ==
    ASSUME sink_queue \in Seq(Tasks), NEW t \in Tasks, Enqueue(t)
    PROVE  /\ Waiting' = Waiting \cup {t}
           /\ \A a, b : InFront(a, b)' => InFront(a, b) \/ (a \in Waiting /\ b = t)
<1>1. /\ Len(sink_queue) \in Nat
      /\ Len(sink_queue') = Len(sink_queue) + 1
      /\ \A i \in Places : sink_queue'[i] = sink_queue[i]
      /\ sink_queue'[Len(sink_queue) + 1] = t
  BY QueueTypes, AppendProperties DEF Enqueue, Places
<1>2. Places' = Places \cup {Len(sink_queue) + 1}
  BY <1>1 DEF Places
<1>3. Waiting' = Waiting \cup {t}
  BY <1>1, <1>2 DEF Waiting
<1>4. ASSUME NEW a, NEW b, InFront(a, b)'
      PROVE  InFront(a, b) \/ (a \in Waiting /\ b = t)
  <2>1. PICK i \in Places', j \in Places' :
          i < j /\ sink_queue'[i] = a /\ sink_queue'[j] = b
    BY <1>4 DEF InFront
  <2>2. i \in Places
    BY <1>1, <2>1 DEF Places
  <2>3. CASE j \in Places
    BY <1>1, <2>1, <2>2, <2>3 DEF InFront
  <2>4. CASE j = Len(sink_queue) + 1
    BY <1>1, <2>1, <2>2, <2>4 DEF Waiting
  <2> QED
    BY <1>2, <2>3, <2>4
<1> QED
  BY <1>3, <1>4

\* What is left of the queue without its i-th place.
Gap(i) ==
    /\ Len(sink_queue') = Len(sink_queue) - 1
    /\ \A k \in 1..(i - 1) : sink_queue'[k] = sink_queue[k]
    /\ \A k \in i..(Len(sink_queue) - 1) : sink_queue'[k] = sink_queue[k + 1]

\* Nobody else loses the place, and nobody overtakes.
LEMMA Closes ==
    ASSUME sink_queue \in Seq(Tasks), NEW i \in Places, Gap(i),
           ~InFront(sink_queue[i], sink_queue[i])
    PROVE  /\ Waiting' = Waiting \ {sink_queue[i]}
           /\ \A a, b : InFront(a, b)' => InFront(a, b)
<1> DEFINE Old(k) == IF k < i THEN k ELSE k + 1
           New(k) == IF k < i THEN k ELSE k - 1
<1>1. Len(sink_queue) \in Nat /\ i \in Nat /\ i >= 1 /\ i <= Len(sink_queue)
  BY QueueTypes DEF Places
<1>2. \A k \in Places' : Old(k) \in Places /\ Old(k) # i /\ sink_queue'[k] = sink_queue[Old(k)]
  BY <1>1 DEF Places, Gap
<1>3. \A k \in Places : k # i => New(k) \in Places' /\ Old(New(k)) = k
  BY <1>1 DEF Places, Gap
<1>4. \A k, l \in Places' : k < l => Old(k) < Old(l)
  BY <1>1 DEF Places, Gap
<1> HIDE DEF Old, New
<1>5. \A k \in Places : k # i => sink_queue[k] # sink_queue[i]
  BY <1>1 DEF InFront, Places
<1>6. Waiting' \subseteq Waiting \ {sink_queue[i]}
  BY <1>2, <1>5 DEF Waiting
<1>7. Waiting \ {sink_queue[i]} \subseteq Waiting'
  <2> SUFFICES ASSUME NEW k \in Places, sink_queue[k] # sink_queue[i]
               PROVE  sink_queue[k] \in Waiting'
    BY DEF Waiting
  <2>1. New(k) \in Places' /\ sink_queue'[New(k)] = sink_queue[k]
    BY <1>2, <1>3
  <2> QED
    BY <2>1 DEF Waiting
<1>8. ASSUME NEW a, NEW b, InFront(a, b)' PROVE InFront(a, b)
  <2>1. PICK k \in Places', l \in Places' :
          k < l /\ sink_queue'[k] = a /\ sink_queue'[l] = b
    BY <1>8 DEF InFront
  <2> QED
    BY <1>2, <1>4, <2>1 DEF InFront
<1> QED
  BY <1>6, <1>7, <1>8

\* The task that is granted the mutex is in front of all others, and goes.
LEMMA HeadGoes ==
    ASSUME sink_queue \in Seq(Tasks), NEW t, Granted(t), ~InFront(t, t),
           sink_queue' = Tail(sink_queue)
    PROVE  /\ t \in Waiting /\ Waiting' = Waiting \ {t}
           /\ \A a, b : InFront(a, b)' => InFront(a, b)
           /\ \A b \in Waiting : b # t => InFront(t, b)
<1>1. /\ Len(sink_queue) \in Nat /\ Len(sink_queue) # 0
      /\ sink_queue[1] = t
      /\ Len(Tail(sink_queue)) = Len(sink_queue) - 1
      /\ \A k \in 1..(Len(sink_queue) - 1) : Tail(sink_queue)[k] = sink_queue[k + 1]
  <2>1. sink_queue # <<>> /\ Head(sink_queue) = t
    BY DEF Granted
  <2>2. Len(sink_queue) \in Nat \ {0}
    BY <2>1, EmptySeq
  <2>3. Head(sink_queue) = sink_queue[1]
    OBVIOUS
  <2> QED
    BY <2>1, <2>2, <2>3, HeadTailProperties
<1>2. 1 \in Places
  BY <1>1 DEF Places
<1>3. Gap(1)
  BY <1>1 DEF Gap
<1>4. \A b \in Waiting : b # t => InFront(t, b)
  BY <1>1, <1>2 DEF Waiting, InFront, Places
<1> QED
  BY <1>1, <1>2, <1>3, <1>4, Closes DEF Waiting

\* A task that is dropped while it waits goes too.
LEMMA Leaves ==
    ASSUME sink_queue \in Seq(Tasks), NEW t, Leave(t), ~InFront(t, t)
    PROVE  /\ Waiting' = Waiting \ {t}
           /\ \A a, b : InFront(a, b)' => InFront(a, b)
<1>1. PICK i \in Places :
          /\ sink_queue[i] = t
          /\ sink_queue' = SubSeq(sink_queue, 1, i - 1)
                             \o SubSeq(sink_queue, i + 1, Len(sink_queue))
  BY DEF Leave, Places
<1>2. Len(sink_queue) \in Nat /\ i \in 1..Len(sink_queue)
  BY QueueTypes DEF Places
<1>3. \A k \in Places : sink_queue[k] \in Tasks
  BY ElementOfSeq DEF Places
<1> DEFINE front == SubSeq(sink_queue, 1, i - 1)
           back == SubSeq(sink_queue, i + 1, Len(sink_queue))
<1>4. /\ front \in Seq(Tasks) /\ Len(front) = i - 1
      /\ \A k \in 1..(i - 1) : front[k] = sink_queue[k]
  <2>1. \A k \in 1..(i - 1) : sink_queue[k] \in Tasks
    BY <1>2, <1>3 DEF Places
  <2>2. /\ front \in Seq(Tasks)
        /\ Len(front) = IF 1 <= i - 1 THEN i - 1 - 1 + 1 ELSE 0
        /\ \A k \in 1..(i - 1 - 1 + 1) : front[k] = sink_queue[1 + k - 1]
    BY <1>2, <2>1, SubSeqProperties
  <2> QED
    BY <1>2, <2>2
<1>5. /\ back \in Seq(Tasks) /\ Len(back) = Len(sink_queue) - i
      /\ \A k \in 1..(Len(sink_queue) - i) : back[k] = sink_queue[i + k]
  <2>1. \A k \in (i + 1)..Len(sink_queue) : sink_queue[k] \in Tasks
    BY <1>2, <1>3 DEF Places
  <2>2. /\ back \in Seq(Tasks)
        /\ Len(back) = IF i + 1 <= Len(sink_queue)
                         THEN Len(sink_queue) - (i + 1) + 1 ELSE 0
        /\ \A k \in 1..(Len(sink_queue) - (i + 1) + 1) : back[k] = sink_queue[(i + 1) + k - 1]
    BY <1>2, <2>1, SubSeqProperties
  <2> QED
    BY <1>2, <2>2
<1> HIDE DEF front, back
<1>6. /\ Len(front \o back) = Len(front) + Len(back)
      /\ \A k \in 1..(Len(front) + Len(back)) :
           (front \o back)[k] = IF k <= Len(front) THEN front[k] ELSE back[k - Len(front)]
  BY <1>4, <1>5, ConcatProperties
<1>7. sink_queue' = front \o back
  BY <1>1 DEF front, back
<1>8. Gap(i)
  <2>1. Len(sink_queue') = Len(sink_queue) - 1
    <3>1. Len(sink_queue') = Len(front) + Len(back)
      BY ONLY <1>6, <1>7
    <3> QED
      BY ONLY <1>2, <1>4, <1>5, <3>1
  <2>2. ASSUME NEW k \in 1..(i - 1) PROVE sink_queue'[k] = sink_queue[k]
    <3>1. k \in 1..(Len(front) + Len(back)) /\ k <= Len(front)
      BY <1>2, <1>4, <1>5
    <3> QED
      BY <1>4, <1>6, <1>7, <3>1
  <2>3. ASSUME NEW k \in i..(Len(sink_queue) - 1) PROVE sink_queue'[k] = sink_queue[k + 1]
    <3>1. /\ k \in 1..(Len(front) + Len(back)) /\ ~(k <= Len(front))
          /\ k - Len(front) \in 1..(Len(sink_queue) - i)
          /\ i + (k - Len(front)) = k + 1
      BY <1>2, <1>4, <1>5
    <3>2. sink_queue'[k] = back[k - Len(front)]
      BY <1>6, <1>7, <3>1
    <3> QED
      BY <1>5, <3>1, <3>2
  <2> QED
    BY <2>1, <2>2, <2>3 DEF Gap
<1> QED
  BY <1>1, <1>8, Closes

-----------------------------------------------------------------------------
(***************************************************************************)
(* The mutex is FIFO: three shapes of step.                                *)
(***************************************************************************)
Asking == loop \in {"installing", "clearing"}

\* A task asks: everybody in progress was ahead of it.
LEMMA JoinStep ==
    ASSUME TypeOK, LockInv, TimedTypeOK, QueueInv, NEW t \in Tasks, t \notin Waiting,
           Enqueue(t), Asks(t), sink_lock' = sink_lock,
           \A r \in Requests : state'[r] = "queued" <=> (state[r] = "queued" \/ r = t),
           \A r \in Requests : state[r] # "idle" => state'[r] # "idle",
           Asking' <=> (Asking \/ t = Loop)
    PROVE  QueueInv'
<1>1. sink_queue \in Seq(Tasks)
  BY DEF TypeOK, Tasks
<1>2. /\ Waiting' = Waiting \cup {t}
      /\ \A a, b : InFront(a, b)' => InFront(a, b) \/ (a \in Waiting /\ b = t)
      /\ Waiting \subseteq Tasks
  BY <1>1, Joins, QueueTypes
<1>3. ahead' = [ahead EXCEPT ![t] = {r \in Requests : InProgress(r)}]
  BY DEF Asks
<1>4. /\ ahead'[t] = {r \in Requests : InProgress(r)}
      /\ \A b \in Tasks : b # t => ahead'[b] = ahead[b]
      /\ \A b \in Tasks : ahead[b] \subseteq Requests
  BY <1>3 DEF TimedTypeOK
<1>5. \A a, b : InFront(a, b) => a \in Waiting /\ b \in Waiting
  BY DEF InFront, Waiting
<1>6. \A r \in Requests : r \in Waiting' <=> state'[r] = "queued"
  BY <1>2 DEF QueueInv
<1>7. Loop \in Waiting' <=> loop' \in {"installing", "clearing"}
  BY <1>2 DEF QueueInv, Asking
<1>8. \A b \in Tasks : ~InFront(b, b)'
  BY <1>2 DEF QueueInv
<1>9. \A r \in Requests, b \in Tasks : InFront(r, b)' => r \in ahead'[b]
  <2> SUFFICES ASSUME NEW r \in Requests, NEW b \in Tasks, InFront(r, b)'
               PROVE  r \in ahead'[b]
    OBVIOUS
  <2>1. CASE InFront(r, b)
    <3>1. b # t /\ r \in ahead[b]
      BY <1>5, <2>1 DEF QueueInv
    <3> QED
      BY <1>4, <3>1
  <2>2. CASE r \in Waiting /\ b = t
    <3>1. InProgress(r)
      BY <2>2 DEF QueueInv, InProgress
    <3> QED
      BY <1>4, <2>2, <3>1
  <2> QED
    BY <1>2, <2>1, <2>2
<1>10. sink_lock' # Nobody => \A b \in Waiting' : sink_lock' \in ahead'[b]
  <2> SUFFICES ASSUME sink_lock # Nobody, NEW b \in Waiting'
               PROVE  sink_lock \in ahead'[b]
    OBVIOUS
  <2>1. sink_lock \in Requests /\ InProgress(sink_lock)
    BY DEF TypeOK, LockInv, OneInProgress, InProgress
  <2>2. CASE b = t
    BY <1>4, <2>1, <2>2
  <2>3. CASE b # t
    BY <1>2, <1>4, <2>3 DEF QueueInv
  <2> QED
    BY <2>2, <2>3
<1>11. \A b \in Tasks : \A r \in ahead'[b] : state'[r] # "idle"
  <2> SUFFICES ASSUME NEW b \in Tasks, NEW r \in ahead'[b] PROVE state'[r] # "idle"
    OBVIOUS
  <2>1. r \in Requests /\ state[r] # "idle"
    BY <1>4 DEF QueueInv, InProgress, Holding
  <2> QED
    BY <2>1
<1> QED
  BY <1>6, <1>7, <1>8, <1>9, <1>10, <1>11 DEF QueueInv

\* A task is through with the mutex, or has left the queue; if it has got the
\* mutex it was in front of all who are left.
LEMMA LeaveStep ==
    ASSUME TypeOK, TimedTypeOK, QueueInv, NEW t \in Tasks,
           Waiting' = Waiting \ {t}, \A a, b : InFront(a, b)' => InFront(a, b),
           ahead' = ahead \/ Finishes(t),
           \/ sink_lock' \in {sink_lock, Nobody}
           \/ sink_lock' = t /\ t \in Requests /\ \A b \in Waiting : b # t => InFront(t, b),
           \A r \in Requests :
               state'[r] = "queued" <=> (state[r] = "queued" /\ r # t),
           \A r \in Requests : state[r] # "idle" => state'[r] # "idle",
           Asking' <=> (Asking /\ t # Loop)
    PROVE  QueueInv'
<1>1. /\ \A b \in Tasks : b # t => ahead'[b] = ahead[b]
      /\ \A b \in Tasks : ahead'[b] \subseteq ahead[b] /\ ahead[b] \subseteq Requests
  BY DEF TimedTypeOK, Finishes
<1>2. \A b \in Waiting' : b \in Waiting /\ b # t /\ b \in Tasks
  BY QueueTypes DEF TypeOK, Tasks
<1>3. \A a, b : InFront(a, b)' => b \in Waiting'
  BY DEF InFront, Waiting
<1>4. \A r \in Requests : r \in Waiting' <=> state'[r] = "queued"
  BY DEF QueueInv
<1>5. Loop \in Waiting' <=> loop' \in {"installing", "clearing"}
  BY DEF QueueInv, Asking
<1>6. \A b \in Tasks : ~InFront(b, b)'
  BY DEF QueueInv
<1>7. \A r \in Requests, b \in Tasks : InFront(r, b)' => r \in ahead'[b]
  BY <1>1, <1>2, <1>3 DEF QueueInv
<1>8. sink_lock' # Nobody => \A b \in Waiting' : sink_lock' \in ahead'[b]
  BY <1>1, <1>2 DEF QueueInv
<1>9. \A b \in Tasks : \A r \in ahead'[b] : state'[r] # "idle"
  BY <1>1 DEF QueueInv
<1> QED
  BY <1>4, <1>5, <1>6, <1>7, <1>8, <1>9 DEF QueueInv

\* Nobody joins or leaves.
LEMMA StayStep ==
    ASSUME TimedTypeOK, QueueInv, sink_queue' = sink_queue, ahead' = ahead,
           sink_lock' = sink_lock,
           \A r \in Requests : state'[r] = "queued" <=> state[r] = "queued",
           \A r \in Requests : state[r] # "idle" => state'[r] # "idle",
           Asking' <=> Asking
    PROVE  QueueInv'
<1>1. Waiting' = Waiting /\ \A a, b : InFront(a, b)' <=> InFront(a, b)
  BY DEF Waiting, InFront, Places
<1>2. \A b \in Tasks : ahead[b] \subseteq Requests
  BY DEF TimedTypeOK
<1>3. /\ \A r \in Requests : r \in Waiting' <=> state'[r] = "queued"
      /\ Loop \in Waiting' <=> loop' \in {"installing", "clearing"}
  BY <1>1 DEF QueueInv, Asking
<1>4. /\ \A t \in Tasks : ~InFront(t, t)'
      /\ \A r \in Requests, t \in Tasks : InFront(r, t)' => r \in ahead'[t]
      /\ sink_lock' # Nobody => \A t \in Waiting' : sink_lock' \in ahead'[t]
  BY <1>1 DEF QueueInv
<1>5. \A t \in Tasks : \A r \in ahead'[t] : state'[r] # "idle"
  BY <1>2 DEF QueueInv
<1> QED
  BY <1>3, <1>4, <1>5 DEF QueueInv

\* The queue of the mutex and who was ahead of whom, step by step.
LEMMA QueueStep ==
    TypeOK /\ LockInv /\ TimedTypeOK /\ QueueInv /\ [TimedNext]_timedVars => QueueInv'
<1> SUFFICES ASSUME TypeOK, LockInv, TimedTypeOK, QueueInv, [TimedNext]_timedVars
             PROVE  QueueInv'
  OBVIOUS
<1>a. /\ sink_queue \in Seq(Tasks) /\ \A t : ~InFront(t, t)
      /\ state \in [Requests -> {"idle", "queued"} \cup Holding \cup Ended]
  <2>1. sink_queue \in Seq(Tasks) /\ Waiting \subseteq Tasks
    BY QueueTypes DEF TypeOK, Tasks
  <2>2. \A t : InFront(t, t) => t \in Waiting
    BY DEF InFront, Waiting
  <2> QED
    BY <2>1, <2>2 DEF QueueInv, TypeOK
<1>b. /\ \A r \in Requests : r \in Tasks /\ r # Loop
      /\ Loop \in Tasks
  BY TasksDiffer DEF Tasks
<1>c. /\ \A r \in Requests : r \in Waiting <=> state[r] = "queued"
      /\ Loop \in Waiting <=> Asking
  BY DEF QueueInv, Asking
<1>d. "idle" # "queued" /\ \A x \in Holding \cup Ended : x # "queued" /\ x # "idle"
  BY DEF Holding, Ended, Failures
<1>1. ASSUME NEW r \in Requests, TimedCall(r) PROVE QueueInv'
  <2>1. /\ state[r] = "idle" /\ Enqueue(r) /\ Asks(r)
        /\ state' = [state EXCEPT ![r] = "queued"]
        /\ sink_lock' = sink_lock /\ loop' = loop
    BY <1>1 DEF TimedCall, Call
  <2>2. /\ \A s \in Requests : state'[s] = "queued" <=> (state[s] = "queued" \/ s = r)
        /\ \A s \in Requests : state[s] # "idle" => state'[s] # "idle"
    BY <1>a, <2>1
  <2>3. r \notin Waiting /\ (Asking' <=> (Asking \/ r = Loop))
    BY <1>b, <1>c, <2>1 DEF Asking
  <2> QED
    BY <1>b, <2>1, <2>2, <2>3, JoinStep
<1>2. ASSUME NEW r \in Requests, NotConnected(r), Finishes(r) PROVE QueueInv'
  <2>1. /\ Granted(r) /\ sink_queue' = Tail(sink_queue)
        /\ state' = [state EXCEPT ![r] = "not_connected"]
        /\ sink_lock' = sink_lock /\ loop' = loop
    BY <1>2 DEF NotConnected
  <2>2. /\ \A s \in Requests : state'[s] = "queued" <=> (state[s] = "queued" /\ s # r)
        /\ \A s \in Requests : state[s] # "idle" => state'[s] # "idle"
    BY <1>a, <2>1
  <2>3. Waiting' = Waiting \ {r} /\ \A a, b : InFront(a, b)' => InFront(a, b)
    BY <1>a, <2>1, HeadGoes
  <2> QED
    BY <1>2, <1>b, <2>1, <2>2, <2>3, LeaveStep DEF Asking
<1>3. ASSUME NEW r \in Requests, Register(r), UNCHANGED clockVars PROVE QueueInv'
  <2>1. /\ Granted(r) /\ sink_queue' = Tail(sink_queue)
        /\ state' = [state EXCEPT ![r] = "sending"]
        /\ sink_lock' = r /\ loop' = loop /\ ahead' = ahead
    BY <1>3 DEF Register, clockVars
  <2>2. /\ \A s \in Requests : state'[s] = "queued" <=> (state[s] = "queued" /\ s # r)
        /\ \A s \in Requests : state[s] # "idle" => state'[s] # "idle"
    BY <1>a, <2>1
  <2>3. /\ Waiting' = Waiting \ {r} /\ \A a, b : InFront(a, b)' => InFront(a, b)
        /\ \A b \in Waiting : b # r => InFront(r, b)
    BY <1>a, <2>1, HeadGoes
  <2> QED
    BY <1>b, <2>1, <2>2, <2>3, LeaveStep DEF Asking
<1>4. ASSUME NEW r \in Requests, SendFrame(r) \/ TimeoutElapses(r), UNCHANGED ahead
      PROVE  QueueInv'
  <2>1. /\ state[r] \in Holding
        /\ \E x \in Holding : state' = [state EXCEPT ![r] = x]
        /\ UNCHANGED <<sink_lock, sink_queue, loop>>
    BY <1>4 DEF SendFrame, TimeoutElapses, lockVars, Holding
  <2>2. /\ \A s \in Requests : state'[s] = "queued" <=> state[s] = "queued"
        /\ \A s \in Requests : state[s] # "idle" => state'[s] # "idle"
    BY <1>a, <1>d, <2>1
  <2> QED
    BY <1>4, <2>1, <2>2, StayStep DEF Asking
<1>5. ASSUME NEW r \in Requests, SendFails(r) \/ ReceiveResponse(r) \/ RemoveTimedOut(r),
             Finishes(r)
      PROVE  QueueInv'
  <2>1. /\ state[r] \in Holding
        /\ \E x \in Ended : state' = [state EXCEPT ![r] = x]
        /\ sink_lock' = Nobody /\ UNCHANGED <<sink_queue, loop>>
    BY <1>5 DEF SendFails, ReceiveResponse, RemoveTimedOut, Holding, Ended, Failures,
                EndsAs, TypeOK
  <2>2. /\ \A s \in Requests : state'[s] = "queued" <=> (state[s] = "queued" /\ s # r)
        /\ \A s \in Requests : state[s] # "idle" => state'[s] # "idle"
    BY <1>a, <1>d, <2>1
  <2>3. r \notin Waiting
    BY <1>c, <1>d, <2>1
  <2>4. Waiting' = Waiting \ {r} /\ \A a, b : InFront(a, b)' => InFront(a, b)
    BY <2>1, <2>3 DEF Waiting, InFront, Places
  <2> QED
    BY <1>5, <1>b, <2>1, <2>2, <2>4, LeaveStep DEF Asking
<1>6. ASSUME NEW r \in Requests, TimedDrop(r) PROVE QueueInv'
  <2>1. /\ state[r] \in {"queued"} \cup Holding
        /\ state' = [state EXCEPT ![r] = "dropped"] /\ "dropped" \in Ended
        /\ loop' = loop /\ Finishes(r)
        /\ IF state[r] = "queued" THEN Leave(r) /\ sink_lock' = sink_lock
                                  ELSE sink_lock' = Nobody /\ sink_queue' = sink_queue
    BY <1>6 DEF TimedDrop, DropFuture, Ended
  <2>2. /\ \A s \in Requests : state'[s] = "queued" <=> (state[s] = "queued" /\ s # r)
        /\ \A s \in Requests : state[s] # "idle" => state'[s] # "idle"
    BY <1>a, <1>d, <2>1
  <2>3. Waiting' = Waiting \ {r} /\ \A a, b : InFront(a, b)' => InFront(a, b)
    <3>1. CASE state[r] = "queued"
      BY <1>a, <2>1, <3>1, Leaves
    <3>2. CASE state[r] # "queued"
      BY <1>c, <2>1, <3>2 DEF Waiting, InFront, Places
    <3> QED
      BY <3>1, <3>2
  <2> QED
    BY <1>b, <2>1, <2>2, <2>3, LeaveStep DEF Asking
<1>7. ASSUME ConnectOk \/ StopReading, Asks(Loop) PROVE QueueInv'
  <2>1. /\ Enqueue(Loop) /\ UNCHANGED <<state, sink_lock>>
        /\ ~Asking /\ Asking'
    BY <1>7 DEF ConnectOk, StopReading, callVars, Asking
  <2> QED
    BY <1>7, <1>b, <1>c, <2>1, JoinStep
<1>8. ASSUME InstallSink \/ ClearSink, Finishes(Loop) PROVE QueueInv'
  <2>1. /\ Granted(Loop) /\ sink_queue' = Tail(sink_queue)
        /\ UNCHANGED <<state, sink_lock>> /\ ~Asking'
    BY <1>8 DEF InstallSink, ClearSink, callVars, Asking
  <2>2. Waiting' = Waiting \ {Loop} /\ \A a, b : InFront(a, b)' => InFront(a, b)
    BY <1>a, <2>1, HeadGoes
  <2> QED
    BY <1>8, <1>b, <2>1, <2>2, LeaveStep
<1>9. ASSUME \/ ConnectErr \/ DrainPending \/ Reconnect
             \/ \E m \in inbound : HandleIncomingMessage(m),
             UNCHANGED ahead
      PROVE  QueueInv'
  <2>1. UNCHANGED <<state, sink_lock, sink_queue>> /\ ~Asking /\ ~Asking'
    BY <1>9 DEF ConnectErr, DrainPending, Reconnect, HandleIncomingMessage, callVars,
                lockVars, Asking
  <2> QED
    BY <1>9, <2>1, StayStep
<1>10. ASSUME NodeStep \/ Tick \/ UNCHANGED timedVars, UNCHANGED ahead PROVE QueueInv'
  <2>1. UNCHANGED <<state, sink_lock, sink_queue, loop>>
    BY <1>10 DEF NodeStep, LinkLost, NodeRuns, NodeAnswers, Tick, timedVars, vars,
                 callVars, lockVars
  <2> QED
    BY <1>10, <2>1, StayStep DEF Asking
<1>11. ASSUME NEW r \in Requests, TimedRequest(r) PROVE QueueInv'
  BY <1>2, <1>3, <1>4, <1>5, <1>11 DEF TimedRequest
<1>12. CASE TimedLoop
  BY <1>7, <1>8, <1>9, <1>12 DEF TimedLoop, StreamEnds, StreamErrs, clockVars
<1>13. ASSUME (NodeStep /\ UNCHANGED clockVars) \/ Tick \/ UNCHANGED timedVars
       PROVE  QueueInv'
  BY <1>10, <1>13 DEF clockVars, timedVars, Tick
<1> QED
  BY <1>1, <1>6, <1>11, <1>12, <1>13 DEF TimedNext

-----------------------------------------------------------------------------
(***************************************************************************)
(* The price of a place in the queue.                                      *)
(***************************************************************************)
Gone(t) == {r \in ahead[t] : ~InProgress(r)}
Cost(S) == RequestTimeout * Cardinality(S)

\* What the holder has used of its timeout.
Used(r) == IF state[r] = "expired" THEN RequestTimeout ELSE timer[r]
Turn == IF sink_lock = Nobody THEN 0 ELSE Used(sink_lock)

TimeInv ==
    /\ \A r \in Requests : state[r] # "waiting" => timer[r] = 0
    /\ \A t \in Waiting : waited[t] <= Cost(Gone(t)) + Turn
    /\ \A r \in Requests : state[r] \in Holding => waited[r] <= Cost(ahead[r]) + Used(r)

\* Cost is a number that grows with the set, by a timeout for each element.
LEMMA CostGrows ==
    ASSUME NEW T \in SUBSET Requests, NEW S \in SUBSET T
    PROVE  /\ Cost(S) \in Nat /\ Cost(T) \in Nat
           /\ Cost(S) <= Cost(T)
           /\ \A x \in T \ S : Cost(S) + RequestTimeout <= Cost(T)
<1>1. IsFiniteSet(Requests) /\ RequestTimeout \in Nat
  BY TicksAreCounted
<1>2. IsFiniteSet(T)
  BY <1>1, FS_Subset
<1>3. IsFiniteSet(S) /\ Cardinality(S) <= Cardinality(T)
  BY <1>2, FS_Subset
<1>4. Cardinality(S) \in Nat /\ Cardinality(T) \in Nat
  BY <1>2, <1>3, FS_CardinalityType
<1>5. \A m, n \in Nat : RequestTimeout * m \in Nat /\ (m <= n => RequestTimeout * m <= RequestTimeout * n)
  BY <1>1
<1>6. \A n \in Nat : RequestTimeout * (n + 1) = RequestTimeout * n + RequestTimeout
  BY <1>1
<1>7. ASSUME NEW x \in T \ S PROVE Cost(S) + RequestTimeout <= Cost(T)
  <2>1. Cardinality(S \cup {x}) = Cardinality(S) + 1
    BY <1>3, FS_AddElement
  <2>2. Cardinality(S \cup {x}) <= Cardinality(T)
    BY <1>2, FS_Subset
  <2>3. RequestTimeout * (Cardinality(S) + 1) <= RequestTimeout * Cardinality(T)
    BY <1>4, <1>5, <2>1, <2>2
  <2> QED
    BY <1>4, <1>6, <2>3 DEF Cost
<1> QED
  BY <1>3, <1>4, <1>5, <1>7 DEF Cost

\* A task that goes on waiting: nobody ahead of it begins again, and what the
\* holder has used is kept, or becomes the whole timeout of one who is gone.
LEMMA WaitKept ==
    ASSUME TypeOK, LockInv, TimedTypeOK, QueueInv, TimeInv,
           NEW t \in Waiting, waited'[t] = waited[t], ahead'[t] = ahead[t],
           \A r \in Requests : state[r] # "idle" /\ ~InProgress(r) => ~InProgress(r)',
           Turn' \in Nat,
           \/ Turn' >= Turn
           \/ \E h \in Requests : h = sink_lock /\ ~InProgress(h)'
    PROVE  waited'[t] <= (Cost(Gone(t)) + Turn)'
<1>1. t \in Tasks
  BY QueueTypes DEF TypeOK, Tasks
<1>2. ahead[t] \subseteq Requests /\ waited[t] \in Nat
  BY <1>1 DEF TimedTypeOK
<1>3. Gone(t) \subseteq Gone(t)' /\ Gone(t)' \subseteq Requests
  BY <1>1, <1>2 DEF Gone, QueueInv
<1>4. waited[t] <= Cost(Gone(t)) + Turn
  BY DEF TimeInv
<1>5. Cost(Gone(t))' = Cost(Gone(t)')
  BY DEF Cost
<1>6. Cost(Gone(t)) \in Nat /\ Cost(Gone(t)') \in Nat /\ Cost(Gone(t)) <= Cost(Gone(t)')
  BY <1>3, CostGrows
<1>7. Turn \in Nat
  BY TicksAreCounted DEF Turn, Used, TimedTypeOK, TypeOK, Tasks
<1>8. CASE Turn' >= Turn
  BY <1>2, <1>4, <1>5, <1>6, <1>7, <1>8
<1>9. ASSUME NEW h \in Requests, h = sink_lock, ~InProgress(h)'
      PROVE  waited'[t] <= (Cost(Gone(t)) + Turn)'
  <2>1. h \in ahead[t] /\ InProgress(h)
    BY <1>9, TasksDiffer DEF QueueInv, LockInv, OneInProgress, InProgress
  <2>2. h \in Gone(t)' \ Gone(t)
    BY <1>9, <2>1 DEF Gone
  <2>3. Cost(Gone(t)) + RequestTimeout <= Cost(Gone(t)')
    BY <1>3, <2>2, CostGrows
  <2>4. Turn <= RequestTimeout /\ RequestTimeout \in Nat
    BY <1>9, TicksAreCounted, TasksDiffer DEF Turn, Used, TimedTypeOK, Tasks
  <2> QED
    BY <1>2, <1>4, <1>5, <1>6, <1>7, <2>3, <2>4
<1> QED
  BY <1>8, <1>9

\* The numbers of TimeInv are natural numbers.
Counted ==
    /\ Turn \in Nat
    /\ \A r \in Requests : Used(r) \in Nat /\ timer[r] \in Nat
    /\ Waiting \subseteq Tasks
    /\ \A t \in Tasks : /\ waited[t] \in Nat
                        /\ Cost(ahead[t]) \in Nat /\ Cost(Gone(t)) \in Nat
                        /\ Cost(Gone(t)) <= Cost(ahead[t])

\* Timers and waits are counted in ticks, and sets of calls are finite.
LEMMA Numbers == TypeOK /\ TimedTypeOK => Counted
<1> SUFFICES ASSUME TypeOK, TimedTypeOK PROVE Counted
  OBVIOUS
<1>1. \A r \in Requests : Used(r) \in Nat /\ timer[r] \in Nat
  BY TicksAreCounted DEF Used, TimedTypeOK, Tasks
<1>2. Turn \in Nat
  BY <1>1 DEF Turn, TypeOK
<1>3. ASSUME NEW t \in Tasks
      PROVE  /\ waited[t] \in Nat
             /\ Cost(ahead[t]) \in Nat /\ Cost(Gone(t)) \in Nat
             /\ Cost(Gone(t)) <= Cost(ahead[t])
  <2>1. ahead[t] \in SUBSET Requests /\ Gone(t) \in SUBSET ahead[t] /\ waited[t] \in Nat
    BY <1>3 DEF TimedTypeOK, Gone
  <2> QED
    BY <2>1, CostGrows
<1>4. Waiting \subseteq Tasks
  BY QueueTypes DEF TypeOK, Tasks
<1> QED
  BY <1>1, <1>2, <1>3, <1>4 DEF Counted

\* A call ends, or is dropped: the others wait on.
LEMMA EndStep ==
    ASSUME TypeOK, LockInv, TimedTypeOK, QueueInv, TimeInv, TypeOK', TimedTypeOK',
           NEW r \in Requests, Waiting' \subseteq Waiting \ {r},
           NEW x \in Ended, state' = [state EXCEPT ![r] = x], Finishes(r),
           timer'[r] = 0, \A s \in Requests : s # r => timer'[s] = timer[s],
           \/ sink_lock # r /\ sink_lock' = sink_lock
           \/ sink_lock = r /\ sink_lock' = Nobody
    PROVE  TimeInv'
<1>a. \A y \in Ended : y \notin {"idle", "queued", "waiting", "expired"} \cup Holding
  BY DEF Ended, Failures, Holding
<1>b. /\ state'[r] = x
      /\ \A s \in Requests : s # r => state'[s] = state[s]
      /\ \A t \in Tasks : t # r => waited'[t] = waited[t] /\ ahead'[t] = ahead[t]
  BY DEF TypeOK, TimedTypeOK, Finishes, Tasks
<1>c. Counted'
  BY Numbers, PTL
<1>1. \A s \in Requests : state'[s] # "waiting" => timer'[s] = 0
  BY <1>b DEF TimeInv
<1>2. ASSUME NEW t \in Waiting' PROVE waited'[t] <= (Cost(Gone(t)) + Turn)'
  <2>1. t \in Waiting /\ t # r /\ t \in Tasks
    BY QueueTypes DEF TypeOK, Tasks
  <2>2. \A s \in Requests : state[s] # "idle" /\ ~InProgress(s) => ~InProgress(s)'
    BY <1>a, <1>b DEF InProgress
  <2>3. Turn' \in Nat
    BY <1>c DEF Counted
  <2>4. \/ Turn' >= Turn
        \/ \E h \in Requests : h = sink_lock /\ ~InProgress(h)'
    <3>1. CASE sink_lock # r /\ sink_lock' = sink_lock
      <4>1. Turn' = Turn
        BY <1>b, <3>1 DEF Turn, Used, TypeOK
      <4> QED
        BY <2>3, <4>1
    <3>2. CASE sink_lock = r
      BY <1>a, <1>b, <3>2 DEF InProgress
    <3> QED
      BY <3>1, <3>2
  <2> QED
    BY <1>b, <2>1, <2>2, <2>3, <2>4, WaitKept
<1>3. ASSUME NEW s \in Requests, state'[s] \in Holding
      PROVE  waited'[s] <= (Cost(ahead[s]) + Used(s))'
  <2>1. s # r /\ s \in Tasks
    BY <1>a, <1>b, <1>3 DEF Tasks
  <2>2. Used(s)' = Used(s) /\ Cost(ahead[s])' = Cost(ahead[s])
    BY <1>b, <2>1 DEF Used, Cost
  <2> QED
    BY <1>3, <1>b, <2>1, <2>2 DEF TimeInv
<1> QED
  BY <1>1, <1>2, <1>3 DEF TimeInv

\* Nothing changes but who waits: those who do had waited before, or just asked.
LEMMA OtherStep ==
    ASSUME TypeOK, LockInv, TimedTypeOK, QueueInv, TimeInv, TypeOK', TimedTypeOK',
           \A t \in Waiting' : waited'[t] = 0 \/ (t \in Waiting /\ waited'[t] = waited[t]
                                                   /\ ahead'[t] = ahead[t]),
           \A r \in Requests :
             /\ timer'[r] = timer[r]
             /\ state[r] # "idle" => state'[r] = state[r] /\ waited'[r] = waited[r]
                                                          /\ ahead'[r] = ahead[r]
             /\ state[r] = "idle" => state'[r] \in {"idle", "queued"},
           sink_lock' = sink_lock
    PROVE  TimeInv'
<1>a. Turn' = Turn /\ Turn \in Nat
  <2>1. sink_lock # Nobody => sink_lock \in Requests /\ state[sink_lock] \in Holding
    BY DEF TypeOK, LockInv, OneInProgress
  <2>2. Turn' = Turn
    BY <2>1 DEF Turn, Used, Holding
  <2> QED
    BY <2>2, Numbers DEF Counted
<1>b. Counted'
  BY Numbers, PTL
<1>1. \A r \in Requests : state'[r] # "waiting" => timer'[r] = 0
  BY DEF TimeInv
<1>2. ASSUME NEW t \in Waiting' PROVE waited'[t] <= (Cost(Gone(t)) + Turn)'
  <2>1. CASE waited'[t] = 0
    <3>1. t \in Tasks /\ Turn' \in Nat
      BY <1>b DEF Counted
    <3>2. Cost(Gone(t))' \in Nat
      BY <1>b, <3>1 DEF Counted
    <3> QED
      BY <2>1, <3>1, <3>2
  <2>2. CASE t \in Waiting /\ waited'[t] = waited[t] /\ ahead'[t] = ahead[t]
    <3>1. \A r \in Requests : state[r] # "idle" /\ ~InProgress(r) => ~InProgress(r)'
      BY DEF InProgress
    <3> QED
      BY <1>a, <2>2, <3>1, WaitKept
  <2> QED
    BY <2>1, <2>2
<1>3. ASSUME NEW r \in Requests, state'[r] \in Holding
      PROVE  waited'[r] <= (Cost(ahead[r]) + Used(r))'
  <2>1. state[r] # "idle"
    BY <1>3 DEF Holding
  <2>2. Used(r)' = Used(r) /\ Cost(ahead[r])' = Cost(ahead[r])
    BY <2>1 DEF Used, Cost
  <2> QED
    BY <1>3, <2>1, <2>2 DEF TimeInv
<1> QED
  BY <1>1, <1>2, <1>3 DEF TimeInv

\* What a wait has cost, step by step; only a tick adds to it.
LEMMA TimeStep ==
    /\ TypeOK /\ LockInv /\ TimedTypeOK /\ QueueInv /\ TimeInv
    /\ TypeOK' /\ TimedTypeOK' /\ [TimedNext]_timedVars
    => TimeInv'
<1> SUFFICES ASSUME TypeOK, LockInv, TimedTypeOK, QueueInv, TimeInv, TypeOK', TimedTypeOK',
                    [TimedNext]_timedVars
             PROVE  TimeInv'
  OBVIOUS
<1>a. /\ sink_queue \in Seq(Tasks) /\ \A t : ~InFront(t, t)
      /\ state \in [Requests -> {"idle", "queued"} \cup Holding \cup Ended]
      /\ timer \in [Tasks -> Nat] /\ waited \in [Tasks -> Nat]
      /\ ahead \in [Tasks -> SUBSET Requests]
      /\ sink_lock \in Requests \cup {Nobody}
  <2>1. sink_queue \in Seq(Tasks) /\ Waiting \subseteq Tasks
    BY QueueTypes DEF TypeOK, Tasks
  <2>2. \A t : InFront(t, t) => t \in Waiting
    BY DEF InFront, Waiting
  <2> QED
    BY <2>1, <2>2 DEF QueueInv, TypeOK, TimedTypeOK
<1>b. /\ \A r \in Requests : r \in Tasks /\ r # Loop /\ r # Nobody
      /\ Loop \in Tasks
  BY TasksDiffer DEF Tasks
<1>c. \A r \in Requests : r \in Waiting <=> state[r] = "queued"
  BY DEF QueueInv
<1>d. \A x \in Holding \cup Ended : x # "queued" /\ x # "idle"
  BY DEF Holding, Ended, Failures
<1>e. \A r \in Requests : state[r] \in Holding <=> sink_lock = r
  BY DEF LockInv, OneInProgress
<1>f. \A r \in Requests : state[r] # "waiting" => timer[r] = 0
  BY DEF TimeInv
<1>g. Counted /\ Counted'
  BY Numbers, PTL
<1>1. ASSUME NEW r \in Requests, TimedCall(r) PROVE TimeInv'
  <2>1. /\ state[r] = "idle" /\ Enqueue(r)
        /\ state' = [state EXCEPT ![r] = "queued"]
        /\ waited' = [waited EXCEPT ![r] = 0]
        /\ \A t \in Tasks : t # r => ahead'[t] = ahead[t]
        /\ sink_lock' = sink_lock /\ timer' = timer
    BY <1>1, <1>a DEF TimedCall, Call, Asks
  <2>2. Waiting' = Waiting \cup {r}
    BY <1>a, <1>b, <2>1, Joins
  <2>3. \A t \in Waiting' : waited'[t] = 0 \/ (t \in Waiting /\ waited'[t] = waited[t]
                                                 /\ ahead'[t] = ahead[t])
    BY <1>a, <1>g, <2>1, <2>2 DEF Counted
  <2>4. \A s \in Requests :
          /\ timer'[s] = timer[s]
          /\ state[s] # "idle" => state'[s] = state[s] /\ waited'[s] = waited[s]
                                                       /\ ahead'[s] = ahead[s]
          /\ state[s] = "idle" => state'[s] \in {"idle", "queued"}
    BY <1>a, <1>b, <2>1
  <2> QED
    BY <2>1, <2>3, <2>4, OtherStep
<1>2. ASSUME NEW r \in Requests, NotConnected(r), Finishes(r), UNCHANGED timer PROVE TimeInv'
  <2>1. /\ state[r] = "queued" /\ Granted(r) /\ sink_queue' = Tail(sink_queue)
        /\ state' = [state EXCEPT ![r] = "not_connected"] /\ "not_connected" \in Ended
        /\ sink_lock' = sink_lock /\ sink_lock # r
    BY <1>2, <1>b DEF NotConnected, Granted, Ended, Failures
  <2>2. Waiting' \subseteq Waiting \ {r}
    BY <1>a, <2>1, HeadGoes
  <2> QED
    BY <1>2, <1>f, <2>1, <2>2, EndStep
<1>3. ASSUME NEW r \in Requests, Register(r), UNCHANGED clockVars PROVE TimeInv'
  <2>1. /\ state[r] = "queued" /\ Granted(r) /\ sink_queue' = Tail(sink_queue)
        /\ state' = [state EXCEPT ![r] = "sending"]
        /\ sink_lock = Nobody /\ sink_lock' = r
        /\ timer' = timer /\ ahead' = ahead /\ waited' = waited
    BY <1>3 DEF Register, Granted, clockVars
  <2>2. r \in Waiting /\ Waiting' \subseteq Waiting
    BY <1>a, <2>1, HeadGoes
  <2>3. /\ state'[r] = "sending"
        /\ \A s \in Requests : s # r => state'[s] = state[s] /\ state[s] \notin Holding
        /\ \A s \in Requests : state[s] # "idle" /\ ~InProgress(s) => ~InProgress(s)'
    BY <1>a, <1>b, <1>e, <2>1 DEF InProgress
  <2>4. Turn = 0 /\ Turn' = 0 /\ Used(r)' = 0
    BY <1>b, <1>f, <2>1, <2>3 DEF Turn, Used
  <2>5. \A s \in Requests : state'[s] # "waiting" => timer'[s] = 0
    BY <1>f, <2>1, <2>3
  <2>6. \A t \in Waiting' : waited'[t] <= (Cost(Gone(t)) + Turn)'
    BY <2>1, <2>2, <2>3, <2>4, WaitKept
  <2>7. waited'[r] <= (Cost(ahead[r]) + Used(r))'
    <3>1. waited[r] <= Cost(Gone(r)) + Turn
      BY <2>2 DEF TimeInv
    <3>2. waited'[r] = waited[r] /\ Cost(ahead[r])' = Cost(ahead[r])
      BY <2>1 DEF Cost
    <3> QED
      BY <1>b, <1>g, <2>4, <3>1, <3>2 DEF Counted
  <2> QED
    BY <2>3, <2>5, <2>6, <2>7 DEF TimeInv
<1>4. ASSUME NEW r \in Requests, UNCHANGED <<waited, ahead>>, Starts(r),
             \/ SendFrame(r)
             \/ TimeoutElapses(r) /\ timer[r] = RequestTimeout
      PROVE  TimeInv'
  <2>1. /\ state[r] \in Holding /\ sink_lock = r
        /\ \/ state[r] = "sending" /\ state' = [state EXCEPT ![r] = "waiting"]
           \/ state[r] = "waiting" /\ state' = [state EXCEPT ![r] = "expired"]
              /\ timer[r] = RequestTimeout
        /\ UNCHANGED <<sink_lock, sink_queue>>
        /\ timer' = [timer EXCEPT ![r] = 0]
    BY <1>4, <1>e DEF SendFrame, TimeoutElapses, lockVars, Holding, Starts
  <2>2. /\ \A s \in Requests : s # r => state'[s] = state[s] /\ timer'[s] = timer[s]
        /\ timer'[r] = 0
        /\ state'[r] = (IF state[r] = "sending" THEN "waiting" ELSE "expired")
    BY <1>a, <1>b, <2>1
  <2>3. Used(r)' = Used(r) /\ Turn' = Turn
    <3>1. Used(r)' = Used(r)
      BY <1>f, <2>1, <2>2 DEF Used
    <3> QED
      BY <1>b, <2>1, <3>1 DEF Turn
  <2>4. \A s \in Requests : state[s] # "idle" /\ ~InProgress(s) => ~InProgress(s)'
    BY <2>1, <2>2 DEF InProgress, Holding
  <2>5. Waiting' = Waiting /\ waited' = waited /\ ahead' = ahead
    BY <1>4, <2>1 DEF Waiting, Places
  <2>6. \A s \in Requests : state'[s] # "waiting" => timer'[s] = 0
    BY <1>f, <2>2
  <2>7. \A t \in Waiting' : waited'[t] <= (Cost(Gone(t)) + Turn)'
    BY <1>g, <2>3, <2>4, <2>5, WaitKept DEF Counted
  <2>8. \A s \in Requests : state'[s] \in Holding => waited'[s] <= (Cost(ahead[s]) + Used(s))'
    <3> SUFFICES ASSUME NEW s \in Requests, state'[s] \in Holding
                 PROVE  waited'[s] <= (Cost(ahead[s]) + Used(s))'
      OBVIOUS
    <3>1. state[s] \in Holding /\ Used(s)' = Used(s)
      BY <2>1, <2>2, <2>3 DEF Used
    <3>2. Cost(ahead[s])' = Cost(ahead[s])
      BY <2>5 DEF Cost
    <3> QED
      BY <2>5, <3>1, <3>2 DEF TimeInv
  <2> QED
    BY <2>6, <2>7, <2>8 DEF TimeInv
<1>5. ASSUME NEW r \in Requests, Finishes(r),
             \/ SendFails(r) /\ UNCHANGED timer
             \/ ReceiveResponse(r) /\ Starts(r)
             \/ RemoveTimedOut(r) /\ UNCHANGED timer
      PROVE  TimeInv'
  <2>1. /\ state[r] \in Holding /\ sink_lock = r
        /\ \E x \in Ended : state' = [state EXCEPT ![r] = x]
        /\ sink_lock' = Nobody /\ sink_queue' = sink_queue
    BY <1>5, <1>e DEF SendFails, ReceiveResponse, RemoveTimedOut, Holding, Ended, Failures,
                EndsAs, TypeOK
  <2>2. timer'[r] = 0 /\ \A s \in Requests : s # r => timer'[s] = timer[s]
    BY <1>5, <1>a, <1>b, <1>f DEF SendFails, RemoveTimedOut, Starts
  <2>3. Waiting' \subseteq Waiting \ {r}
    BY <1>c, <1>d, <2>1 DEF Waiting, Places
  <2> QED
    BY <1>5, <2>1, <2>2, <2>3, EndStep
<1>6. ASSUME NEW r \in Requests, TimedDrop(r) PROVE TimeInv'
  <2>1. /\ state[r] \in {"queued"} \cup Holding
        /\ state' = [state EXCEPT ![r] = "dropped"] /\ "dropped" \in Ended
        /\ Finishes(r) /\ timer' = [timer EXCEPT ![r] = 0]
        /\ IF state[r] = "queued" THEN Leave(r) /\ sink_lock' = sink_lock
                                  ELSE sink_lock' = Nobody /\ sink_queue' = sink_queue
    BY <1>6 DEF TimedDrop, DropFuture, Ended, Starts
  <2>2. timer'[r] = 0 /\ \A s \in Requests : s # r => timer'[s] = timer[s]
    BY <1>a, <1>b, <2>1
  <2>3. Waiting' \subseteq Waiting \ {r}
    <3>1. CASE state[r] = "queued"
      BY <1>a, <2>1, <3>1, Leaves
    <3>2. CASE state[r] # "queued"
      BY <1>c, <2>1, <3>2 DEF Waiting, Places
    <3> QED
      BY <3>1, <3>2
  <2>4. \/ sink_lock # r /\ sink_lock' = sink_lock
        \/ sink_lock = r /\ sink_lock' = Nobody
    BY <1>d, <1>e, <2>1
  <2> QED
    BY <2>1, <2>2, <2>3, <2>4, EndStep
<1>7. ASSUME ConnectOk \/ StopReading, Asks(Loop), UNCHANGED timer PROVE TimeInv'
  <2>1. /\ Enqueue(Loop) /\ UNCHANGED <<state, sink_lock>>
        /\ waited' = [waited EXCEPT ![Loop] = 0]
        /\ \A t \in Tasks : t # Loop => ahead'[t] = ahead[t]
    BY <1>7, <1>a DEF ConnectOk, StopReading, callVars, Asks
  <2>2. Waiting' = Waiting \cup {Loop}
    BY <1>a, <1>b, <2>1, Joins
  <2>3. \A t \in Waiting' : waited'[t] = 0 \/ (t \in Waiting /\ waited'[t] = waited[t]
                                                 /\ ahead'[t] = ahead[t])
    BY <1>a, <1>b, <1>g, <2>1, <2>2 DEF Counted
  <2>4. \A s \in Requests :
          /\ timer'[s] = timer[s]
          /\ state'[s] = state[s] /\ waited'[s] = waited[s] /\ ahead'[s] = ahead[s]
    BY <1>7, <1>a, <1>b, <2>1
  <2> QED
    BY <2>1, <2>3, <2>4, OtherStep
<1>8. ASSUME InstallSink \/ ClearSink, Finishes(Loop), UNCHANGED timer PROVE TimeInv'
  <2>1. /\ Granted(Loop) /\ sink_queue' = Tail(sink_queue) /\ UNCHANGED <<state, sink_lock>>
        /\ \A t \in Tasks : t # Loop => waited'[t] = waited[t] /\ ahead'[t] = ahead[t]
    BY <1>8, <1>a DEF InstallSink, ClearSink, callVars, Finishes
  <2>2. Waiting' = Waiting \ {Loop}
    BY <1>a, <2>1, HeadGoes
  <2>3. \A t \in Waiting' : t \in Waiting /\ waited'[t] = waited[t] /\ ahead'[t] = ahead[t]
    BY <1>g, <2>1, <2>2 DEF Counted
  <2>4. \A s \in Requests :
          /\ timer'[s] = timer[s]
          /\ state'[s] = state[s] /\ waited'[s] = waited[s] /\ ahead'[s] = ahead[s]
    BY <1>8, <1>b, <2>1
  <2> QED
    BY <2>1, <2>3, <2>4, OtherStep
<1>9. ASSUME UNCHANGED <<state, sink_lock, sink_queue, waited, ahead>>,
             UNCHANGED timer \/ Starts(Loop)
      PROVE  TimeInv'
  <2>1. \A s \in Requests : timer'[s] = timer[s]
    BY <1>9, <1>a, <1>b DEF Starts
  <2>2. Waiting' = Waiting
    BY <1>9 DEF Waiting, Places
  <2> QED
    BY <1>9, <2>1, <2>2, OtherStep
<1>10. CASE Tick
  <2>1. /\ ~Urgent /\ UNCHANGED <<state, sink_lock, sink_queue, ahead>>
        /\ \A s \in Requests : timer'[s] = IF state[s] = "waiting" THEN timer[s] + 1 ELSE timer[s]
        /\ \A t \in Tasks : waited'[t] \in {waited[t], waited[t] + 1}
    BY <1>10, <1>a, <1>b DEF Tick, vars, callVars, lockVars
  <2>2. Waiting' = Waiting
    BY <2>1 DEF Waiting, Places
  <2>3. \A s \in Requests : state[s] \in Holding => state[s] = "waiting" /\ Used(s)' = Used(s) + 1
    BY <2>1 DEF Urgent, Holding, Used
  <2>4. \A s \in Requests : state'[s] # "waiting" => timer'[s] = 0
    BY <1>f, <2>1
  <2>5. ASSUME NEW t \in Waiting' PROVE waited'[t] <= (Cost(Gone(t)) + Turn)'
    <3>1. sink_queue # <<>>
      <4>1. Places # {}
        BY <2>2, <2>5 DEF Waiting
      <4> QED
        BY <4>1, EmptySeq DEF Places
    <3>2. sink_lock \in Requests /\ state[sink_lock] \in Holding
      BY <1>a, <1>e, <2>1, <3>1 DEF Urgent
    <3>3. Turn' = Turn + 1
      BY <1>b, <2>1, <2>3, <3>2 DEF Turn
    <3>4. Cost(Gone(t))' = Cost(Gone(t))
      BY <2>1 DEF Cost, Gone, InProgress
    <3>5. waited[t] <= Cost(Gone(t)) + Turn /\ t \in Tasks
      BY <1>g, <2>2 DEF TimeInv, Counted
    <3> QED
      BY <1>g, <2>1, <3>3, <3>4, <3>5 DEF Counted
  <2>6. ASSUME NEW s \in Requests, state'[s] \in Holding
        PROVE  waited'[s] <= (Cost(ahead[s]) + Used(s))'
    <3>1. waited[s] <= Cost(ahead[s]) + Used(s) /\ Used(s)' = Used(s) + 1
      BY <2>1, <2>3, <2>6 DEF TimeInv
    <3>2. Cost(ahead[s])' = Cost(ahead[s])
      BY <2>1 DEF Cost
    <3> QED
      BY <1>b, <1>g, <2>1, <3>1, <3>2 DEF Counted
  <2> QED
    BY <2>4, <2>5, <2>6 DEF TimeInv
<1>11. ASSUME NEW r \in Requests, TimedRequest(r) PROVE TimeInv'
  BY <1>2, <1>3, <1>4, <1>5, <1>11 DEF TimedRequest
<1>12. CASE TimedLoop
  <2>1. ASSUME \/ ConnectErr \/ DrainPending \/ Reconnect
               \/ \E m \in inbound : HandleIncomingMessage(m),
               UNCHANGED <<waited, ahead>>, UNCHANGED timer \/ Starts(Loop)
        PROVE  TimeInv'
    <3>1. UNCHANGED <<state, sink_lock, sink_queue>>
      BY <2>1 DEF ConnectErr, DrainPending, Reconnect, HandleIncomingMessage, callVars, lockVars
    <3> QED
      BY <1>9, <2>1, <3>1
  <2> QED
    BY <1>7, <1>8, <1>12, <2>1 DEF TimedLoop, StreamEnds, StreamErrs, clockVars
<1>13. ASSUME NodeStep \/ UNCHANGED vars, UNCHANGED clockVars PROVE TimeInv'
  <2>1. UNCHANGED <<state, sink_lock, sink_queue, waited, ahead, timer>>
    BY <1>13 DEF NodeStep, LinkLost, NodeRuns, NodeAnswers, vars, callVars, lockVars, clockVars
  <2> QED
    BY <1>9, <2>1
<1> QED
  BY <1>1, <1>6, <1>10, <1>11, <1>12, <1>13 DEF TimedNext, timedVars

-----------------------------------------------------------------------------
\* Everything that bounds a wait holds in every state.
LEMMA WaitInvHolds ==
    TimedSpec => [](TypeOK /\ LockInv /\ TimedTypeOK /\ QueueInv /\ TimeInv)
<1>1. TimedInit => QueueInv /\ TimeInv
  <2> SUFFICES ASSUME TimedInit PROVE QueueInv /\ TimeInv
    OBVIOUS
  <2>1. /\ \A r \in Requests : state[r] = "idle" /\ timer[r] = 0
        /\ sink_lock = Nobody /\ sink_queue = <<>> /\ loop = "connecting"
        /\ \A t \in Tasks : ahead[t] = {}
    BY DEF TimedInit, Init, Zero, Tasks
  <2>2. Places = {}
    BY <2>1 DEF Places
  <2>3. Waiting = {} /\ \A a, b : ~InFront(a, b)
    BY <2>2 DEF Waiting, InFront
  <2> QED
    BY <2>1, <2>3 DEF QueueInv, TimeInv, Holding
<1>2. TimedSpec => [](TypeOK /\ LockInv)
  BY ClockOnlyRestricts, IndInvHolds, PTL DEF IndInv
<1> QED
  BY <1>1, <1>2, TimersAreServed, QueueStep, TimeStep, PTL DEF TimedSpec

\* One request at a time (client.rs:99-117): a task gets the mutex after at
\* most one timeout for each call ahead of it, and returns one timeout later.
THEOREM WaitIsBounded == TimedSpec => []BoundedWait
<1>1. TypeOK /\ LockInv /\ TimedTypeOK /\ QueueInv /\ TimeInv => BoundedWait
  <2> SUFFICES ASSUME TypeOK, LockInv, TimedTypeOK, QueueInv, TimeInv PROVE BoundedWait
    OBVIOUS
  <2>1. Counted
    BY Numbers
  <2>2. ASSUME NEW t \in Waiting PROVE waited[t] <= Cost(ahead[t])
    <3>1. t \in Tasks /\ waited[t] <= Cost(Gone(t)) + Turn
      BY <2>1 DEF TimeInv, Counted
    <3>2. CASE sink_lock = Nobody
      BY <2>1, <3>1, <3>2 DEF Counted, Turn
    <3>3. CASE sink_lock # Nobody
      <4>1. sink_lock \in ahead[t] \ Gone(t)
        BY <3>3 DEF QueueInv, Gone, InProgress, LockInv, OneInProgress, TypeOK
      <4>2. Cost(Gone(t)) + RequestTimeout <= Cost(ahead[t])
        <5>1. ahead[t] \in SUBSET Requests /\ Gone(t) \in SUBSET ahead[t]
          BY <3>1 DEF TimedTypeOK, Gone
        <5> QED
          BY <4>1, <5>1, CostGrows
      <4>3. Turn <= RequestTimeout /\ RequestTimeout \in Nat
        BY <3>3, TicksAreCounted DEF Turn, Used, TimedTypeOK, TypeOK, Tasks
      <4> QED
        BY <2>1, <3>1, <4>2, <4>3 DEF Counted
    <3> QED
      BY <3>2, <3>3
  <2>3. ASSUME NEW t \in Tasks, IF t = Loop THEN WantsSink(t) ELSE state[t] = "queued"
        PROVE  t \in Waiting
    BY <2>3 DEF Tasks, QueueInv, WantsSink
  <2>4. ASSUME NEW r \in Requests, InProgress(r)
        PROVE  waited[r] <= RequestTimeout * (Cardinality(ahead[r]) + 1)
    <3>1. r \in Tasks /\ ahead[r] \in SUBSET Requests
      BY DEF Tasks, TimedTypeOK
    <3>2. Cardinality(ahead[r]) \in Nat /\ RequestTimeout \in Nat
      BY <3>1, TicksAreCounted, FS_Subset, FS_CardinalityType
    <3>3. RequestTimeout * (Cardinality(ahead[r]) + 1) = Cost(ahead[r]) + RequestTimeout
      BY <3>2 DEF Cost
    <3>4. waited[r] <= Cost(ahead[r]) + RequestTimeout
      <4>1. CASE state[r] = "queued"
        <5>1. waited[r] <= Cost(ahead[r])
          BY <2>2, <4>1 DEF QueueInv
        <5> QED
          BY <2>1, <3>1, <3>2, <5>1 DEF Counted
      <4>2. CASE state[r] \in Holding
        <5>1. waited[r] <= Cost(ahead[r]) + Used(r)
          BY <4>2 DEF TimeInv
        <5>2. Used(r) <= RequestTimeout
          BY <3>2 DEF Used, TimedTypeOK
        <5> QED
          BY <2>1, <3>1, <3>2, <5>1, <5>2 DEF Counted
      <4> QED
        BY <2>4, <4>1, <4>2 DEF InProgress
    <3> QED
      BY <3>3, <3>4
  <2> QED
    BY <2>2, <2>3, <2>4 DEF BoundedWait, Cost
<1> QED
  BY <1>1, WaitInvHolds, PTL
=============================================================================
