--------------------------- MODULE SeqLayerProofs ---------------------------
(***************************************************************************)
(* Remote logging, proved for any number of events and for any clock.      *)
(* Whoever posts stands at the head of the mutex's queue, so everything    *)
(* acknowledged was stamped and stored before the present post.            *)
(***************************************************************************)
EXTENDS SeqLayer, TLAPS

Holder == \A e \in Events : task[e] = "posting" => logger # <<>> /\ Head(logger) = e

Bounds ==
    /\ \A e \in Events : stamp[e] <= now /\ place[e] <= arrivals
    /\ \A e \in Events : task[e] \in {"none", "spawned", "queued"} => place[e] = 0

\* What was acknowledged came before the event that is being posted.
Before ==
    \A e, f \in Events : task[e] = "posting" /\ task[f] = "sent" =>
        /\ stamp[f] <= stamp[e]
        /\ place[e] # 0 => place[f] < place[e]

LogInv == SeqTypeOK /\ Holder /\ Bounds /\ Before /\ AcknowledgedInOrder

-----------------------------------------------------------------------------
\* One step keeps the invariant, whichever task or whatever of Seq it is.
LEMMA LogStep == LogInv /\ [Next]_vars => LogInv'
<1> SUFFICES ASSUME LogInv, [Next]_vars PROVE LogInv'
  OBVIOUS
<1> USE DEF LogInv, SeqTypeOK, Holder, Bounds, Before, AcknowledgedInOrder, seqVars
<1>1. ASSUME NEW e \in Events, OnEvent(e) PROVE LogInv'
  BY <1>1 DEF OnEvent
<1>2. ASSUME NEW e \in Events, Lock(e) PROVE LogInv'
  <2>1. /\ task' = [task EXCEPT ![e] = "queued"] /\ task[e] = "spawned"
        /\ UNCHANGED <<stamp, now, place, arrivals, hung>>
    BY <1>2 DEF Lock
  <2>2. logger' \in Seq(Events)
    BY <1>2 DEF Lock
  <2>3. logger # <<>> => logger' # <<>> /\ Head(logger') = Head(logger)
    BY <1>2 DEF Lock
  <2>4. Holder'
    BY <2>1, <2>3
  <2> QED
    BY <2>1, <2>2, <2>4
<1>3. ASSUME NEW e \in Events, StartPost(e) PROVE LogInv'
  <2>1. /\ task' = [task EXCEPT ![e] = "posting"] /\ task[e] = "queued"
        /\ stamp' = [stamp EXCEPT ![e] = now]
        /\ UNCHANGED <<logger, now, place, arrivals, hung>>
    BY <1>3 DEF StartPost
  <2>2. logger # <<>> /\ Head(logger) = e
    BY <1>3 DEF StartPost
  <2> QED
    BY <2>1, <2>2
<1>4. ASSUME NEW e \in Events, PostSucceeds(e) PROVE LogInv'
  <2>1. /\ task' = [task EXCEPT ![e] = "sent"] /\ task[e] = "posting" /\ place[e] # 0
        /\ logger' = Tail(logger)
        /\ UNCHANGED <<stamp, now, place, arrivals, hung>>
    BY <1>4 DEF PostSucceeds, Ends
  <2>2. \A f \in Events : task'[f] # "posting"
    BY <2>1
  <2>3. SeqTypeOK'
    BY <2>1
  <2>4. \A f \in Events : task'[f] = "sent" => f = e \/ task[f] = "sent"
    BY <2>1
  <2>5. \A f \in Events : task[f] = "sent" => stamp[f] <= stamp[e] /\ place[f] < place[e]
    BY <2>1
  <2>6. \A f \in Events : stamp[f] \in Nat /\ place[f] \in Nat
    OBVIOUS
  <2>7. AcknowledgedInOrder'
    <3>1. stamp' = stamp /\ place' = place
      BY <2>1
    <3>2. AcknowledgedInOrder
      OBVIOUS
    <3>3. place[e] # 0
      BY <2>1
    <3>4. ASSUME NEW f \in Events, NEW g \in Events, task'[f] = "sent", task'[g] = "sent",
                 place[f] < place[g]
          PROVE  stamp[f] <= stamp[g]
      <4>1. CASE f = e
        BY <2>4, <2>5, <2>6, <3>4, <4>1
      <4>2. CASE g = e /\ f # e
        BY <2>4, <2>5, <3>4, <4>2
      <4>3. CASE f # e /\ g # e
        BY <2>4, <3>2, <3>4, <4>3
      <4> QED
        BY <4>1, <4>2, <4>3
    <3>5. \A f \in Events : task'[f] = "sent" => place[f] # 0
      BY <2>4, <3>2, <3>3
    <3> QED
      BY ONLY <3>1, <3>4, <3>5 DEF AcknowledgedInOrder
  <2> QED
    BY <2>1, <2>2, <2>3, <2>7
<1>5. ASSUME NEW e \in Events, PostFails(e) PROVE LogInv'
  BY <1>5 DEF PostFails, Ends
<1>6. ASSUME NEW e \in Events, SeqStores(e) PROVE LogInv'
  BY <1>6 DEF SeqStores
<1>7. CASE SeqHangs
  BY <1>7 DEF SeqHangs
<1>8. CASE Tick
  BY <1>8, ClockIsBounded DEF Tick
<1>9. CASE UNCHANGED vars
  BY <1>9 DEF vars
<1> QED
  BY <1>1, <1>2, <1>3, <1>4, <1>5, <1>6, <1>7, <1>8, <1>9 DEF Next, TaskStep, PostEnds

\* The inductive invariant of the logger.
LEMMA LogInvHolds == Spec => []LogInv
<1>1. ASSUME Init PROVE LogInv
  <2>0. <<>> \in Seq(Events)
    OBVIOUS
  <2>1. \A e \in Events : task[e] = "none" /\ stamp[e] = 0 /\ place[e] = 0
    BY <1>1 DEF Init
  <2>2. SeqTypeOK
    BY <1>1, <2>0 DEF Init, SeqTypeOK
  <2>3. now = 0 /\ arrivals = 0
    BY <1>1 DEF Init
  <2> QED
    BY <2>1, <2>2, <2>3 DEF LogInv, Holder, Bounds, Before, AcknowledgedInOrder
<1> QED
  BY <1>1, LogStep, PTL DEF Spec

-----------------------------------------------------------------------------
\* The variables keep their types: the mutex's queue is one of events.
THEOREM SeqTypeCorrect == Spec => []SeqTypeOK
<1>1. LogInv => SeqTypeOK
  BY DEF LogInv
<1> QED
  BY <1>1, LogInvHolds, PTL

\* What Seq acknowledged it holds, in the order of the stamps.
THEOREM StampsFollowArrivals == Spec => []AcknowledgedInOrder
<1>1. LogInv => AcknowledgedInOrder
  BY DEF LogInv
<1> QED
  BY <1>1, LogInvHolds, PTL
=============================================================================
