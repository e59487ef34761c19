------------------------------ MODULE SeqLayer ------------------------------
(***************************************************************************)
(* Remote logging (src/hub/seq.rs, src/hub/tracing.rs).  Every event that  *)
(* passes the filter becomes a task of its own, which takes the one mutex  *)
(* of the SeqLogger, stamps the event, posts it to Seq, and keeps the      *)
(* mutex until it has the answer.  The HTTP client has no timeout, so a    *)
(* Seq that hangs holds up all events behind the present one.              *)
(*                                                                         *)
(* Abstracted: what an event says.  The log level lets no event of the     *)
(* HTTP client itself through (the default is info).  The order in which   *)
(* the runtime starts tasks is left open; the clock does not step back.    *)
(***************************************************************************)
EXTENDS Naturals, Sequences

CONSTANTS
    Events,            \* what the hub logs
    MaxNow             \* bound: of the clock

ASSUME ClockIsBounded == MaxNow \in Nat

VARIABLES
    task,              \* task[e]: where the task of e is
    logger,            \* the mutex: its holder, then those who wait for it
    stamp,             \* stamp[e]: the "@t" of e
    now,               \* the clock
    place,             \* place[e]: e is the place[e]-th event Seq stored; or 0
    arrivals,          \* how many Seq has stored
    hung               \* Seq takes connections and does not answer

vars == <<task, logger, stamp, now, place, arrivals, hung>>
seqVars == <<place, arrivals, hung>>

SeqTypeOK ==
    /\ task \in [Events -> {"none", "spawned", "queued", "posting", "sent", "reported"}]
    /\ logger \in Seq(Events)
    /\ stamp \in [Events -> Nat]
    /\ now \in Nat
    /\ place \in [Events -> Nat]
    /\ arrivals \in Nat
    /\ hung \in BOOLEAN

Init ==
    /\ task = [e \in Events |-> "none"]
    /\ logger = <<>>
    /\ stamp = [e \in Events |-> 0]
    /\ now = 0
    /\ place = [e \in Events |-> 0]
    /\ arrivals = 0
    /\ hung = FALSE

-----------------------------------------------------------------------------
OnEvent(e) ==
    /\ task[e] = "none"
    /\ task' = [task EXCEPT ![e] = "spawned"]
    /\ UNCHANGED <<logger, stamp, now, seqVars>>

\* The task is polled for the first time and asks for the mutex, which is FIFO.
Lock(e) ==
    /\ task[e] = "spawned"
    /\ task' = [task EXCEPT ![e] = "queued"]
    /\ logger' = Append(logger, e)
    /\ UNCHANGED <<stamp, now, seqVars>>

\* Mutant: each task has a logger of its own.
StartPostUnlocked(e) ==
    /\ task[e] = "queued"
    /\ task' = [task EXCEPT ![e] = "posting"]
    /\ stamp' = [stamp EXCEPT ![e] = now]
    /\ UNCHANGED <<logger, now, seqVars>>

\* log_to_seq up to its first await: the stamp is the time of sending.
StartPost(e) ==
    /\ task[e] = "queued"
    /\ logger # <<>> /\ Head(logger) = e
    /\ task' = [task EXCEPT ![e] = "posting"]
    /\ stamp' = [stamp EXCEPT ![e] = now]
    /\ UNCHANGED <<logger, now, seqVars>>

Ends(e, how) ==
    /\ task[e] = "posting"
    /\ task' = [task EXCEPT ![e] = how]
    /\ logger' = Tail(logger)
    /\ UNCHANGED <<stamp, now, seqVars>>

\* Seq answers with a status of success.
PostSucceeds(e) == place[e] # 0 /\ ~hung /\ Ends(e, "sent")

\* Mutant: the post is repeated until Seq takes it.
PostRetries(e) == task[e] = "posting" /\ UNCHANGED vars

\* Mutant: the result is unwrapped.
PostPanics(e) == Ends(e, "panicked")

\* No connection, another status, an answer that is lost: the failure goes to
\* stderr, "to prevent recursive logging loops".  Seq may have stored the event.
PostFails(e) == Ends(e, "reported")

-----------------------------------------------------------------------------
(***************************************************************************)
(* Seq (external): it stores a request once, perhaps after its client has  *)
(* given up.                                                               *)
(***************************************************************************)
SeqStores(e) ==
    /\ task[e] \in {"posting", "reported"}
    /\ place[e] = 0
    /\ arrivals' = arrivals + 1
    /\ place' = [place EXCEPT ![e] = arrivals + 1]
    /\ UNCHANGED <<task, logger, stamp, now, hung>>

SeqHangs == hung' = ~hung /\ UNCHANGED <<task, logger, stamp, now, place, arrivals>>

Tick == now < MaxNow /\ now' = now + 1 /\ UNCHANGED <<task, logger, stamp, seqVars>>

TaskStep(e) == Lock(e) \/ StartPost(e)
PostEnds(e) == PostSucceeds(e) \/ PostFails(e)

Next ==
    \/ \E e \in Events : OnEvent(e) \/ TaskStep(e) \/ PostEnds(e) \/ SeqStores(e)
    \/ SeqHangs
    \/ Tick

Spec == Init /\ [][Next]_vars

\* The runtime polls the tasks; a Seq that does not hang answers or refuses.
FairSpec ==
    /\ Spec
    /\ \A e \in Events : WF_vars(TaskStep(e)) /\ WF_vars(~hung /\ PostEnds(e))

-----------------------------------------------------------------------------
\* What Seq acknowledged it has, and in the order of the stamps: one post at a
\* time, and the stamp is taken under the mutex.
AcknowledgedInOrder ==
    /\ \A e \in Events : task[e] = "sent" => place[e] # 0
    /\ \A e, f \in Events :
         task[e] = "sent" /\ task[f] = "sent" /\ place[e] < place[f] => stamp[e] <= stamp[f]

\* Unless Seq hangs again and again, every event gets out or is reported: the
\* backlog of a hang is worked off, and failures do not add to it.
BacklogDrains ==
    <>[]~hung => \A e \in Events : task[e] # "none" ~> task[e] \in {"sent", "reported"}
=============================================================================
