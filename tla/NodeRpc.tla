------------------------------- MODULE NodeRpc -------------------------------
(***************************************************************************)
(* What ClutchNodeClient::send_request promises its callers, with the      *)
(* connection, the locks and the timers hidden: a call is written to the   *)
(* node at most once, the node runs what was written at most once, and the *)
(* call returns a result only if the node ran that very call before.  No   *)
(* call is written before the one before it has returned.  A failed call   *)
(* may still be run by the node afterwards: an error says nothing about    *)
(* what was already written.                                               *)
(***************************************************************************)
EXTENDS Naturals

CONSTANT Requests      \* the calls; every call has a fresh UUID as its id

VARIABLES
    status,            \* status[r]: where call r is, as its caller sees it
    sent,              \* the calls whose frame may reach the node
    runs               \* runs[r]: how often the node has run call r

vars == <<status, sent, runs>>

Init ==
    /\ status = [r \in Requests |-> "idle"]
    /\ sent = {}
    /\ runs = [r \in Requests |-> 0]

Call(r) ==
    /\ status[r] = "idle"
    /\ status' = [status EXCEPT ![r] = "open"]
    /\ UNCHANGED <<sent, runs>>

\* Mutant: calls are pipelined.
SendAtOnce(r) ==
    /\ status[r] = "open"
    /\ r \notin sent
    /\ sent' = sent \cup {r}
    /\ UNCHANGED <<status, runs>>

\* One call at a time is with the node.
Send(r) ==
    /\ status[r] = "open"
    /\ \A q \in sent : status[q] # "open"
    /\ sent' = sent \cup {r}
    /\ UNCHANGED <<status, runs>>

Execute(r) ==
    /\ r \in sent
    /\ runs[r] = 0
    /\ runs' = [runs EXCEPT ![r] = 1]
    /\ UNCHANGED <<status, sent>>

Succeed(r) ==
    /\ status[r] = "open"
    /\ runs[r] = 1
    /\ status' = [status EXCEPT ![r] = "ok"]
    /\ UNCHANGED <<sent, runs>>

Fail(r) ==
    /\ status[r] = "open"
    /\ status' = [status EXCEPT ![r] = "failed"]
    /\ UNCHANGED <<sent, runs>>

\* The caller goes away; the frame it was writing may or may not get out.
Abandon(r) ==
    /\ status[r] = "open"
    /\ status' = [status EXCEPT ![r] = "dropped"]
    /\ sent' \in {sent, sent \cup {r}}
    /\ UNCHANGED runs

Next ==
    \E r \in Requests :
        Call(r) \/ Send(r) \/ Execute(r) \/ Succeed(r) \/ Fail(r) \/ Abandon(r)

Spec == Init /\ [][Next]_vars
=============================================================================
