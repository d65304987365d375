---------------------------- MODULE ActivityQueue ----------------------------
(***************************************************************************)
(* What the queue of activity tasks sees of a worker that keeps to the     *)
(* worker protocol, whatever happens to the calls in between: a delivery   *)
(* is answered at most once, by an answer it was handed out for; a task    *)
(* the worker cannot read is left to its timeout; and the worker calls a   *)
(* task done only when it is.                                              *)
(***************************************************************************)
EXTENDS Naturals

CONSTANTS Tasks, Unreadable, MaxAttempts

VARIABLES
  queue,     \* per task: "queued", "out", "ended" or "expired"
  attempt,   \* per task: how often it was handed out
  served,    \* per task: answers to the latest attempt
  reported   \* tasks the worker has called Completed or Failed

Init ==
  /\ queue = [t \in Tasks |-> "queued"]
  /\ attempt = [t \in Tasks |-> 0]
  /\ served = [t \in Tasks |-> 0]
  /\ reported = {}

HandOut(t) ==
  /\ queue[t] = "queued"
  /\ attempt[t] < MaxAttempts
  /\ queue' = [queue EXCEPT ![t] = "out"]
  /\ attempt' = [attempt EXCEPT ![t] = @ + 1]
  /\ served' = [served EXCEPT ![t] = 0]
  /\ UNCHANGED reported

TimeOut(t) ==
  /\ queue[t] = "out"
  /\ queue' = [queue EXCEPT ![t] = IF attempt[t] < MaxAttempts THEN "queued" ELSE "expired"]
  /\ UNCHANGED <<attempt, served, reported>>

\* The latest attempt's one answer arrives.
Answered(t) ==
  /\ t \notin Unreadable
  /\ attempt[t] > 0
  /\ served[t] = 0
  /\ served' = [served EXCEPT ![t] = 1]
  /\ UNCHANGED <<attempt, reported>>

End(t) ==
  /\ queue[t] = "out"
  /\ Answered(t)
  /\ queue' = [queue EXCEPT ![t] = "ended"]

\* An answer that comes after its attempt has timed out changes nothing.
Refuse(t) ==
  /\ queue[t] \in {"queued", "expired"}
  /\ Answered(t)
  /\ UNCHANGED queue

Report(t) ==
  /\ queue[t] = "ended"
  /\ reported' = reported \cup {t}
  /\ UNCHANGED <<queue, attempt, served>>

Next == \E t \in Tasks : HandOut(t) \/ TimeOut(t) \/ End(t) \/ Refuse(t) \/ Report(t)

Spec == Init /\ [][Next]_<<queue, attempt, served, reported>>
=============================================================================
