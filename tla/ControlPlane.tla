---------------------------- MODULE ControlPlane ----------------------------
(***************************************************************************)
(* The REST control plane as a desktop program sees it through RestClient  *)
(* (transport/src/rest_client.cpp): registration, activation, execution,   *)
(* signals, termination and archiving of one workflow and its runs.        *)
(*                                                                         *)
(* A call blocks its caller, so each operation below is one step with a    *)
(* result.  A request may be lost, answered by a 5xx, or carried out and   *)
(* its answer lost; the client cannot tell the last from the first.        *)
(***************************************************************************)
EXTENDS Naturals, Sequences

CONSTANTS MaxFaults,   \* how many exchanges the network may disturb
          MaxRuns      \* how many executions one demonstration may start

ASSUME ControlPlaneAssumption == MaxFaults \in Nat /\ MaxRuns \in Nat \ {0}

VARIABLES workflow,    \* [registered, active, archived, signals]: the deployment
          runs,        \* the executions, in the order they were started
          faults       \* disturbances left

controlVars == <<workflow, runs, faults>>

Unregistered == [registered |-> FALSE, active |-> FALSE, archived |-> FALSE, signals |-> {}]

\* A run as the service keeps it: the steps its history shows done, whether a
\* workflow task or an activity task is due, the signals it received, and the
\* commands it accepted.  `news` says an event came after the last poll.
NewRun(input) ==
  [status |-> "RUNNING", input |-> input, done |-> 0, wft |-> TRUE, act |-> FALSE,
   failed |-> FALSE, lost |-> FALSE, news |-> FALSE, inbox |-> {}, commands |-> <<>>]

kTerminal == {"COMPLETED", "FAILED", "TERMINATED", "TIMED_OUT", "CANCELED"}
isTerminal(status) == status \in kTerminal

(***************************************************************************)
(* Exchanges.  `done` is the service's side of the matter: the request was *)
(* carried out.  `refusal` is the status of a request the service rejects. *)
(***************************************************************************)
Exchange(refusal) ==
  {[transport_ok |-> TRUE, status |-> IF refusal = 0 THEN 200 ELSE refusal, done |-> refusal = 0]}
  \cup IF faults = 0 THEN {} ELSE
       {[transport_ok |-> FALSE, status |-> 0, done |-> FALSE],
        [transport_ok |-> FALSE, status |-> 0, done |-> refusal = 0],
        [transport_ok |-> TRUE, status |-> 503, done |-> FALSE]}

get(refusal)  == Exchange(refusal)
post(refusal) == Exchange(refusal)
put(refusal)  == Exchange(refusal)

Succeeds(http) == http.transport_ok /\ http.status >= 200 /\ http.status < 300
Disturbed(http) == ~http.transport_ok \/ http.status >= 500
Spend(http) == faults' = IF Disturbed(http) THEN faults - 1 ELSE faults

(***************************************************************************)
(* The operations.  Each is a step with its result as last argument.       *)
(***************************************************************************)

\* Where the gRPC frontend is, and whether it speaks TLS.  TLS is what the
\* client assumes when the field is missing.
whoami(ok, tls) ==
  \E http \in get(0) : /\ Spend(http)
                       /\ ok = Succeeds(http)
                       /\ tls \in BOOLEAN
                       /\ UNCHANGED <<workflow, runs>>

registerWorkflow(signals, ok) ==
  \E http \in post(0) :
    /\ Spend(http)
    /\ ok = Succeeds(http)
    /\ workflow' = IF http.done
                   THEN [workflow EXCEPT !.registered = TRUE, !.archived = FALSE,
                                         !.signals = signals]
                   ELSE workflow
    /\ UNCHANGED runs

workflowActive(result) ==
  \E http \in get(IF workflow.registered THEN 0 ELSE 404) :
    /\ Spend(http)
    /\ result = IF ~Succeeds(http) THEN "failure"
                ELSE IF workflow.active THEN "active" ELSE "inactive"
    /\ UNCHANGED <<workflow, runs>>

\* The id of the run, or 0 for a failure.  A run whose id never reached the
\* caller runs all the same.
executeWorkflow(input, id) ==
  \E http \in post(IF workflow.registered /\ Len(runs) < MaxRuns THEN 0 ELSE 404) :
    /\ Spend(http)
    /\ runs' = IF http.done THEN Append(runs, NewRun(input)) ELSE runs
    /\ id = IF Succeeds(http) THEN Len(runs) + 1 ELSE 0
    /\ UNCHANGED workflow

getExecution(id, result) ==
  \E http \in get(0) :
    /\ Spend(http)
    /\ result = IF Succeeds(http) THEN runs[id].status ELSE "failure"
    /\ UNCHANGED <<workflow, runs>>

\* A name the workflow did not declare is answered 422, a closed run 409.
signalExecution(id, name, status) ==
  LET refusal == IF name \notin workflow.signals THEN 422
                 ELSE IF isTerminal(runs[id].status) THEN 409 ELSE 0
  IN \E http \in post(refusal) :
       /\ Spend(http)
       /\ status = http.status
       /\ runs' = IF http.done
                  THEN [runs EXCEPT ![id].inbox = @ \cup {name}, ![id].wft = TRUE,
                                    ![id].news = TRUE]
                  ELSE runs
       /\ UNCHANGED workflow

terminateExecution(id, disturbed) ==
  \E http \in post(IF isTerminal(runs[id].status) THEN 409 ELSE 0) :
    /\ Spend(http)
    /\ disturbed = Disturbed(http)
    /\ runs' = IF http.done THEN [runs EXCEPT ![id].status = "TERMINATED"] ELSE runs
    /\ UNCHANGED workflow

archiveWorkflow(ok) ==
  \E http \in put(IF workflow.active THEN 409 ELSE 0) :
    /\ Spend(http)
    /\ ok = Succeeds(http)
    /\ workflow' = IF http.done THEN [workflow EXCEPT !.archived = TRUE] ELSE workflow
    /\ UNCHANGED runs
=============================================================================
