----------------------------- MODULE SoleWorker -----------------------------
(***************************************************************************)
(* The Arduino loop (main.cpp) with the activity worker loop               *)
(* (worker_loop.cpp) over the transport: one task polls for workflow and   *)
(* for activity tasks in turn, runs what it is given and answers, backs    *)
(* off after transport errors, and after five in a row drops the worker    *)
(* and builds another.  The task watchdog reboots a board whose loop does  *)
(* not feed it for 8 s.                                                    *)
(*                                                                         *)
(* The workflow poll is here only for what it does to the connection, the  *)
(* turn and the error counter; WorkflowLoop models what it does with a     *)
(* task.  The service is external: its activity task queue.                *)
(***************************************************************************)
EXTENDS Integers, Sequences, FiniteSets

CONSTANTS
  Tasks,        \* activity tasks
  Failing,      \* those no handler takes, or whose handler or decoding fails
  Unreadable,   \* those whose poll response does not parse
  MaxAttempts,  \* deliveries of a task before the service gives up on it
  MaxFaults,    \* bound on faults
  Slots,        \* TLS work slots
  WatchdogMs,   \* watchdog timeout
  NoRequest, NoReply

Attempts == 1..MaxAttempts

\* An activity task as it is handed out: the task token names the attempt.
Tokens == [task : Tasks, attempt : Attempts]

PollMethods == {"PollWorkflowTaskQueue", "PollActivityTaskQueue"}
RespondMethods == {"RespondActivityTaskCompleted", "RespondActivityTaskFailed"}

PollRequest(method) == [method |-> method, token |-> NoReply]
RespondRequest(method, token) == [method |-> method, token |-> token]

Requests == [method : PollMethods, token : {NoReply}]
              \cup [method : RespondMethods, token : Tokens]

ASSUME WorkerAssumption ==
  /\ Failing \subseteq Tasks
  /\ Unreadable \subseteq Tasks
  /\ MaxAttempts \in Nat \ {0}
  /\ MaxFaults \in Nat
  /\ Slots \in Nat
  /\ WatchdogMs \in Nat
  /\ NoReply \notin [task : Tasks, attempt : Nat]
  /\ NoRequest \notin Requests

VARIABLES conn, session, connected, slots, holding, inbox, received, call, faults

transportVars == <<conn, session, connected, slots, holding, inbox, received, call, faults>>

T == INSTANCE H2Transport WITH Replies <- Tokens

VARIABLES
  worker,     \* g_worker: "up", or "down" (null)
  turn,       \* RoundRobin.workflowNext
  errors,     \* transportErrors
  phase,      \* "loop": at the top of loop(); "whoami", "register": a REST
              \* request is under way; "registering", "ready": before that of
              \* a new worker, and before the tick; "workflow",
              \* "poll", "respond": inside it; "backoff": the delay after a
              \* transport error
  rest,       \* a REST request holds an arbiter slot
  \* The service's side.
  queue,      \* per task: "queued", "out", "ended" or "expired"
  attempt,    \* per task: how often it was handed out
  served,     \* per task: answers to the latest attempt that arrived
  \* What the device's log says.
  reported    \* tasks whose tick ended as Completed or Failed

workerVars == <<worker, turn, errors, phase, rest>>
serviceVars == <<queue, attempt, served>>
vars == <<transportVars, workerVars, serviceVars, reported>>

Init ==
  /\ T!TransportInit
  /\ worker = "down"
  /\ turn = "workflow"
  /\ errors = 0
  /\ phase = "loop"
  /\ rest = FALSE
  /\ queue = [t \in Tasks |-> "queued"]
  /\ attempt = [t \in Tasks |-> 0]
  /\ served = [t \in Tasks |-> 0]
  /\ reported = {}

-----------------------------------------------------------------------------
(* The service.                                                            *)

\* A poll takes a task, if there is one; else it is held until its deadline.
\* The request may be one whose caller is gone: the task is then lost.
ServePollActivity ==
  \E e \in received :
    /\ e.request.method = "PollActivityTaskQueue"
    /\ \/ \E t \in Tasks :
            /\ queue[t] = "queued"
            /\ attempt[t] < MaxAttempts
            /\ queue' = [queue EXCEPT ![t] = "out"]
            /\ attempt' = [attempt EXCEPT ![t] = @ + 1]
            /\ served' = [served EXCEPT ![t] = 0]
            /\ T!Reply(e, "ok", [task |-> t, attempt |-> attempt[t] + 1])
       \/ /\ "queued" \notin {queue[t] : t \in Tasks}
          /\ \E status \in {"ok", "deadline"} : T!Reply(e, status, NoReply)
          /\ UNCHANGED serviceVars
    /\ UNCHANGED <<conn, session, connected, slots, holding, call, faults>>
    /\ UNCHANGED <<workerVars, reported>>

\* No workflow task is due in this model.
ServePollWorkflow ==
  \E e \in received :
    /\ e.request.method = "PollWorkflowTaskQueue"
    /\ T!Reply(e, "deadline", NoReply)
    /\ UNCHANGED <<conn, session, connected, slots, holding, call, faults>>
    /\ UNCHANGED <<workerVars, serviceVars, reported>>

\* An answer ends the task its token names if that attempt is still out.
ServeRespond ==
  \E e \in received :
    /\ e.request.method \in RespondMethods
    /\ LET t == e.request.token.task
           latest == e.request.token.attempt = attempt[t]
           fits == latest /\ queue[t] = "out"
       IN  /\ queue' = IF fits THEN [queue EXCEPT ![t] = "ended"] ELSE queue
           /\ served' = IF latest THEN [served EXCEPT ![t] = @ + 1] ELSE served
           /\ T!Reply(e, IF fits THEN "ok" ELSE "refused", NoReply)
    /\ UNCHANGED <<conn, session, connected, slots, holding, call, faults>>
    /\ UNCHANGED <<workerVars, attempt, reported>>

\* The service is overloaded, or a proxy answers for it.
ServeUnavailable ==
  \E e \in received :
    /\ T!Fault
    /\ T!ReplyForService(e)
    /\ UNCHANGED <<conn, session, connected, slots, holding, call>>
    /\ UNCHANGED <<workerVars, serviceVars, reported>>

\* Nobody works on the attempt that is out, or will: it is not on its way to
\* the device, not in its hands, and no answer to it is on its way back.
Lost(t) ==
  LET token == [task |-> t, attempt |-> attempt[t]]
  IN  /\ queue[t] = "out"
      /\ \A e \in received : e.request.token # token
      /\ \A i \in DOMAIN inbox : inbox[i].stream = "current" => inbox[i].body # token
      /\ call.body # token
      /\ call.request # NoRequest => call.request.token # token

ActivityTimeout(t) ==
  /\ queue[t] = "out"
  /\ queue' = [queue EXCEPT ![t] = IF attempt[t] < MaxAttempts THEN "queued" ELSE "expired"]
  /\ UNCHANGED <<conn, session, connected, slots, holding, inbox, received, call>>
  /\ UNCHANGED <<workerVars, attempt, served, reported>>

LostTaskTimesOut == \E t \in Tasks : Lost(t) /\ ActivityTimeout(t) /\ UNCHANGED faults

\* The timeout comes while somebody still works on the attempt.
TaskTimesOutEarly == \E t \in Tasks : ~ Lost(t) /\ ActivityTimeout(t) /\ T!Fault

Service ==
  \/ ServePollActivity \/ ServePollWorkflow \/ ServeRespond \/ ServeUnavailable
  \/ LostTaskTimesOut \/ TaskTimesOutEarly

-----------------------------------------------------------------------------
(* loop().                                                                 *)

\* whoami and registerWorkflow hold a slot of their own while they run.
TakeSlot == slots > 0 /\ slots' = slots - 1 /\ rest' = TRUE
GiveSlot == slots' = slots + 1 /\ rest' = FALSE

RestUnchanged == UNCHANGED <<conn, session, connected, holding, inbox, received, call>>

Whoami ==
  /\ phase = "loop"
  /\ worker = "down"
  /\ TakeSlot
  /\ phase' = "whoami"
  /\ RestUnchanged
  /\ UNCHANGED <<faults, worker, turn, errors, serviceVars, reported>>

\* buildWorker makes a fresh transport; the workflow is registered next.
WhoamiSucceeds ==
  /\ phase = "whoami"
  /\ GiveSlot
  /\ worker' = "up"
  /\ phase' = "registering"
  /\ RestUnchanged
  /\ UNCHANGED <<faults, turn, errors, serviceVars, reported>>

\* It is tried again later.
WhoamiFails ==
  /\ phase = "whoami"
  /\ T!Fault
  /\ GiveSlot
  /\ phase' = "loop"
  /\ RestUnchanged
  /\ UNCHANGED <<worker, turn, errors, serviceVars, reported>>

\* The first registration of a worker, and the heartbeat, whenever it is due.
Register ==
  /\ phase = "registering" \/ (phase = "loop" /\ worker = "up")
  /\ TakeSlot
  /\ phase' = "register"
  /\ RestUnchanged
  /\ UNCHANGED <<faults, worker, turn, errors, serviceVars, reported>>

\* acquireWork times out: registerWorkflow returns, the loop goes on.
NoSlotToRegister == phase = "registering" /\ slots = 0

\* Whether it was accepted or not.
RegisterEnds ==
  /\ phase = "register"
  /\ GiveSlot
  /\ phase' = "ready"
  /\ RestUnchanged
  /\ UNCHANGED <<faults, worker, turn, errors, serviceVars, reported>>

\* RoundRobin::nextIsWorkflow flips the turn.  (Slip: it does not.)
FlippedStuck == turn

Flipped == IF turn = "workflow" THEN "activity" ELSE "workflow"

TickStarts ==
  /\ phase \in {"loop", "ready"} \/ NoSlotToRegister
  /\ worker = "up"
  /\ turn' = Flipped
  /\ UNCHANGED <<worker, errors, rest, serviceVars, reported>>

\* WorkflowLoop::runOnce polls.
TickWorkflow ==
  /\ TickStarts
  /\ turn = "workflow"
  /\ phase' = "workflow"
  /\ T!Invoke(PollRequest("PollWorkflowTaskQueue"))

\* WorkerLoop::runOnce polls.
TickActivity ==
  /\ TickStarts
  /\ turn = "activity"
  /\ phase' = "poll"
  /\ T!Invoke(PollRequest("PollActivityTaskQueue"))

Returned == call.step = "returned"

\* The call's result is used up and the tick is over.
EndTick ==
  /\ phase' = "loop"
  /\ call' = T!NoCall
  /\ UNCHANGED <<conn, session, connected, slots, holding, inbox, received, faults>>
  /\ UNCHANGED <<worker, turn, rest, serviceVars>>

\* An empty long-poll, by deadline or by an empty response.
PollIdle ==
  /\ Returned
  /\ phase \in {"workflow", "poll"}
  /\ call.status = "deadline" \/ (call.status = "ok" /\ call.body = NoReply)
  /\ errors' = 0
  /\ EndTick
  /\ UNCHANGED reported

HasTask ==
  /\ Returned
  /\ phase = "poll"
  /\ call.status = "ok"
  /\ call.body # NoReply

\* parsePollResponse.  (Slip: what was read so far is taken for the task.)
ParsesAnyhow(t) == TRUE

Parses(t) == t \notin Unreadable

\* It does not: ProtocolError leaves the counter and the task.
PollUnreadable ==
  /\ HasTask
  /\ ~ Parses(call.body.task)
  /\ EndTick
  /\ UNCHANGED <<errors, reported>>

AnswerMethod(t) ==
  IF t \in Failing THEN "RespondActivityTaskFailed" ELSE "RespondActivityTaskCompleted"

\* The input is decoded, the handler runs, and the answer is sent: completed,
\* or failed when any of that did not work.
DispatchTask ==
  /\ HasTask
  /\ Parses(call.body.task)
  /\ phase' = "respond"
  /\ T!Invoke(RespondRequest(AnswerMethod(call.body.task), call.body))
  /\ UNCHANGED <<worker, turn, errors, rest, serviceVars, reported>>

RespondLands ==
  /\ Returned
  /\ phase = "respond"
  /\ call.status = "ok"
  /\ errors' = 0
  /\ reported' = reported \cup {call.request.token.task}
  /\ EndTick

IsTransportError ==
  /\ Returned
  /\ call.status # "ok"
  /\ phase = "respond" \/ call.status # "deadline"

\* The rung of onTransportError's ladder that drops the worker.
\* (Slip: one rung later.)
LastRungLate == errors + 1 > 5

LastRung == errors + 1 >= 5

\* onTransportError below the last rung: delay(2000 * consec) follows.
BackOff ==
  /\ IsTransportError
  /\ ~ LastRung
  /\ errors' = errors + 1
  /\ phase' = "backoff"
  /\ call' = T!NoCall
  /\ UNCHANGED <<conn, session, connected, slots, holding, inbox, received, faults>>
  /\ UNCHANGED <<worker, turn, rest, serviceVars, reported>>

\* The last rung: delete g_worker, and with it the transport.
DropWorker ==
  /\ IsTransportError
  /\ LastRung
  /\ errors' = 0
  /\ phase' = "loop"
  /\ worker' = "down"
  /\ T!CloseTransport
  /\ UNCHANGED <<faults, turn, rest, serviceVars, reported>>

DelayMs == 2000 * errors

\* delay() does not feed the watchdog.  A delay of exactly the timeout goes
\* either way: it may end up to a tick early, and started after the last feed.
DelayEnds ==
  /\ phase = "backoff"
  /\ DelayMs <= WatchdogMs
  /\ phase' = "loop"
  /\ UNCHANGED <<transportVars, worker, turn, errors, rest, serviceVars, reported>>

\* A board that starts again: RAM is lost, and the arbiter is created anew.
Reboot ==
  /\ conn' = "none"
  /\ session' = "none"
  /\ connected' = FALSE
  /\ slots' = Slots
  /\ holding' = FALSE
  /\ inbox' = <<>>
  /\ received' = T!Disowned
  /\ call' = T!NoCall
  /\ worker' = "down"
  /\ turn' = "workflow"
  /\ errors' = 0
  /\ phase' = "loop"
  /\ rest' = FALSE
  /\ UNCHANGED <<serviceVars, reported>>

WatchdogBites ==
  /\ phase = "backoff"
  /\ DelayMs >= WatchdogMs
  /\ Reboot
  /\ UNCHANGED faults

\* Power fails, or a connect blocks past the watchdog (it may take 15 s).
PowerCut == T!Fault /\ Reboot

Tick ==
  \/ Whoami \/ WhoamiSucceeds \/ WhoamiFails \/ Register \/ RegisterEnds
  \/ TickWorkflow \/ TickActivity \/ PollIdle \/ PollUnreadable \/ DispatchTask
  \/ RespondLands \/ BackOff \/ DropWorker \/ DelayEnds \/ WatchdogBites

Calling == T!CallStep /\ UNCHANGED <<workerVars, serviceVars, reported>>

FarEnd == T!PeerStep /\ UNCHANGED <<workerVars, serviceVars, reported>>

Next == Tick \/ Calling \/ FarEnd \/ Service \/ PowerCut

Spec == Init /\ [][Next]_vars

\* The loop runs for ever, the service answers what it receives and times out
\* what nobody works on, and a refused connection is closed.
Fairness ==
  /\ WF_vars(Tick)
  /\ WF_vars(Calling)
  /\ WF_vars(ServePollActivity)
  /\ WF_vars(ServePollWorkflow)
  /\ WF_vars(ServeRespond)
  /\ WF_vars(LostTaskTimesOut)
  /\ WF_vars(T!PeerRefuses /\ UNCHANGED <<workerVars, serviceVars, reported>>)

FairSpec == Spec /\ Fairness

-----------------------------------------------------------------------------
(* Properties.                                                             *)

\* The transport's state, the service's, and where the loop may be while the
\* transport is in a call.
TypeOK ==
  /\ T!TransportTypeOK
  /\ worker \in {"up", "down"}
  /\ turn \in {"workflow", "activity"}
  /\ errors \in 0..4
  /\ phase \in {"loop", "whoami", "registering", "register", "ready",
               "workflow", "poll", "respond", "backoff"}
  /\ rest \in BOOLEAN
  /\ queue \in [Tasks -> {"queued", "out", "ended", "expired"}]
  /\ attempt \in [Tasks -> 0..MaxAttempts]
  /\ served \in [Tasks -> Nat]
  /\ reported \subseteq Tasks

\* The arbiter's slots are all accounted for, whatever a call, a retry, a
\* teardown or a reboot did (tls_arbiter.cpp, esp_transport.cpp).
SlotsAccounted ==
  /\ holding <=> conn # "none"
  /\ slots = Slots - (IF holding THEN 1 ELSE 0) - (IF rest THEN 1 ELSE 0)

\* One delivery of a task is answered once at most: neither the transport's
\* retry nor a tick after a lost reply sends a second answer (the comment at
\* grpc_h2.cpp:117-123: a blind retry would double-fire the completion).
NoDuplicateAnswer == \A t \in Tasks : served[t] <= 1

\* A tick that ends as Completed or Failed has ended its task at the service:
\* the status it saw is that of its own answer, not of an earlier stream's.
ReportedMeansEnded == \A t \in reported : queue[t] = "ended"

\* To the service's queue the device is a worker that answers what it was
\* handed out, each delivery once, and is right about what it calls done: lost
\* replies, retries, late streams and reboots show in no other way.
Queue == INSTANCE ActivityQueue
ImplementsQueue == Queue!Spec

\* Once the faults are over the device works again, and every task it can
\* read is answered: no broken session, leaked slot or backed-off worker
\* keeps the loop from it.
TasksEnd == \A t \in Tasks \ Unreadable : <>(queue[t] = "ended")

\* No connection starts with anything but the client preface
\* (grpc_h2.cpp:253, grpc_h2.h:73-74).
PrefaceFirst == T!PrefaceFirst

\* The ladder of onTransportError (main.cpp:500-515) stays below the watchdog
\* that setup() arms: a board that backs off is not a hung one.
BackoffFitsWatchdog == phase = "backoff" => DelayMs < WatchdogMs
=============================================================================
