------------------------------ MODULE Cookbook ------------------------------
(***************************************************************************)
(* A cookbook demonstration on the desktop: the shell script starts a      *)
(* worker in the background, runs one client after another (a trigger, or  *)
(* the human-in-the-loop client), judges the outcome, and cleans up.       *)
(*                                                                         *)
(* Worker and client are two processes that share nothing but the control  *)
(* plane.  The worker is cookbook_worker --mode worker or mwf_sole_worker: *)
(* one thread that alternates between a workflow tick and an activity      *)
(* tick.  The inside of a tick is modelled in WorkflowLoop and in          *)
(* SoleWorker; here a tick is a poll, a decision, and an answer.           *)
(***************************************************************************)
EXTENDS ControlPlane, FiniteSets

CONSTANTS Steps,        \* the steps specs are made of
          Inputs,       \* inputs of a run; "big" chooses the first branch
          Signals,      \* names of signals
          Demos,        \* the demonstrations, members of Demonstration
          MaxErrors,    \* consecutive transport errors a worker survives, plus one (5)
          ChatAttempts, \* calls of the model per invocation (2)
          MaxNesting    \* how deep a spec nests its steps (json_util.cpp: 64 brackets)

Commands == {"SCHEDULE", "COMPLETE"}
Client == [mode : {"trigger", "hitl"}, input : Inputs, signal : Signals]

\* A script starts one worker for all its clients.  `errexit` says that a client
\* that fails ends it; `judge` what it does with the streams the worker printed.
Demonstration ==
  [program : {"cookbook", "sole"}, steps : Seq(Steps), clients : Seq(Client), errexit : BOOLEAN,
   judge : {"first", "pair", "none"}, expected : Seq(Commands), max_completions : Nat]

ASSUME CookbookAssumption ==
  /\ MaxErrors \in Nat \ {0} /\ ChatAttempts \in Nat \ {0} /\ MaxNesting \in Nat
  /\ \A s \in Steps : /\ s.kind = "sequence" => s.steps \in Seq(Steps)
                      /\ s.kind = "conditional" => /\ s.true_steps \in Seq(Steps)
                                                  /\ s.false_steps \in Seq(Steps)
  /\ Demos \subseteq Demonstration

VARIABLES demo,    \* the demonstration being run
          worker,  \* the background process
          client,  \* the script, with the client program it is running
          late     \* whose time budget has run out: a subset of {"worker", "client"}

vars == <<demo, worker, client, late, controlVars>>
NoTask == [id |-> 0]
Running == {"loop", "wf", "wfAnswer", "act", "invoke", "chat", "actAnswer", "leaving"}

(***************************************************************************)
(* What the worker's ticks see and say.                                    *)
(***************************************************************************)

\* One unary call.  Credentials never ride a plaintext channel.
call(accepted) ==
  IF ~worker.tls THEN {[grpc_status |-> "FAILED_PRECONDITION", done |-> FALSE]}
  ELSE {[grpc_status |-> IF accepted THEN "OK" ELSE "NOT_FOUND", done |-> accepted]}
       \cup IF faults = 0 THEN {} ELSE
            {[grpc_status |-> "UNAVAILABLE", done |-> d] : d \in {FALSE, accepted}}

Charge(c) == faults' = IF c.grpc_status = "UNAVAILABLE" THEN faults - 1 ELSE faults

\* What stands in the place of a step once its branch is chosen.
Inside(s, input) ==
  CASE s.kind = "sequence"    -> s.steps
    [] s.kind = "conditional" -> IF input = "big" THEN s.true_steps ELSE s.false_steps
    [] OTHER                  -> <<s>>

\* The steps with one level of nesting taken away.
Unnested(steps, input) ==
  LET upTo[i \in 0..Len(steps)] ==
        IF i = 0 THEN <<>> ELSE upTo[i - 1] \o Inside(steps[i], input)
  IN  upTo[Len(steps)]

\* The steps a run takes, branches chosen by its input.
Path(steps, input) ==
  LET level[d \in 0..MaxNesting] ==
        IF d = 0 THEN steps ELSE Unnested(level[d - 1], input)
  IN  level[MaxNesting]

StepsOf(list) == {list[i] : i \in DOMAIN list}

\* Slip: only the waits on the top level.
collectSignalsFlat(steps) == {s.signal : s \in {x \in StepsOf(steps) : x.kind = "wait_signal"}}

Below(s) ==
  CASE s.kind = "sequence"    -> StepsOf(s.steps)
    [] s.kind = "conditional" -> StepsOf(s.true_steps) \cup StepsOf(s.false_steps)
    [] OTHER                  -> {}

\* The names a spec waits on, wherever the wait stands.
collectSignals(steps) ==
  LET within[d \in 0..MaxNesting] ==
        IF d = 0 THEN StepsOf(steps)
        ELSE within[d - 1] \cup UNION {Below(s) : s \in within[d - 1]}
  IN  {s.signal : s \in {x \in within[MaxNesting] : x.kind = "wait_signal"}}

\* The commands of a run along a path: one for each activity, and the last one.
Issued(path) ==
  LET activities == Cardinality({i \in DOMAIN path : path[i].kind = "activity"})
  IN  [i \in 1 .. activities + 1 |-> IF i <= activities THEN "SCHEDULE" ELSE "COMPLETE"]

\* What the scripts count on: a completion for each client, an approver whose
\* run waits for its signal, and streams that can be foreseen where one is judged.
ASSUME ScriptsAssumption ==
  \A d \in Demos :
    LET path(k) == Path(d.steps, d.clients[k].input) IN
    /\ d.max_completions = Len(d.clients) /\ Len(d.clients) \in 1 .. MaxRuns
    /\ d.program = "sole" => Len(d.clients) = 1
    /\ d.judge = "first" => Issued(path(1)) = d.expected
    /\ d.judge = "pair"  => Len(d.clients) >= 2 /\ Issued(path(1)) = Issued(path(2))
    /\ \A k \in DOMAIN d.clients :
         /\ \A s \in StepsOf(path(k)) : s.kind \in {"activity", "wait_signal"}
         /\ d.clients[k].mode = "hitl" =>
              \E s \in StepsOf(path(k)) : s.kind = "wait_signal" /\ s.signal = d.clients[k].signal

\* The first step of the run that is neither done nor a wait already signalled.
Position(run) ==
  LET path == Path(demo.steps, run.input)
      open == {i \in run.done + 1 .. Len(path) :
                 path[i].kind = "activity" \/ path[i].signal \notin run.inbox}
  IN IF open = {} THEN Len(path) + 1 ELSE CHOOSE i \in open : \A j \in open : i <= j

Activity(run) == Path(demo.steps, run.input)[run.done + 1].name

\* The decision of a workflow tick.  A history event the decoder does not know
\* (`lost`) leaves the activity in flight for good.
decide(run) ==
  LET i == Position(run)
      path == Path(demo.steps, run.input)
  IN IF run.failed THEN "Fail"
     ELSE IF run.act \/ run.lost THEN "Await"
     ELSE IF i > Len(path) THEN "Complete"
     ELSE IF path[i].kind = "activity" THEN "Schedule" ELSE "Wait"

\* What an accepted answer does to the run: events that came meanwhile make a
\* new workflow task.
Answered(run, decision) ==
  LET next == [run EXCEPT !.wft = run.news] IN
  CASE decision = "Schedule" -> [next EXCEPT !.done = Position(run) - 1, !.act = TRUE,
                                             !.commands = Append(@, "SCHEDULE")]
    [] decision = "Complete" -> [next EXCEPT !.status = "COMPLETED",
                                             !.commands = Append(@, "COMPLETE")]
    [] decision = "Fail"     -> [next EXCEPT !.status = "FAILED"]
    [] OTHER                 -> next

\* An answer is refused once the run is closed, and so is a closing one when an
\* event came after the poll.
Acceptable(run, decision) ==
  /\ ~isTerminal(run.status)
  /\ run.wft
  /\ decision \in {"Complete", "Fail"} => ~run.news

(***************************************************************************)
(* The worker.                                                             *)
(***************************************************************************)
\* Slip: one error too many before the loop ends.
CountErrorLate(w, next) ==
  [w EXCEPT !.errors = @ + 1, !.task = NoTask,
            !.pc = IF w.errors + 1 > MaxErrors THEN "leaving" ELSE next]

\* Five transport errors in a row end the loop.
CountError(w, next) ==
  [w EXCEPT !.errors = @ + 1, !.task = NoTask,
            !.pc = IF w.errors + 1 >= MaxErrors THEN "leaving" ELSE next]

\* Slip: the stream is not cleared for the next run.
afterWfUncleared(w, outcome) ==
  LET calm == [w EXCEPT !.errors = 0, !.task = NoTask, !.pc = "act"]
      longer == Append(w.stream, "COMPLETE") IN
  CASE outcome = "Schedule" -> [calm EXCEPT !.stream = Append(@, "SCHEDULE")]
    [] outcome = "Complete" -> [calm EXCEPT !.streams = Append(@, longer), !.stream = longer,
                                            !.completions = @ + 1, !.pc = "loop"]
    [] outcome = "Fail" -> [w EXCEPT !.pc = "leaving", !.task = NoTask]
    [] outcome = "TransportError" -> CountError(w, "act")
    [] OTHER -> calm

\* The loop's bookkeeping after a workflow tick.  cookbook_worker prints the
\* stream of a completed run, clears it and starts the next round.
afterWf(w, outcome) ==
  LET calm == [w EXCEPT !.errors = 0, !.task = NoTask, !.pc = "act"] IN
  CASE outcome = "Schedule" -> [calm EXCEPT !.stream = Append(@, "SCHEDULE")]
    [] outcome = "Complete" -> [calm EXCEPT !.streams = Append(@, Append(w.stream, "COMPLETE")),
                                            !.stream = <<>>, !.completions = @ + 1, !.pc = "loop"]
    [] outcome = "Fail" -> [w EXCEPT !.pc = "leaving", !.task = NoTask]
    [] outcome = "TransportError" -> CountError(w, "act")
    [] OTHER -> calm

\* mwf_sole_worker leaves at its first completion.
soleAfterWf(w, outcome) ==
  IF outcome = "Complete"
  THEN [w EXCEPT !.streams = <<Append(w.stream, "COMPLETE")>>, !.stream = <<>>,
                 !.completions = 1, !.task = NoTask, !.pc = "leaving"]
  ELSE afterWf(w, outcome)

AfterWf(w, outcome) ==
  IF demo.program = "sole" THEN soleAfterWf(w, outcome) ELSE afterWf(w, outcome)

AfterAct(w, outcome) ==
  IF outcome = "TransportError" THEN CountError(w, "loop")
  ELSE [w EXCEPT !.errors = 0, !.task = NoTask, !.pc = "loop"]

resolveEndpoint ==
  /\ worker.pc = "resolve"
  /\ \E ok, tls \in BOOLEAN :
       /\ whoami(ok, tls)
       /\ worker' = IF ok THEN [worker EXCEPT !.pc = "register", !.tls = tls]
                    ELSE [worker EXCEPT !.pc = "exited", !.rc = 1]
  /\ UNCHANGED <<demo, client, late>>

register ==
  /\ worker.pc = "register"
  /\ \E ok \in BOOLEAN :
       /\ registerWorkflow(collectSignals(demo.steps), ok)
       /\ worker' = IF ok THEN [worker EXCEPT !.pc = "loop"]
                    ELSE [worker EXCEPT !.pc = "exited", !.rc = 1]
  /\ UNCHANGED <<demo, client, late>>

\* Slip: a worker that does not look at the clock.
roundStartsUntimed ==
  /\ worker.pc = "loop"
  /\ worker' = [worker EXCEPT !.pc = IF worker.stop \/ worker.completions >= demo.max_completions
                                     THEN "leaving" ELSE "wf"]
  /\ UNCHANGED <<demo, client, late, controlVars>>

\* while (!g_stop && elapsed_s() < max_seconds && completions < max_completions)
roundStarts ==
  /\ worker.pc = "loop"
  /\ worker' = [worker EXCEPT !.pc = IF worker.stop \/ "worker" \in late
                                        \/ worker.completions >= demo.max_completions
                                     THEN "leaving" ELSE "wf"]
  /\ UNCHANGED <<demo, client, late, controlVars>>

\* A poll that meets its deadline is idle, even when a task was on its way.
wfPoll ==
  /\ worker.pc = "wf"
  /\ UNCHANGED <<demo, client, late, workflow>>
  /\ \/ \E r \in DOMAIN runs, c \in call(TRUE) :
          /\ runs[r].wft /\ ~isTerminal(runs[r].status) /\ c.grpc_status = "OK"
          /\ runs' = [runs EXCEPT ![r].news = FALSE]
          /\ worker' = [worker EXCEPT !.pc = "wfAnswer", !.task = [id |-> r, seen |-> runs'[r]]]
          /\ UNCHANGED faults
     \/ /\ worker.tls
        /\ worker' = AfterWf(worker, "Idle")
        /\ UNCHANGED <<runs, faults>>
     \/ \E c \in call(TRUE) :
          /\ c.grpc_status # "OK"
          /\ Charge(c)
          /\ worker' = AfterWf(worker, "TransportError")
          /\ UNCHANGED runs

\* The tick decides on the history it polled and answers.  `missed` records an
\* answer that was accepted and whose reply was lost.
wfAnswer ==
  /\ worker.pc = "wfAnswer"
  /\ LET id == worker.task.id
         decision == decide(worker.task.seen)
     IN \E c \in call(Acceptable(runs[id], decision)) :
          /\ Charge(c)
          /\ runs' = IF c.done THEN [runs EXCEPT ![id] = Answered(@, decision)] ELSE runs
          /\ worker' = [AfterWf(worker, IF c.grpc_status = "OK" THEN decision
                                        ELSE "TransportError")
                        EXCEPT !.missed = @ \/ (c.done /\ c.grpc_status # "OK")]
  /\ UNCHANGED <<demo, client, late, workflow>>

actPoll ==
  /\ worker.pc = "act"
  /\ UNCHANGED <<demo, client, late, workflow, runs>>
  /\ \/ \E r \in DOMAIN runs, c \in call(TRUE) :
          /\ runs[r].act /\ ~isTerminal(runs[r].status) /\ c.grpc_status = "OK"
          /\ worker' = [worker EXCEPT !.pc = "invoke", !.task = [id |-> r, seen |-> runs[r]]]
          /\ UNCHANGED faults
     \/ /\ worker.tls
        /\ worker' = AfterAct(worker, "Idle")
        /\ UNCHANGED faults
     \/ \E c \in call(TRUE) :
          /\ c.grpc_status # "OK"
          /\ Charge(c)
          /\ worker' = AfterAct(worker, "TransportError")

\* echo answers at once; ai.chat and ai.classify call the model.
invoke ==
  /\ worker.pc = "invoke"
  /\ worker' = IF Activity(worker.task.seen) = "echo"
               THEN [worker EXCEPT !.pc = "actAnswer", !.result = "success"]
               ELSE [worker EXCEPT !.pc = "chat", !.attempt = 0]
  /\ UNCHANGED <<demo, client, late, controlVars>>

\* A transport error or a 5xx is tried again, once; another status is final.
mistralChat ==
  /\ worker.pc = "chat"
  /\ \E http \in post(0) \cup (IF faults = 0 THEN {} ELSE post(401)) :
       /\ faults' = IF Succeeds(http) THEN faults ELSE faults - 1
       /\ worker' = IF Succeeds(http)
                    THEN [worker EXCEPT !.pc = "actAnswer", !.result = "success"]
                    ELSE IF Disturbed(http) /\ worker.attempt + 1 < ChatAttempts
                    THEN [worker EXCEPT !.attempt = @ + 1]
                    ELSE [worker EXCEPT !.pc = "actAnswer", !.result = "failure"]
  /\ UNCHANGED <<demo, client, late, workflow, runs>>

\* The service hands a failed activity out again until its schedule-to-close
\* timeout, then records the failure.
actAnswer ==
  /\ worker.pc = "actAnswer"
  /\ LET id == worker.task.id
         run == runs[id]
     IN \E c \in call(~isTerminal(run.status) /\ run.act), again \in BOOLEAN :
          /\ Charge(c)
          /\ again => worker.result = "failure"
          /\ runs' = IF ~c.done \/ again THEN runs ELSE
                     [runs EXCEPT ![id].act = FALSE, ![id].wft = TRUE, ![id].news = TRUE,
                                  ![id].done = IF worker.result = "success" THEN @ + 1 ELSE @,
                                  ![id].failed = worker.result = "failure"]
          /\ worker' = AfterAct(worker, IF c.grpc_status = "OK" THEN worker.result
                                        ELSE "TransportError")
  /\ UNCHANGED <<demo, client, late, workflow>>

\* The transport is closed and the exit code says whether the worker saw all
\* the completions it was asked for.
leave ==
  /\ worker.pc = "leaving"
  /\ worker' = [worker EXCEPT !.pc = "exited",
                              !.rc = IF worker.completions >= demo.max_completions THEN 0 ELSE 1]
  /\ UNCHANGED <<demo, client, late, controlVars>>

BothLoops == \/ resolveEndpoint \/ register \/ roundStarts \/ wfPoll \/ wfAnswer
             \/ actPoll \/ invoke \/ mistralChat \/ actAnswer \/ leave
runWorker     == demo.program = "cookbook" /\ BothLoops
soleRunWorker == demo.program = "sole" /\ BothLoops

(***************************************************************************)
(* The clients.  A client polls against a deadline of its own.             *)
(***************************************************************************)
Mode == demo.clients[client.k].mode
Late == "client" \in late
FreshDeadline == late' = late \ {"client"}

\* The client program returns; the script goes on to the next client, waits
\* for the worker, or (errexit) goes straight to its cleanup trap.
Return(c, rc) ==
  LET aborts == \/ rc = 1 /\ demo.errexit
                \/ demo.program = "sole" /\ c.named = 0
      more == c.k < Len(demo.clients)
  IN [c EXCEPT !.rcs = Append(@, rc), !.k = IF more /\ ~aborts THEN @ + 1 ELSE @,
               !.pc = IF aborts THEN "kill" ELSE IF more THEN "active" ELSE "wait"]

awaitActive ==
  /\ client.pc = "active"
  /\ \/ /\ Late
        /\ client' = Return([client EXCEPT !.timedOut = TRUE], 1)
        /\ FreshDeadline
        /\ UNCHANGED controlVars
     \/ /\ ~Late
        /\ \E result \in {"active", "inactive", "failure"} :
             /\ workflowActive(result)
             /\ client' = IF result = "active" THEN [client EXCEPT !.pc = "execute"] ELSE client
        /\ UNCHANGED late

\* Slip: a failed execute is tried again.
executeAgain ==
  /\ client.pc = "execute"
  /\ \E id \in 0 .. MaxRuns :
       /\ executeWorkflow(demo.clients[client.k].input, id)
       /\ client' = IF id = 0 THEN client
                    ELSE [client EXCEPT !.id = id, !.status = "",
                                        !.pc = IF Mode = "hitl" THEN "observe" ELSE "poll"]
  /\ FreshDeadline

execute ==
  /\ client.pc = "execute"
  /\ \E id \in 0 .. MaxRuns :
       /\ executeWorkflow(demo.clients[client.k].input, id)
       /\ client' = IF id = 0 THEN Return(client, 1)
                    ELSE [client EXCEPT !.id = id, !.status = "",
                                        !.pc = IF Mode = "hitl" THEN "observe" ELSE "poll"]
  /\ FreshDeadline

\* The run must not close while the client watches; a status it cannot read
\* does not count against that.
observePause ==
  /\ client.pc = "observe"
  /\ \/ /\ Late
        /\ client' = [client EXCEPT !.pc = "signal"]
        /\ FreshDeadline
        /\ UNCHANGED controlVars
     \/ /\ ~Late
        /\ \E status \in {"RUNNING", "failure"} \cup kTerminal :
             /\ getExecution(client.id, status)
             /\ client' = IF isTerminal(status) THEN Return(client, 1) ELSE client
        /\ UNCHANGED late

signal ==
  /\ client.pc = "signal"
  /\ \E status \in {0, 200, 409, 422, 503} :
       /\ signalExecution(client.id, demo.clients[client.k].signal, status)
       /\ client' = LET told == [client EXCEPT !.sig = status] IN
                    IF status = 200 THEN [told EXCEPT !.pc = "poll"] ELSE Return(told, 1)
  /\ FreshDeadline

pollTerminal ==
  /\ client.pc = "poll"
  /\ \/ /\ Late
        /\ client' = [client EXCEPT !.pc = "verdict", !.timedOut = TRUE]
        /\ UNCHANGED <<controlVars, late>>
     \/ /\ ~Late
        /\ \E status \in {"RUNNING", "failure"} \cup kTerminal :
             /\ getExecution(client.id, status)
             /\ client' = IF status = "failure" THEN client
                          ELSE [client EXCEPT !.status = status,
                                              !.pc = IF isTerminal(status) THEN "verdict" ELSE @]
        /\ UNCHANGED late

\* Only here is the evidence file written, which names the run.
verdict ==
  /\ client.pc = "verdict"
  /\ client' = Return([client EXCEPT !.named = IF client.k = 1 THEN client.id ELSE @],
                      IF client.status = "COMPLETED" THEN 0 ELSE 1)
  /\ FreshDeadline
  /\ UNCHANGED controlVars

AwaitVerdict == awaitActive \/ execute \/ pollTerminal \/ verdict
runTrigger  == demo.program = "cookbook" /\ Mode = "trigger" /\ AwaitVerdict
soleTrigger == demo.program = "sole" /\ AwaitVerdict
runHitl     == Mode = "hitl" /\ (AwaitVerdict \/ observePause \/ signal)

\* wait "$WORKER_PID"
awaitWorker ==
  /\ client.pc = "wait" /\ worker.pc = "exited"
  /\ client' = [client EXCEPT !.pc = "check", !.waited = TRUE]
  /\ UNCHANGED <<worker, late, controlVars>>

\* kill "$WORKER_PID": before its handler is installed the worker just dies;
\* after, it finishes the round it is in.
killWorker ==
  /\ client.pc = "kill"
  /\ client' = [client EXCEPT !.pc = "check"]
  /\ worker' = IF worker.pc \in Running THEN [worker EXCEPT !.stop = TRUE]
               ELSE IF worker.pc = "exited" THEN worker
               ELSE [worker EXCEPT !.pc = "exited", !.rc = 1]
  /\ UNCHANGED <<late, controlVars>>

(***************************************************************************)
(* Cleanup: terminate the run the evidence names unless it is closed, wait *)
(* for the deployment to lapse, archive it.  Nothing here fails the script. *)
(***************************************************************************)
\* Slip: a run whose status cannot be read is taken for closed.
checkRunTrusting ==
  /\ client.pc = "check"
  /\ IF client.named = 0
     THEN client' = [client EXCEPT !.pc = "inactive"] /\ UNCHANGED controlVars
     ELSE \E status \in {"RUNNING", "failure"} \cup kTerminal :
            /\ getExecution(client.named, status)
            /\ client' = [client EXCEPT !.pc = IF status = "RUNNING" THEN "terminate"
                                               ELSE "inactive"]
  /\ FreshDeadline

checkRun ==
  /\ client.pc = "check"
  /\ IF client.named = 0
     THEN client' = [client EXCEPT !.pc = "inactive"] /\ UNCHANGED controlVars
     ELSE \E status \in {"RUNNING", "failure"} \cup kTerminal :
            /\ getExecution(client.named, status)
            /\ client' = [client EXCEPT !.pc = IF isTerminal(status) THEN "inactive"
                                               ELSE "terminate"]
  /\ FreshDeadline

terminateRun ==
  /\ client.pc = "terminate"
  /\ \E disturbed \in BOOLEAN : /\ terminateExecution(client.named, disturbed)
                                /\ client' = [client EXCEPT !.pc = "inactive",
                                                            !.spared = disturbed]
  /\ UNCHANGED late

awaitInactive ==
  /\ client.pc = "inactive"
  /\ \/ /\ Late
        /\ client' = [client EXCEPT !.pc = "join"]
        /\ UNCHANGED controlVars
     \/ /\ ~Late
        /\ \E result \in {"active", "inactive", "failure"} :
             /\ workflowActive(result)
             /\ client' = IF result = "inactive" THEN [client EXCEPT !.pc = "archive"] ELSE client
  /\ UNCHANGED late

archive ==
  /\ client.pc = "archive"
  /\ \E ok \in BOOLEAN : archiveWorkflow(ok)
  /\ client' = [client EXCEPT !.pc = "join"]
  /\ UNCHANGED late

CleanUp == checkRun \/ terminateRun \/ awaitInactive \/ archive
runCleanup  == demo.program = "cookbook" /\ CleanUp
soleCleanup == demo.program = "sole" /\ CleanUp

\* wait, at the end of the trap
join ==
  /\ client.pc = "join" /\ worker.pc = "exited"
  /\ client' = [client EXCEPT !.pc = "ended"]
  /\ UNCHANGED <<late, controlVars>>

Script == /\ \/ runTrigger \/ soleTrigger \/ runHitl \/ awaitWorker
             \/ runCleanup \/ soleCleanup \/ join
          /\ UNCHANGED <<demo, worker>>

(***************************************************************************)
(* The service and the clock.                                              *)
(***************************************************************************)
\* A deployment is active while somebody polls for it.
Activate == /\ workflow.registered /\ ~workflow.active /\ worker.pc \in Running
            /\ workflow' = [workflow EXCEPT !.active = TRUE]
            /\ UNCHANGED <<demo, worker, client, late, runs, faults>>

Lapse == /\ workflow.active /\ worker.pc = "exited"
         /\ workflow' = [workflow EXCEPT !.active = FALSE]
         /\ UNCHANGED <<demo, worker, client, late, runs, faults>>

\* Two calls of the model may outlast the schedule-to-close timeout; the event
\* that says so is one the decoder does not know.
ActivityTimesOut ==
  /\ faults > 0
  /\ \E r \in DOMAIN runs :
       /\ runs[r].act /\ ~isTerminal(runs[r].status)
       /\ runs' = [runs EXCEPT ![r].act = FALSE, ![r].lost = TRUE, ![r].wft = TRUE,
                               ![r].news = TRUE]
  /\ faults' = faults - 1
  /\ UNCHANGED <<demo, worker, client, late, workflow>>

Expire(who) ==
  /\ who \notin late
  /\ IF who = "worker" THEN worker.pc \in Running
     ELSE client.pc \in {"active", "observe", "poll", "inactive"}
  /\ late' = late \cup {who}
  /\ UNCHANGED <<demo, worker, client, controlVars>>

Init ==
  /\ demo \in Demos
  /\ worker = [pc |-> "resolve", tls |-> TRUE, stop |-> FALSE, errors |-> 0, completions |-> 0,
               stream |-> <<>>, streams |-> <<>>, task |-> NoTask, result |-> "success",
               attempt |-> 0, missed |-> FALSE, rc |-> 0]
  /\ client = [pc |-> "active", k |-> 1, id |-> 0, status |-> "", rcs |-> <<>>, named |-> 0,
               sig |-> 0, spared |-> FALSE, timedOut |-> FALSE, waited |-> FALSE]
  /\ late = {}
  /\ workflow = Unregistered
  /\ runs = <<>>
  /\ faults = MaxFaults

Next == \/ runWorker \/ soleRunWorker \/ Script \/ (killWorker /\ UNCHANGED demo)
        \/ Activate \/ Lapse \/ ActivityTimesOut
        \/ \E who \in {"worker", "client"} : Expire(who)

\* Both processes keep running, and time passes.  Nothing is asked of the service.
Fairness == /\ WF_vars(runWorker \/ soleRunWorker)
            /\ WF_vars(Script \/ (killWorker /\ UNCHANGED demo))
            /\ \A who \in {"worker", "client"} : WF_vars(Expire(who))

Spec == Init /\ [][Next]_vars /\ Fairness

(***************************************************************************)
(* Properties.                                                             *)
(***************************************************************************)
RunOK(run) == /\ run.status \in {"RUNNING"} \cup kTerminal
              /\ run.done \in Nat
              /\ {run.wft, run.act, run.failed, run.lost, run.news} \subseteq BOOLEAN
              /\ run.commands \in Seq({"SCHEDULE", "COMPLETE"})

\* The state of the control plane, the worker and the script has its types:
\* among them, an error count below the limit while the worker loops.
TypeOK ==
  /\ demo \in Demos
  /\ \A r \in DOMAIN runs : RunOK(runs[r])
  /\ faults \in 0 .. MaxFaults
  /\ worker.pc \in {"resolve", "register", "exited"} \cup Running
  /\ worker.errors \in 0 .. MaxErrors
  /\ worker.pc \in Running \ {"leaving"} => worker.errors < MaxErrors
  /\ worker.task.id \in 0 .. Len(runs)
  /\ worker.completions = Len(worker.streams)
  /\ client.id \in 0 .. Len(runs) /\ client.named \in 0 .. Len(runs)
  /\ late \subseteq {"worker", "client"}

\* No client was started after one that failed.
Orderly == \/ demo.errexit
           \/ \A i \in DOMAIN client.rcs : i < Len(demo.clients) => client.rcs[i] = 0

\* The k-th command stream the worker prints is the command history of the
\* k-th run the script started (cookbook 03 compares streams on that ground),
\* unless the reply to one of the worker's answers was lost, or the script went
\* on although a client had failed.
StreamsMapToRuns ==
  ~worker.missed /\ Orderly =>
    \A k \in 1 .. worker.completions : k <= Len(runs) /\ worker.streams[k] = runs[k].commands

StreamsAsExpected ==
  /\ demo.judge = "first" => worker.streams[1] = demo.expected
  /\ demo.judge = "pair"  => worker.streams[1] = worker.streams[2]

Pass == /\ client.waited
        /\ Len(client.rcs) = Len(demo.clients) /\ \A k \in DOMAIN client.rcs : client.rcs[k] = 0
        /\ worker.rc = 0
        /\ StreamsAsExpected

\* A demonstration that passed left as many runs as clients, every one of them
\* completed, counted once by the worker and signalled if it waits: a run
\* whose id was lost, or a completion counted twice, never passes.
PassMeansServed ==
  client.pc = "ended" /\ Pass =>
    /\ Len(runs) = Len(demo.clients)
    /\ worker.completions = Len(runs)
    /\ \A k \in DOMAIN runs : runs[k].status = "COMPLETED"

\* A demonstration fails only when something went wrong outside it: an exchange
\* was disturbed, a time budget ran out, or the service asked for plaintext.
FailureHasACause ==
  client.pc = "ended" /\ ~Pass =>
    \/ faults < MaxFaults
    \/ client.timedOut \/ "worker" \in late
    \/ ~worker.tls

\* A signal the spec waits on is never refused as undeclared, however deep the
\* wait stands: the worker declares what it will wait for.
SignalIsDeclared == client.sig # 422

\* Once the script has ended, the run its evidence names is closed unless the
\* terminate call itself was disturbed; a worker that was killed in the middle
\* of a round does not reopen it or leave it behind.
NamedRunIsClosed ==
  client.pc = "ended" /\ client.named # 0 /\ ~client.spared =>
    isTerminal(runs[client.named].status)

\* The script ends: every loop of the worker and of the clients has a budget.
ScriptEnds == <>(client.pc = "ended")
=============================================================================
