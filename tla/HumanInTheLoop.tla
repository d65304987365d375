--------------------------- MODULE HumanInTheLoop ---------------------------
(***************************************************************************)
(* Cookbook 4 on the device: a run does device.echo, waits for the signal  *)
(* "approve", does device.echo again and completes.  The device works on   *)
(* the run and is also the one that approves it: when a workflow tick ends *)
(* as Waiting, loop() notes the run (g_waitingWorkflowId), and the next    *)
(* press of the BOOT button, or the line SIGNAL on the console, sends the  *)
(* signal to the run noted.                                                *)
(*                                                                         *)
(* A press comes through an interrupt at any moment and sets a flag; the   *)
(* loop, which may be blocked in a long poll, reads the flag at the top of *)
(* its next pass.  Whoever started the run may approve it as well.         *)
(*                                                                         *)
(* A workflow tick is a poll, a decision and an answer (WorkflowLoop has   *)
(* the decision in full); an activity tick is one step (SoleWorker has it  *)
(* in full).  The service is external: it sends a workflow task again when *)
(* its answer did not come, and an activity task until it is answered.     *)
(***************************************************************************)
EXTENDS Naturals

CONSTANTS
  Runs,          \* executions of mwf_device_hitl, by workflow id
  NoRun,         \* the empty workflow id
  MaxErrors,     \* transport errors in a row that drop the worker (5)
  MaxFaults,     \* bound on lost calls, reboots, WiFi losses, early timeouts
  MaxApprovals   \* bound on the approvals of others, per run

ASSUME HumanAssumption ==
  /\ NoRun \notin Runs
  /\ MaxErrors \in Nat \ {0}
  /\ MaxFaults \in Nat
  /\ MaxApprovals \in Nat

VARIABLES
  \* The device, RAM only.
  worker,     \* g_worker: "up", or "down" (null)
  armed,      \* g_waitingWorkflowId
  signaled,   \* g_signaledWorkflowId
  pressed,    \* g_btnPressed
  recent,     \* the last press served is less than 50 ms ago (g_btnLastMs)
  errors,     \* transportErrors
  turn,       \* RoundRobin.workflowNext
  phase,      \* where loop() stands
  task,       \* [run, decision]: the workflow task in hand
  \* The service, per run.
  status,     \* "none", "open" or "closed"
  done,       \* activities completed
  act,        \* an activity task is due
  due,        \* a workflow task is due
  out,        \* a workflow task is handed out
  approvals,  \* approve signals in the history
  faults,     \* faults so far
  \* What the properties speak of.
  fired,      \* per run: approvals from this device
  unsure,     \* runs one of whose approvals from here had its reply lost
  forgotten,  \* paused runs the device no longer knows to be waiting
  age         \* ticks begun since the press that `pressed` holds

deviceVars == <<worker, armed, signaled, pressed, recent, errors, turn, phase, task>>
serviceVars == <<status, done, act, due, out, approvals>>
ghostVars == <<fired, unsure, forgotten, age>>
vars == <<deviceVars, serviceVars, faults, ghostVars>>

Decisions == {"Await", "Schedule", "Wait", "Complete"}
Phases == {"button", "serial", "gate", "tick", "answer"}
NoTask == [run |-> NoRun, decision |-> "Await"]

Init ==
  /\ worker = "down" /\ armed = NoRun /\ signaled = NoRun
  /\ pressed = FALSE /\ recent = FALSE
  /\ errors = 0 /\ turn = "workflow" /\ phase = "button" /\ task = NoTask
  /\ status = [r \in Runs |-> "none"]
  /\ done = [r \in Runs |-> 0]
  /\ act = [r \in Runs |-> FALSE]
  /\ due = [r \in Runs |-> FALSE]
  /\ out = [r \in Runs |-> FALSE]
  /\ approvals = [r \in Runs |-> 0]
  /\ faults = 0
  /\ fired = [r \in Runs |-> 0]
  /\ unsure = {} /\ forgotten = {} /\ age = 0

\* The run has come to its wait and nobody has approved it.
Paused(r) == status[r] = "open" /\ done[r] = 1 /\ approvals[r] = 0

Fault == faults < MaxFaults /\ faults' = faults + 1

\* Slip: a run waits before its first activity.
decideEager(r) ==
  CASE act[r]                          -> "Await"
    [] ~act[r] /\ approvals[r] = 0     -> "Wait"
    [] OTHER                           -> IF done[r] < 2 THEN "Schedule" ELSE "Complete"

\* What the replay of the four steps comes to.
decide(r) ==
  CASE act[r]                           -> "Await"
    [] ~act[r] /\ done[r] = 0           -> "Schedule"
    [] ~act[r] /\ done[r] = 1           -> IF approvals[r] = 0 THEN "Wait" ELSE "Schedule"
    [] OTHER                            -> "Complete"

-----------------------------------------------------------------------------
(* The approval.                                                           *)

\* The signal reaches the run: an event, hence a workflow task.
Approve(r) ==
  /\ status[r] = "open"
  /\ approvals' = [approvals EXCEPT ![r] = @ + 1]
  /\ due' = [due EXCEPT ![r] = TRUE]
  /\ UNCHANGED <<status, done, act, out>>

\* Slip: the target is left as it is, so the next press fires again.
SentForgetful(r) == UNCHANGED <<armed, signaled>>

\* The run is not to be signalled, nor noted, again.
Sent(r) == signaled' = r /\ armed' = NoRun

\* ClientOps::signalWorkflow answers success.
SignalDelivered ==
  /\ Approve(armed)
  /\ Sent(armed)
  /\ fired' = [fired EXCEPT ![armed] = @ + 1]
  /\ UNCHANGED <<unsure, faults>>

\* It answers failure, and the run stays armed: the run is closed, the request
\* was lost, or the signal got there and only the reply was lost.
SignalFails ==
  /\ UNCHANGED <<armed, signaled>>
  /\ \/ /\ status[armed] # "open"
        /\ UNCHANGED <<serviceVars, faults, fired, unsure>>
     \/ /\ Fault
        /\ UNCHANGED <<serviceVars, fired, unsure>>
     \/ /\ Fault
        /\ Approve(armed)
        /\ fired' = [fired EXCEPT ![armed] = @ + 1]
        /\ unsure' = unsure \cup {armed}

NothingSent == UNCHANGED <<armed, signaled, serviceVars, faults, fired, unsure>>

\* Without a worker, or with no run armed, the approval is dropped.
sendApproveSignal ==
  IF worker = "down" \/ armed = NoRun THEN NothingSent
  ELSE SignalDelivered \/ SignalFails

\* Slip: a press that has no target is kept for the run that will wait next.
drainKeeping == IF armed = NoRun THEN UNCHANGED pressed ELSE pressed' = FALSE

drain == pressed' = FALSE

\* The flag is cleared whether the press counts or is a bounce of the last one.
pollSignalButton ==
  /\ phase = "button"
  /\ phase' = "serial"
  /\ UNCHANGED <<worker, errors, turn, task, forgotten, age>>
  /\ \/ /\ ~pressed
        /\ NothingSent
        /\ UNCHANGED <<pressed, recent>>
     \/ /\ pressed /\ recent
        /\ drain
        /\ NothingSent
        /\ UNCHANGED recent
     \/ /\ pressed /\ ~recent
        /\ drain
        /\ recent' = TRUE
        /\ sendApproveSignal

\* The console may hold a line SIGNAL, typed at any time since the last pass.
pollSignalSerial ==
  /\ phase = "serial"
  /\ phase' = "gate"
  /\ NothingSent \/ sendApproveSignal
  /\ UNCHANGED <<worker, pressed, recent, errors, turn, task, forgotten, age>>

-----------------------------------------------------------------------------
(* The rest of loop().                                                     *)

\* The device forgets every run it has armed that is still paused.
ForgetsAll == forgotten' = forgotten \cup {r \in Runs : r = armed /\ Paused(r)}

\* No WiFi: the pass ends here.
NoWifi ==
  /\ phase = "gate"
  /\ Fault
  /\ phase' = "button"
  /\ UNCHANGED <<worker, armed, signaled, pressed, recent, errors, turn, task>>
  /\ UNCHANGED <<serviceVars, ghostVars>>

\* whoami fails; it is tried again in a later pass.
WhoamiFails ==
  /\ phase = "gate" /\ worker = "down"
  /\ Fault
  /\ phase' = "button"
  /\ UNCHANGED <<worker, armed, signaled, pressed, recent, errors, turn, task>>
  /\ UNCHANGED <<serviceVars, ghostVars>>

\* whoami succeeds.  A new worker starts without a target.
buildWorker ==
  /\ phase = "gate" /\ worker = "down"
  /\ worker' = "up"
  /\ armed' = NoRun /\ signaled' = NoRun
  /\ ForgetsAll
  /\ phase' = "tick"
  /\ UNCHANGED <<pressed, recent, errors, turn, task>>
  /\ UNCHANGED <<serviceVars, faults, fired, unsure, age>>

WorkerIsUp ==
  /\ phase = "gate" /\ worker = "up"
  /\ phase' = "tick"
  /\ UNCHANGED <<worker, armed, signaled, pressed, recent, errors, turn, task>>
  /\ UNCHANGED <<serviceVars, faults, ghostVars>>

\* Slip: one error too many.
onTransportErrorLate ==
  IF errors >= MaxErrors
  THEN worker' = "down" /\ errors' = 0
  ELSE errors' = errors + 1 /\ UNCHANGED worker

\* A transport error; the last of MaxErrors in a row drops the worker.
onTransportError ==
  IF errors + 1 >= MaxErrors
  THEN worker' = "down" /\ errors' = 0
  ELSE errors' = errors + 1 /\ UNCHANGED worker

Calm == errors' = 0 /\ UNCHANGED worker

TickBegins(of) ==
  /\ phase = "tick" /\ turn = of
  /\ turn' = IF of = "workflow" THEN "activity" ELSE "workflow"
  /\ age' = IF pressed THEN age + 1 ELSE 0
  /\ UNCHANGED <<armed, signaled, pressed, recent, fired, unsure, forgotten>>

Dispatchable(r) == status[r] = "open" /\ due[r] /\ ~out[r]
HandOut(r) == due' = [due EXCEPT ![r] = FALSE] /\ out' = [out EXCEPT ![r] = TRUE]

PollTask ==
  /\ TickBegins("workflow")
  /\ \E r \in Runs : /\ Dispatchable(r)
                     /\ HandOut(r)
                     /\ task' = [run |-> r, decision |-> decide(r)]
  /\ phase' = "answer"
  /\ UNCHANGED <<worker, errors, status, done, act, approvals, faults>>

PollIdle ==
  /\ TickBegins("workflow")
  /\ \A r \in Runs : ~Dispatchable(r)
  /\ Calm
  /\ phase' = "button"
  /\ UNCHANGED <<task, serviceVars, faults>>

\* The poll fails, before or after a task was handed out to it.
PollFails ==
  /\ TickBegins("workflow")
  /\ Fault
  /\ \/ UNCHANGED <<due, out>>
     \/ \E r \in Runs : Dispatchable(r) /\ HandOut(r)
  /\ onTransportError
  /\ phase' = "button"
  /\ UNCHANGED <<task, status, done, act, approvals>>

\* device.echo for one run; it fails before or after its answer is taken.
ActivityTick ==
  /\ TickBegins("activity")
  /\ phase' = "button"
  /\ UNCHANGED <<task, status, out, approvals>>
  /\ \/ /\ \A r \in Runs : ~act[r]
        /\ Calm
        /\ UNCHANGED <<done, act, due, faults>>
     \/ \E r \in Runs :
          /\ act[r]
          /\ done' = [done EXCEPT ![r] = @ + 1]
          /\ act' = [act EXCEPT ![r] = FALSE]
          /\ due' = [due EXCEPT ![r] = TRUE]
          /\ \/ Calm /\ UNCHANGED faults
             \/ onTransportError /\ Fault
     \/ /\ Fault
        /\ onTransportError
        /\ UNCHANGED <<done, act, due>>

\* The service takes the answer to the task it has handed out.  It refuses to
\* close a run that had an event meanwhile: a new task shows the event.
Acceptable(r, decision) == out[r] /\ (decision = "Complete" => ~due[r])

Accept(r, decision) ==
  /\ Acceptable(r, decision)
  /\ out' = [out EXCEPT ![r] = FALSE]
  /\ act' = [act EXCEPT ![r] = @ \/ decision = "Schedule"]
  /\ status' = IF decision = "Complete" THEN [status EXCEPT ![r] = "closed"] ELSE status
  /\ UNCHANGED <<done, due, approvals>>

Refuse(r, decision) ==
  /\ ~Acceptable(r, decision)
  /\ out' = [out EXCEPT ![r] = FALSE]
  /\ UNCHANGED <<status, done, act, due, approvals>>

\* Slip: a run is noted only when none is.
armIfFree(r) == armed' = IF r # signaled /\ armed = NoRun THEN r ELSE armed

\* The run becomes the target of the next press, in place of any other, unless
\* it has been signalled.
arm(r) == armed' = IF r # signaled THEN r ELSE armed

Answer ==
  /\ phase = "answer"
  /\ phase' = "button"
  /\ task' = NoTask
  /\ UNCHANGED <<signaled, pressed, recent, turn, fired, unsure, age>>

\* The tick ends as Waiting: the run waits and the service knows it.
AnswerWaiting ==
  /\ Answer
  /\ task.decision = "Wait"
  /\ Accept(task.run, "Wait")
  /\ Calm
  /\ arm(task.run)
  /\ forgotten' = forgotten \cup {r \in Runs : r = armed /\ r # armed' /\ Paused(r)}
  /\ UNCHANGED faults

\* It ends as Progressed or Completed.
AnswerProgress ==
  /\ Answer
  /\ task.decision # "Wait"
  /\ Accept(task.run, task.decision)
  /\ Calm
  /\ UNCHANGED <<armed, forgotten, faults>>

\* Refused, or lost on its way: the service sends the task again.
AnswerFails ==
  /\ Answer
  /\ \/ Refuse(task.run, task.decision) /\ UNCHANGED faults
     \/ Fault /\ UNCHANGED serviceVars
  /\ onTransportError
  /\ UNCHANGED <<armed, forgotten>>

\* Accepted, but the reply is lost.  A run that waits is never noted.
AnswerUnheard ==
  /\ Answer
  /\ Fault
  /\ Accept(task.run, task.decision)
  /\ onTransportError
  /\ forgotten' = forgotten \cup {r \in Runs : r = task.run /\ r # armed /\ Paused(r)}
  /\ UNCHANGED armed

Reboot ==
  /\ Fault
  /\ worker' = "down" /\ armed' = NoRun /\ signaled' = NoRun
  /\ pressed' = FALSE /\ recent' = FALSE
  /\ errors' = 0 /\ turn' = "workflow" /\ phase' = "button" /\ task' = NoTask
  /\ ForgetsAll
  /\ age' = 0
  /\ UNCHANGED <<serviceVars, fired, unsure>>

-----------------------------------------------------------------------------
(* People and the service.                                                 *)

\* The interrupt: presses merge until the loop reads the flag.
onBootButtonIsr ==
  /\ ~pressed
  /\ pressed' = TRUE
  /\ age' = 0
  /\ UNCHANGED <<worker, armed, signaled, recent, errors, turn, phase, task>>
  /\ UNCHANGED <<serviceVars, faults, fired, unsure, forgotten>>

DebounceEnds ==
  /\ recent
  /\ recent' = FALSE
  /\ UNCHANGED <<worker, armed, signaled, pressed, errors, turn, phase, task>>
  /\ UNCHANGED <<serviceVars, faults, ghostVars>>

StartRun ==
  /\ \E r \in Runs : /\ status[r] = "none"
                     /\ status' = [status EXCEPT ![r] = "open"]
                     /\ due' = [due EXCEPT ![r] = TRUE]
  /\ UNCHANGED <<deviceVars, done, act, out, approvals, faults, ghostVars>>

\* Somebody else sends the signal, before the run waits or while it does.
ApprovedElsewhere ==
  /\ \E r \in Runs : approvals[r] < MaxApprovals /\ Approve(r)
  /\ UNCHANGED <<deviceVars, faults, ghostVars>>

\* The answer is overdue.  While the device still works on it that is a fault.
TaskTimesOut ==
  /\ \E r \in Runs : /\ out[r]
                     /\ IF task.run = r THEN Fault ELSE UNCHANGED faults
                     /\ out' = [out EXCEPT ![r] = FALSE]
                     /\ due' = [due EXCEPT ![r] = TRUE]
  /\ UNCHANGED <<deviceVars, status, done, act, approvals, ghostVars>>

-----------------------------------------------------------------------------
Tick == PollTask \/ PollIdle \/ PollFails \/ ActivityTick
Answers == AnswerWaiting \/ AnswerProgress \/ AnswerFails \/ AnswerUnheard
Loop == \/ pollSignalButton \/ pollSignalSerial
        \/ NoWifi \/ WhoamiFails \/ buildWorker \/ WorkerIsUp
        \/ Tick \/ Answers

Next == \/ Loop \/ Reboot
        \/ onBootButtonIsr \/ DebounceEnds
        \/ StartRun \/ ApprovedElsewhere \/ TaskTimesOut

Spec == Init /\ [][Next]_vars

\* The loop runs, time passes, and somebody at the board keeps pressing.
Fairness == /\ WF_vars(Loop)
            /\ WF_vars(DebounceEnds)
            /\ WF_vars(onBootButtonIsr)
            /\ WF_vars(TaskTimesOut)

FairSpec == Spec /\ Fairness

-----------------------------------------------------------------------------
(* Properties.                                                             *)

\* Every variable has its type.
TypeOK ==
  /\ worker \in {"up", "down"}
  /\ armed \in Runs \cup {NoRun} /\ signaled \in Runs \cup {NoRun}
  /\ pressed \in BOOLEAN /\ recent \in BOOLEAN
  /\ errors \in Nat /\ errors < MaxErrors
  /\ turn \in {"workflow", "activity"} /\ phase \in Phases
  /\ task \in [run : Runs \cup {NoRun}, decision : Decisions]
  /\ phase = "answer" => task.run \in Runs
  /\ status \in [Runs -> {"none", "open", "closed"}]
  /\ done \in [Runs -> Nat]
  /\ act \in [Runs -> BOOLEAN] /\ due \in [Runs -> BOOLEAN] /\ out \in [Runs -> BOOLEAN]
  /\ approvals \in [Runs -> Nat] /\ fired \in [Runs -> Nat]
  /\ faults \in 0..MaxFaults
  /\ unsure \subseteq Runs /\ forgotten \subseteq Runs
  /\ age \in Nat

\* The device approves a run at most once, whatever the presses, rebuilds and
\* redelivered tasks, unless the reply to one of its approvals was lost
\* (main.cpp:353, :597: "don't re-fire", "no double-fire").
NoDoubleFire == \A r \in Runs : fired[r] > 1 => r \in unsure

\* The device approves no run that has not come to its wait: neither a run that
\* has only started nor one that still works on its first activity.
ApprovesOnlyThePaused == \A r \in Runs : fired[r] > 0 => done[r] > 0

\* A press is spent by the next pass of the loop: it approves the run armed when
\* it was made or the one that the tick under way then reports, and never waits
\* for a later run (main.cpp:369-378).
PressIsFresh == pressed => age <= 1

\* A paused run does not stay paused while somebody keeps pressing, unless the
\* device has lost track of it: another run was armed over it, the reply to its
\* Waiting answer was lost, or the worker was rebuilt or the board restarted.
PausedRunIsApproved ==
  \A r \in Runs : Paused(r) ~> (~Paused(r) \/ r \in forgotten)
=============================================================================
