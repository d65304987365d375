---------------------------- MODULE WorkflowLoop ----------------------------
(***************************************************************************)
(* core/src/workflow_loop.cpp: the poll -> restore -> decide -> persist -> *)
(* respond -> erase tick, for one run, against the Temporal service of     *)
(* TemporalRun and the durable record exec/<runId>.                        *)
(*                                                                         *)
(* runOnce is cut where the outside world can change under it: at the two  *)
(* RPCs and at the two writes to the store.  Power can fail between any    *)
(* two of those steps and in the middle of a write; a request or a reply   *)
(* can be lost; the service can time the task out while the device works.  *)
(* A tick that reports TransportError or ProtocolError is a tick that ends *)
(* early: the loop keeps nothing in RAM from one tick to the next.         *)
(***************************************************************************)
EXTENDS TemporalRun

CONSTANTS
  Specs,       \* workflow specs the firmware may be built with
  Reflashed,   \* specs a later firmware may carry instead
  NoSpec,      \* the firmware knows no spec of this workflow type
  NoState,     \* exec/<runId> is absent
  CorruptState,\* exec/<runId> holds bytes restoreState refuses
  InlineResults,\* a state of at most so many results fits kInlineThreshold
  MaxFaults    \* bounds losses, early timeouts, failed writes and power cuts

ASSUME FaultsAssumption == MaxFaults \in Nat /\ InlineResults \in Nat
ASSUME SpecsAssumption ==
  \A s \in (Specs \cup Reflashed) \ {NoSpec} : s \in Seq(Range(s)) /\ Accepted(s)

VARIABLES
  spec,      \* what specProvider_ returns for the workflow type
  store,     \* what the durable record of the run reads as
  home,      \* where it is: "nowhere", "nvs", "file", "unlisted" or an "orphan"
  phase,     \* where runOnce stands
  task,      \* the WorkflowTaskInfo in hand
  decision,  \* the Decision in hand
  faults     \* how many more things may go wrong

record == <<store, home>>
deviceVars == <<spec, record, phase, task, decision, faults>>
vars == <<history, buffered, wft, unsent, spec, record, phase, task, decision, faults>>

\* `live`: the service still waits for this task's answer.  `horizon`: how
\* much of the history the poll response carried (all of it).
NoTask     == [live |-> FALSE, horizon |-> 0]
NoDecision == Failure

Phases == {"idle", "polled", "unregistered", "decided", "persisted", "answered"}

Delivered == SubSeq(history, 1, task.horizon)
Absent    == store \in {NoState, CorruptState}

Init ==
  /\ RunInit
  /\ spec \in Specs
  /\ store = NoState
  /\ home = "nowhere"
  /\ phase = "idle"
  /\ task = NoTask
  /\ decision = NoDecision
  /\ faults = MaxFaults

\* runOnce returns, or power fails.
EndTick ==
  /\ phase' = "idle"
  /\ task' = NoTask
  /\ decision' = NoDecision

Fault == faults > 0 /\ faults' = faults - 1

-----------------------------------------------------------------------------
(* The tick.                                                               *)

\* PollWorkflowTaskQueue answers with a task.
Poll ==
  /\ phase = "idle"
  /\ wft = "scheduled"
  /\ wft' = "started"
  /\ task' = [live |-> TRUE, horizon |-> Len(history)]
  /\ phase' = "polled"
  /\ UNCHANGED <<history, buffered, unsent, spec, record, decision, faults>>

\* The service hands the task out, but the reply is lost, does not parse or is
\* refused: TransportError or ProtocolError, and nobody holds the task.
PollReplyLost ==
  /\ phase = "idle"
  /\ wft = "scheduled"
  /\ wft' = "started"
  /\ Fault
  /\ UNCHANGED <<history, buffered, unsent, spec, record, phase, task, decision>>

\* specProvider_ knows the type: load the prior state and decide.  Without a
\* readable state the whole delivered history is replayed.
Decide(s, delivered) ==
  IF Absent THEN Replay(s, delivered) ELSE Resume(s, delivered, store)

RestoreAndDecide ==
  /\ phase = "polled"
  /\ spec # NoSpec
  /\ Decide(spec, Delivered).ok
  /\ decision' = Decide(spec, Delivered)
  /\ phase' = "decided"
  /\ UNCHANGED <<serverVars, spec, record, task, faults>>

\* decide failed: ProtocolError, no answer; the task is left to time out.
DecideFails ==
  /\ phase = "polled"
  /\ spec # NoSpec
  /\ ~ Decide(spec, Delivered).ok
  /\ EndTick
  /\ UNCHANGED <<serverVars, spec, record, faults>>

\* No spec for the type: respondFail, which neither saves nor erases.
RefuseType ==
  /\ phase = "polled"
  /\ spec = NoSpec
  /\ decision' = [ok |-> TRUE, commands |-> <<FailWorkflow>>, waiting |-> Nothing,
                  finished |-> FALSE, state |-> FreshState(spec)]
  /\ phase' = "unregistered"
  /\ UNCHANGED <<serverVars, spec, record, task, faults>>

\* DurableStore in terms of this one record.  A small state lives in NVS, one
\* that has grown in a file.  What NVS holds and its index does not list is an
\* orphan: no larger state and no erase removes it, and get() prefers it to the
\* file.  What only the index in RAM lists becomes one at the next reboot.
IsInline(state) == Cardinality(DOMAIN state.results) <= InlineResults
Indexed == home \in {"nvs", "unlisted"}

Saved(state) ==
  \/ IsInline(state) /\ store' = state /\ home' = IF Indexed THEN home ELSE "nvs"
  \/ ~ IsInline(state) /\ home # "orphan" /\ store' = state /\ home' = "file"
  \/ ~ IsInline(state) /\ home = "orphan" /\ UNCHANGED record

\* put() stops before its last write: nothing has happened, the copy in the
\* other backend is gone, the file is torn, or the value lacks its index entry.
HalfSaved(state) ==
  \/ UNCHANGED record
  \/ /\ IF IsInline(state) THEN home = "file" ELSE Indexed
     /\ store' = NoState /\ home' = "nowhere"
  \/ ~ IsInline(state) /\ home # "orphan" /\ store' = CorruptState /\ home' = "file"
  \/ IsInline(state) /\ ~ Indexed /\ store' = state /\ home' = "orphan"

Erased ==
  IF home = "orphan" THEN UNCHANGED record ELSE store' = NoState /\ home' = "nowhere"

\* begin() loads the index from flash.
Rebooted == home' = (IF home = "unlisted" THEN "orphan" ELSE home) /\ UNCHANGED store

\* saveState succeeds.
Persist ==
  /\ phase = "decided"
  /\ Saved(decision.state)
  /\ phase' = "persisted"
  /\ UNCHANGED <<serverVars, spec, task, decision, faults>>

\* The write fails, or power fails during it.
PersistFails ==
  /\ phase = "decided"
  /\ Fault
  /\ HalfSaved(decision.state)
  /\ EndTick
  /\ UNCHANGED <<serverVars, spec>>

\* The write succeeds but for the index, which saveIndex does not notice.
PersistUnlisted ==
  /\ phase = "decided"
  /\ Fault
  /\ IsInline(decision.state) /\ ~ Indexed
  /\ store' = decision.state
  /\ home' = "unlisted"
  /\ phase' = "persisted"
  /\ UNCHANGED <<serverVars, spec, task, decision>>

\* (Slip: answering before saving.)
AnsweringUnsaved == phase \in {"decided", "unregistered"}

Answering == phase \in {"persisted", "unregistered"}

\* RespondWorkflowTaskCompleted is accepted and the device hears of it.
RespondAccepted ==
  /\ Answering
  /\ task.live
  /\ TaskCompletes(decision.commands)
  /\ IF phase = "persisted"
     THEN phase' = "answered" /\ task' = [task EXCEPT !.live = FALSE]
          /\ UNCHANGED decision
     ELSE EndTick
  /\ UNCHANGED <<spec, record, faults>>

\* Accepted, but the reply is lost: TransportError, steps 9 and 10 are skipped.
RespondReplyLost ==
  /\ Answering
  /\ task.live
  /\ TaskCompletes(decision.commands)
  /\ Fault
  /\ EndTick
  /\ UNCHANGED <<spec, record>>

\* The request never arrives: TransportError.
RespondLost ==
  /\ Answering
  /\ Fault
  /\ EndTick
  /\ UNCHANGED <<serverVars, spec, record>>

\* The service refuses the commands (the task fails and is scheduled anew) or
\* the whole answer (the task had timed out): TransportError.
RespondRefused ==
  /\ Answering
  /\ \/ task.live /\ Unacceptable(decision.commands) /\ TaskEndsEmpty
     \/ ~ task.live /\ UNCHANGED serverVars
  /\ EndTick
  /\ UNCHANGED <<spec, record, faults>>

\* (Slips: only a history that was closed already, or only a completed run, is
\* taken for terminal.)
AnsweredTerminalLate(d) == d.finished
AnsweredTerminalCompleted(d) ==
  d.finished \/ \E c \in Range(d.commands) : c.kind = "CompleteWorkflow"

AnsweredTerminal(d) == d.finished \/ \E c \in Range(d.commands) : IsTerminal(c)

\* Steps 9 and 10: a terminal answer erases exec/<runId>.
ClassifyAndErase ==
  /\ phase = "answered"
  /\ IF AnsweredTerminal(decision) THEN Erased ELSE UNCHANGED record
  /\ EndTick
  /\ UNCHANGED <<serverVars, spec, faults>>

-----------------------------------------------------------------------------
(* The world around the tick.                                              *)

\* Power fails between two steps; everything in RAM is gone.
PowerCut ==
  /\ phase # "idle" \/ home = "unlisted"
  /\ Fault
  /\ Rebooted
  /\ EndTick
  /\ UNCHANGED <<serverVars, spec>>

\* Another firmware is flashed; the data partition survives.
Reflash ==
  /\ Fault
  /\ spec' \in Reflashed \ {spec}
  /\ Rebooted
  /\ EndTick
  /\ UNCHANGED serverVars

\* The service gives up on the task: for certain when the device dropped it,
\* and as a fault while the device still works on it.
TaskTimesOut ==
  /\ TaskEndsEmpty
  /\ IF task.live THEN Fault ELSE UNCHANGED faults
  /\ task' = [task EXCEPT !.live = FALSE]
  /\ UNCHANGED <<spec, record, phase, decision>>

SomeSignalArrives ==
  /\ \E s \in unsent : SignalArrives(s)
  /\ UNCHANGED deviceVars

SomeActivityEnds ==
  /\ \E e \in OpenActivities, fate \in ActivityFates, val \in ActivityValues :
       ActivityEndsWith(e, fate, val)
  /\ UNCHANGED deviceVars

\* Nothing is left to happen.
Settled ==
  /\ phase = "idle"
  /\ wft = "none"
  /\ Closed \/ (unsent = {} /\ OpenActivities = {})
  /\ UNCHANGED vars

Tick ==
  \/ Poll \/ RestoreAndDecide \/ DecideFails \/ RefuseType
  \/ Persist \/ RespondAccepted \/ RespondRefused \/ ClassifyAndErase

Faults ==
  \/ PollReplyLost \/ PersistFails \/ PersistUnlisted \/ RespondReplyLost \/ RespondLost
  \/ PowerCut \/ Reflash

Next == Tick \/ Faults \/ TaskTimesOut \/ SomeSignalArrives \/ SomeActivityEnds \/ Settled

Spec == Init /\ [][Next]_vars

\* runOnce has a step to take, and takes it.  Every step of Tick changes the
\* phase, and one is enabled whenever Runnable holds; so, faults being finite,
\* this is weak fairness of Tick in a form TLC need not run the walk to test.
Runnable == phase # "idle" \/ wft = "scheduled"
MovesOn  == Runnable /\ phase' \in Phases \ {phase}

\* The Arduino loop calls tick() forever, the service times out a task nobody
\* answers, activities run into an end, and clients send the signals they owe.
\* Nothing makes a fault happen.
Fairness ==
  /\ WF_phase(MovesOn)
  /\ WF_vars(TaskTimesOut /\ ~ task.live)
  /\ WF_vars(SomeActivityEnds)
  /\ WF_vars(SomeSignalArrives)

FairSpec == Spec /\ Fairness
-----------------------------------------------------------------------------
(* Properties.                                                             *)

IsEngineState(s) ==
  /\ s.spec \in Specs \cup Reflashed
  /\ s.watermark \in 0..Len(history)
  /\ s.nextSeq \in Nat \ {0}
  /\ s.pending = NoPending \/ s.pending.sched \in ScheduledIn(history)

\* Every variable has its type, and no state the device holds claims to have
\* seen more than the service has recorded.
TypeOK ==
  /\ \A e \in Range(history) \cup Range(buffered) : e.type \in
       {"Started", "Signaled", "ActivityScheduled"} \cup AllFates \cup TerminalEvents
  /\ wft \in {"none", "scheduled", "started"}
  /\ unsent \subseteq Signals
  /\ spec \in Specs \cup Reflashed
  /\ store \in {NoState, CorruptState} \/ IsEngineState(store)
  /\ home \in {"nowhere", "nvs", "file", "unlisted", "orphan"}
  /\ phase \in Phases
  /\ task.live \in BOOLEAN /\ task.horizon \in 0..Len(history)
  /\ phase \in {"decided", "persisted", "answered"} => IsEngineState(decision.state)
  /\ faults \in 0..MaxFaults

\* A device that resumes from its saved state decides what a device that
\* replays the delivered history from nothing would decide: replay_engine.h:28-34
\* and docs/architecture.md:230-236 promise exactly this.
ResumeMatchesReplay ==
  phase = "decided" =>
    /\ Replay(spec, Delivered).ok
    /\ decision.commands = Replay(spec, Delivered).commands
    /\ decision.waiting  = Replay(spec, Delivered).waiting

\* What the device is about to answer is what the delivered history is owed by
\* the declarative reading of its spec: the right next activity with the right
\* argument and number, the right result, and no step skipped or repeated.
DecisionIsOwed ==
  phase = "decided" => decision.commands = OwedCommands(spec, Delivered)

Owed == INSTANCE OwedRun WITH Outside <- AllFates \cup {"Signaled"}

\* Lost answers, torn and stale records, power cuts and reboots leave no trace
\* in the run: its history is one that a worker without state, which is never
\* late, could have made by giving each history what it is owed.
ImplementsOwedRun == Owed!Spec

\* An activity is scheduled only when no other is open, whatever was lost,
\* refused, decided twice or decided from a record that was torn.
OneActivityAtATime == Cardinality(OpenActivities) <= 1

\* A saved state has counted exactly the activities scheduled up to its
\* watermark, and the service is at most the one command the state itself owes
\* ahead of it: saving before answering is what makes the second part true, of
\* all states but an orphan, which hides the states saved after it.
SavedStateCoversHistory ==
  ~ Absent =>
    /\ store.nextSeq = 1 + Cardinality(ScheduledIn(SubSeq(history, 1, store.watermark)))
    /\ home # "orphan" => Cardinality(ScheduledIn(history)) <= store.nextSeq

\* The device never saves a state that has seen less than the one it replaces,
\* though a torn or lost record makes it start over.
SavedStateNeverRegresses ==
  [][~ Absent /\ ~ Absent' => store'.watermark >= store.watermark]_vars

\* The k-th wait for a signal, in the order the run passed them, is bound to
\* the k-th signal of that name the service recorded, also when the wait was
\* reached long after the signal came.
SignalsBindInOrder ==
  ~ Absent =>
    \A i, j \in {k \in 1..Len(store.spec) : store.spec[k].kind = "wait_signal"} :
      LET p == store.spec[i]
          q == store.spec[j]
          signals == SignalsNamed(history, p.name)
          passed == {k \in 1..i : /\ store.spec[k].kind = "wait_signal"
                                  /\ store.spec[k].name = p.name
                                  /\ store.spec[k].id \in DOMAIN store.results}
      IN  /\ p.id \in DOMAIN store.results =>
               store.results[p.id] = Payload(history[signals[Cardinality(passed)]].value)
          /\ q.name = p.name =>
               Count(store.consumed, p.name) >= Cardinality(passed)

\* Once a run is closed and the device is between ticks, exec/<runId> is gone,
\* provided nothing went wrong on the way (workflow_loop.cpp:245-250).
ClosedRunLeavesNothing ==
  Closed /\ phase = "idle" /\ faults = MaxFaults => store = NoState

\* A run whose activities end and whose signals come is closed in the end,
\* whatever finite number of losses, early timeouts and power cuts hits it.
RunCloses == <>Closed
=============================================================================
