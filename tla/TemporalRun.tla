----------------------------- MODULE TemporalRun -----------------------------
(***************************************************************************)
(* One workflow execution as the Temporal service keeps it: the part of    *)
(* the environment src/ talks to through PollWorkflowTaskQueue and         *)
(* RespondWorkflowTaskCompleted.  The service is not in the repository;    *)
(* what is modelled is what core/src/workflow_loop.cpp relies on and has   *)
(* to cope with:                                                           *)
(*   - at most one workflow task is out, and it times out;                 *)
(*   - events that arrive while a task is out are buffered, and enter the  *)
(*     history when the task ends;                                         *)
(*   - a completion is refused while events are buffered, an activity id   *)
(*     is refused while an activity of that id is open, and an answer to a *)
(*     task that timed out is refused;                                     *)
(*   - a closed execution changes no more.                                 *)
(***************************************************************************)
EXTENDS ReplayReference

CONSTANTS
  Inputs,          \* workflow inputs a client may start the run with
  Signals,         \* signals clients send, each at most once: [name, value, no]
  ActivityValues,  \* payloads an activity may complete with
  ActivityFates    \* how an activity may end, a subset of AllFates

AllFates == ActivityEnds \cup {"ActivityTimedOut"}

ASSUME FatesAssumption == ActivityFates \subseteq AllFates

VARIABLES
  history,   \* the recorded events
  buffered,  \* events that arrived while the workflow task is out
  wft,       \* the workflow task: "none", "scheduled" or "started"
  unsent     \* the signals no client has sent yet

serverVars == <<history, buffered, wft, unsent>>

RunInit ==
  /\ \E v \in Inputs : history = <<StartedEvent(v)>>
  /\ buffered = << >>
  /\ wft = "scheduled"
  /\ unsent = Signals

Closed == history[Len(history)].type \in TerminalEvents

ScheduledIn(events) == {e \in 1..Len(events) : events[e].type = "ActivityScheduled"}

\* Activities without a closing event, recorded or buffered.
OpenActivities ==
  {e \in ScheduledIn(history) :
     \A x \in Range(history) \cup Range(buffered) : x.type \in AllFates => x.ref # e}

\* An event nobody asked for: it waits while a workflow task is out, and
\* otherwise is recorded and puts a workflow task on the queue.
Record(e) ==
  /\ ~ Closed
  /\ IF wft = "started"
     THEN /\ buffered' = Append(buffered, e)
          /\ UNCHANGED <<history, wft>>
     ELSE /\ history' = Append(history, e)
          /\ wft' = "scheduled"
          /\ UNCHANGED buffered

SignalArrives(s) ==
  /\ s \in unsent
  /\ Record(SignaledEvent(s.name, s.value))
  /\ unsent' = unsent \ {s}

ActivityEndsWith(e, fate, val) ==
  /\ e \in OpenActivities
  /\ Record(ActivityEndEvent(fate, IF fate = "ActivityCompleted" THEN val ELSE Nothing, e))
  /\ UNCHANGED unsent

\* The task ends without its commands: timed out, or refused.
TaskEndsEmpty ==
  /\ wft = "started"
  /\ history' = history \o buffered
  /\ buffered' = << >>
  /\ wft' = "scheduled"
  /\ UNCHANGED unsent

\* Why the service refuses the commands of a task that is still out.
Unacceptable(commands) ==
  \E c \in Range(commands) :
    \/ IsTerminal(c) /\ buffered # << >>
    \/ ~ IsTerminal(c) /\ \E e \in OpenActivities : history[e].ref = c.seq

TaskCompletes(commands) ==
  /\ wft = "started"
  /\ ~ Unacceptable(commands)
  /\ history' = history \o CommandEvents(commands) \o buffered
  /\ buffered' = << >>
  /\ wft' = IF buffered = << >> THEN "none" ELSE "scheduled"
  /\ UNCHANGED unsent
=============================================================================
