--------------------------- MODULE HistoryDecoding ---------------------------
(***************************************************************************)
(* Three readers of one history, and the two writers of an answer to it.   *)
(* The desktop reads a poll response with libprotobuf                      *)
(* (host_workflow_adapter.h), the device with nanopb                       *)
(* (nanopb_workflow_adapter.cpp), and tests and tools read the service's   *)
(* JSON export (history.cpp).  All feed ReplayEngine, so each must see     *)
(* the run that the service has recorded.                                  *)
(*                                                                         *)
(* The service records events one by one; its event ids are positions.     *)
(* A history longer than a page comes with a next_page_token.              *)
(***************************************************************************)
EXTENDS ReplayEngine, FiniteSets

CONSTANTS
  Specs,         \* workflow specs
  Values,        \* JSON values in payloads
  Null,          \* a payload without data: how the service writes a null
  MaxRecorded,   \* bound on the events of a run
  PageSizes,     \* events in a page of history, as the service may choose
  DeviceEvents,  \* events the device has room for (64)
  DeviceCommands \* commands the device has room for (16)

ASSUME DecodingAssumption ==
  /\ {MaxRecorded, DeviceEvents, DeviceCommands} \cup PageSizes \subseteq Nat \ {0}
  /\ Null \notin Values
  /\ \A spec \in Specs : spec \in Seq(Range(spec))

VARIABLE recorded    \* the events of the run

Proto(type, name, ref, payloads) ==
  [event_type |-> type, name |-> name, ref |-> ref, payloads |-> payloads]

\* Nothing, or one payload: what a converter makes of one argument.
Arguments == {<< >>} \cup {<<v>> : v \in Values \cup {Null}}

-----------------------------------------------------------------------------
(* The service.                                                            *)

Of(type) == {i \in DOMAIN recorded : recorded[i].event_type = type}
Ends == {"ACTIVITY_TASK_COMPLETED", "ACTIVITY_TASK_FAILED",
         "ACTIVITY_TASK_TIMED_OUT", "ACTIVITY_TASK_CANCELED"}
Open == {i \in Of("ACTIVITY_TASK_SCHEDULED") :
           \A j \in DOMAIN recorded : recorded[j].event_type \in Ends => recorded[j].ref # i}
ClosedTypes == {"WORKFLOW_EXECUTION_COMPLETED", "WORKFLOW_EXECUTION_FAILED"}

Record(e) ==
  /\ Len(recorded) < MaxRecorded
  /\ \A i \in DOMAIN recorded : recorded[i].event_type \notin ClosedTypes
  /\ recorded' = Append(recorded, e)

Schedule == /\ Open = {}
            /\ \E name \in {"A", "B"}, p \in Arguments :
                 Record(Proto("ACTIVITY_TASK_SCHEDULED", name,
                              Cardinality(Of("ACTIVITY_TASK_SCHEDULED")) + 1, p))

Start == \E i \in Open : Record(Proto("ACTIVITY_TASK_STARTED", Nothing, i, << >>))

End == \E i \in Open :
         \/ \E p \in Arguments : Record(Proto("ACTIVITY_TASK_COMPLETED", Nothing, i, p))
         \/ \E t \in Ends \ {"ACTIVITY_TASK_COMPLETED"} : Record(Proto(t, Nothing, i, << >>))

Signal == \E p \in Arguments : Record(Proto("WORKFLOW_EXECUTION_SIGNALED", "approve", 0, p))

TaskEvent == \E t \in {"WORKFLOW_TASK_STARTED", "WORKFLOW_TASK_COMPLETED"} :
               Record(Proto(t, Nothing, 0, << >>))

Close == \E t \in ClosedTypes : Record(Proto(t, Nothing, 0, << >>))

DecodingInit == \E p \in Arguments :
                  recorded = <<Proto("WORKFLOW_EXECUTION_STARTED", "W", 0, p)>>
DecodingNext == Schedule \/ Start \/ End \/ Signal \/ TaskEvent \/ Close

\* The poll response.
Response(size) == [events |-> [i \in (DOMAIN recorded) \cap (1..size) |-> recorded[i]],
                   next_page_token |-> Len(recorded) > size]

-----------------------------------------------------------------------------
(* The readers.  Each yields a history of the engine's events; an event    *)
(* whose type the reader does not know becomes Unknown, which the walk     *)
(* steps over.                                                             *)

Refused == [ok |-> FALSE, events |-> << >>]
Parsed(events) == [ok |-> TRUE, events |-> events]
Bare(type) == Event(type, Nothing, Nothing, 0)

\* The first payload.  Its bytes go to the engine as they are, and no bytes at
\* all are not JSON.
appendPayloads(payloads) ==
  IF payloads = << >> THEN Nothing
  ELSE IF Head(payloads) = Null THEN BadJson ELSE Head(payloads)

\* (Slip: the signal event has no case of its own.)
mapEventTypeUnsignaled(t) ==
  CASE t = "WORKFLOW_EXECUTION_STARTED"   -> "Started"
    [] t = "ACTIVITY_TASK_SCHEDULED"      -> "ActivityScheduled"
    [] t = "ACTIVITY_TASK_COMPLETED"      -> "ActivityCompleted"
    [] t = "ACTIVITY_TASK_FAILED"         -> "ActivityFailed"
    [] t = "WORKFLOW_EXECUTION_COMPLETED" -> "WorkflowCompleted"
    [] t = "WORKFLOW_EXECUTION_FAILED"    -> "WorkflowFailed"
    [] OTHER -> "Unknown"

\* HostWorkflowAdapter::mapEventType, as far as the engine cares.
mapEventType(t) ==
  CASE t = "WORKFLOW_EXECUTION_STARTED"   -> "Started"
    [] t = "ACTIVITY_TASK_SCHEDULED"      -> "ActivityScheduled"
    [] t = "ACTIVITY_TASK_COMPLETED"      -> "ActivityCompleted"
    [] t = "ACTIVITY_TASK_FAILED"         -> "ActivityFailed"
    [] t = "WORKFLOW_EXECUTION_COMPLETED" -> "WorkflowCompleted"
    [] t = "WORKFLOW_EXECUTION_FAILED"    -> "WorkflowFailed"
    [] t = "WORKFLOW_EXECUTION_SIGNALED"  -> "Signaled"
    [] OTHER -> "Unknown"

\* The desktop copies the attributes that go with the type it has mapped.
hostEvent(e) ==
  LET t == mapEventType(e.event_type)
      value == appendPayloads(e.payloads) IN
  CASE t = "Started"           -> StartedEvent(value)
    [] t = "ActivityScheduled" -> Event(t, e.name, value, e.ref)
    [] t = "ActivityCompleted" -> ActivityEndEvent(t, value, e.ref)
    [] t = "ActivityFailed"    -> ActivityEndEvent(t, Nothing, e.ref)
    [] t = "WorkflowCompleted" -> Event(t, Nothing, value, 0)
    [] t = "Signaled"          -> SignaledEvent(e.name, value)
    [] OTHER                   -> Bare(t)

\* It takes the events of the page; next_page_token it does not read.
hostParse(response) ==
  Parsed([i \in DOMAIN response.events |-> hostEvent(response.events[i])])

\* The device copies whichever attributes came with the event.
DeviceTypes ==
  [WORKFLOW_EXECUTION_STARTED |-> "Started", ACTIVITY_TASK_SCHEDULED |-> "ActivityScheduled",
   ACTIVITY_TASK_COMPLETED |-> "ActivityCompleted", ACTIVITY_TASK_FAILED |-> "ActivityFailed",
   WORKFLOW_EXECUTION_COMPLETED |-> "WorkflowCompleted",
   WORKFLOW_EXECUTION_FAILED |-> "WorkflowFailed", WORKFLOW_EXECUTION_SIGNALED |-> "Signaled"]

mapEvent(e) ==
  IF e.event_type \notin DOMAIN DeviceTypes THEN Bare("Unknown")
  ELSE [type  |-> DeviceTypes[e.event_type],
        name  |-> IF e.event_type \in {"ACTIVITY_TASK_SCHEDULED", "WORKFLOW_EXECUTION_SIGNALED"}
                  THEN e.name ELSE Nothing,
        value |-> appendPayloads(e.payloads),
        ref   |-> e.ref]

\* (Slip: the first page is taken for the whole history.)
nanopbParsePage(response) ==
  IF Len(response.events) > DeviceEvents THEN Refused
  ELSE Parsed([i \in DOMAIN response.events |-> mapEvent(response.events[i])])

\* A history in pages, or longer than the device has room for, is refused.
nanopbParse(response) ==
  IF Len(response.events) > DeviceEvents \/ response.next_page_token THEN Refused
  ELSE Parsed([i \in DOMAIN response.events |-> mapEvent(response.events[i])])

\* The JSON export, where a payload without data reads as null.
extractPayloads(payloads) ==
  IF payloads = << >> THEN Nothing
  ELSE IF Head(payloads) = Null THEN NonNumber ELSE Head(payloads)

jsonEvent(e) ==
  LET t == mapEventType(e.event_type) IN
  IF t = "Unknown" THEN Bare(t)
  ELSE [hostEvent(e) EXCEPT !.value = IF t \in {"ActivityFailed", "WorkflowFailed"} THEN Nothing
                                      ELSE extractPayloads(e.payloads)]

loadHistoryJson(events) == Parsed([i \in DOMAIN events |-> jsonEvent(events[i])])

-----------------------------------------------------------------------------
(* The writers: what the service makes of the commands they send.          *)

hostCommand(c) ==
  CASE c.kind = "ScheduleActivity" -> [command |-> "SCHEDULE_ACTIVITY_TASK",
                                       id |-> c.seq, name |-> c.name, payloads |-> <<c.value>>]
    [] c.kind = "CompleteWorkflow" -> [command |-> "COMPLETE_WORKFLOW_EXECUTION",
                                       id |-> 0, name |-> Nothing, payloads |-> <<c.value>>]
    [] c.kind = "FailWorkflow"     -> [command |-> "FAIL_WORKFLOW_EXECUTION",
                                       id |-> 0, name |-> Nothing, payloads |-> << >>]

hostAnswer(commands) == [i \in DOMAIN commands |-> hostCommand(commands[i])]

nanopbCommand(c) ==
  [command |-> IF c.kind = "ScheduleActivity" THEN "SCHEDULE_ACTIVITY_TASK"
               ELSE IF c.kind = "CompleteWorkflow" THEN "COMPLETE_WORKFLOW_EXECUTION"
                    ELSE "FAIL_WORKFLOW_EXECUTION",
   id |-> c.seq, name |-> c.name,
   payloads |-> IF c.kind = "FailWorkflow" THEN << >> ELSE <<c.value>>]

\* More commands than fit: no request at all, never a part of them.
nanopbAnswer(commands) ==
  IF Len(commands) > DeviceCommands THEN << >>
  ELSE [i \in DOMAIN commands |-> nanopbCommand(commands[i])]

-----------------------------------------------------------------------------
(* Properties.                                                             *)

Decided(spec, parsed) == Replay(spec, parsed.events)

\* Whatever the service has recorded, the desktop and the device that both take
\* the poll response send the same answer to it, event types they do not know
\* and payloads without data included; and so does a replay of the JSON export,
\* when every payload in it has data.
TwinsAnswerAlike ==
  \A size \in PageSizes :
    LET device == nanopbParse(Response(size))
        host == hostParse(Response(size))
        json == loadHistoryJson(recorded)
        hasData == \A i \in DOMAIN recorded : recorded[i].payloads # <<Null>>
    IN  device.ok =>
          \A spec \in Specs :
            LET h == Decided(spec, host)
                d == Decided(spec, device)
            IN  /\ h.ok = d.ok
                /\ h.ok => hostAnswer(h.commands) = nanopbAnswer(d.commands)
                /\ hasData => Decided(spec, json) = h

\* The device decides on the whole history or not at all: from a part of it, the
\* replay would schedule again what is already done.
WholeHistoryOnly ==
  \A size \in PageSizes :
    LET device == nanopbParse(Response(size))
    IN  device.ok => Len(device.events) = Len(recorded)
=============================================================================
