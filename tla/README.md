# Verification of the embedded Temporal worker

An ESP32-S3 runs Temporal workers: it polls a Temporal frontend over gRPC for workflow and activity tasks, executes
activities with registered handlers, and decides workflows by replaying their history against a declarative JSON spec.
This directory holds TLA+ models of that firmware, TLC runs that check them on small instances, and TLAPS proofs.

## 1. Inventory

| component | source | state it keeps | operations | properties that make it correct |
|---|---|---|---|---|
| replay engine | `core/src/replay_engine.cpp` | none; `EngineState` in, `EngineState` out | `decide` from scratch, `decide` from a saved state, `saveState`/`loadState` | a resumed decision equals a replayed one; the command is what the history is owed |
| workflow loop | `core/src/workflow_loop.cpp` | one durable record per run, `exec/<runId>` | `tick`: poll, restore, decide, save, answer, erase | never two activities at once, saved state neither behind nor ahead of what was answered, closed runs leave nothing, runs close |
| durable store | `firmware/src/durable_store*.{h,cpp}` | NVS values and their index (RAM and flash), LittleFS files | `put`, `get`, `erase`, `keys`, `begin` | a map: one copy per key, moved across the inline threshold, readable after a power cut |
| workflow spec parser | `core/src/workflow_spec.cpp` | none | `parseWorkflowSpec` | a spec it accepts cannot make the walk skip or misbind a step |
| workflow proto adapter | `proto/gen/nanopb_workflow_adapter.cpp` | none | parse task, map events, build answers | no event the walk depends on is dropped |
| activity worker loop, registry | `core/src/worker_loop.cpp`, `activity_registry.cpp` | handler table | `tick`: poll, decode, invoke, answer | every task taken is answered at most once |
| gRPC / HTTP/2 transport | `transport/esp/*.cpp` | TLS connection, nghttp2 session, one stream | `call`, reconnect, retry, GOAWAY, shutdown | a call returns the answer of its own stream, a broken session is replaced, a respond is never sent twice |
| TLS slot arbiter | `firmware/src/tls_arbiter.cpp` | two slots | acquire, release | bounded, every acquired slot is released |
| firmware main loop, sole worker policy | `firmware/src/main.cpp`, `sole_worker_policy.h` | round robin turn, heartbeat time, error counter | `loop`, heartbeat, reconnect ladder | both loops get turns; the device registers again |
| human in the loop | `firmware/src/main.cpp` | the armed approval (RAM) | arm, press, serial line, disarm | an approval reaches the run that waits for it, once |
| client operations | `core/src/client_ops.cpp` | none | `signalWorkflow`; start and query only fail | part of the human in the loop |
| history decoding, proto adapters | `transport/example/host_workflow_adapter.h`, `proto/gen/nanopb_workflow_adapter.cpp`, `core/src/history.cpp` | none | three decoders of a history, two encoders of an answer | all lead the engine to the same answer; a part of a history is never decided on |
| payload codec | `codec/src/payload_codec.cpp` | none | wrap and unwrap a value with its context | a value is what the activities have made of it, an envelope names its run, an answer has the context it was asked in |
| REST client | `transport/src/rest_client.cpp` | none; the control plane's | whoami, register, activate, execute, status, signal, terminate, archive | a caller must cope with a request that was carried out and whose answer is lost |
| desktop worker, clients and scripts | `transport/example/*_main.cpp`, `cookbooks/*/run_local.sh` | command stream, completions, error counter; run id, budgets | worker loop, trigger, approver, cleanup | a demonstration that passes has served its runs, one that fails has a cause, and each ends and cleans up |
| retry policy, tools, generated and vendored code | see `PROJECT.json` | - | - | - |

How they interact: `main.cpp` calls `WorkflowLoop::tick` and `WorkerLoop::tick` in turn from one Arduino task. Both loops
call the transport (`ITransport::call`, blocking) and the workflow loop the store (`IDurableStore`). The engine is a pure
function called by the workflow loop. On the desktop the same loops run in `cookbook_worker` and `mwf_sole_worker` over gRPC's
own transport; a shell script starts such a worker in the background and a client program after it, and the two meet only
in the control plane. The other party of every call is the Temporal service, which is not in the
repository and is modelled from how the code uses it.

What is hard: but for one interrupt (the button) nothing runs concurrently on the device, but every tick is a chain of five effects on two places, flash and
service, that a power cut, a lost reply or a timeout can cut between any two; the service goes on in the meantime, with
signals, activity ends and redelivery; and the engine resumes from a state that was saved in the middle of that. Below it,
one connection is used for call after call: what is left of a cancelled call, of a retired connection or of a retry meets
the next call, and the only cure the firmware has for a connection that does not heal is to count errors and start over.
Above it, what the device believes about a waiting run is one name in RAM, set when an answer is heard and cleared when a
worker is rebuilt, while presses and runs come as they like. On the desktop worker, client and script are processes that
end, are killed and time out independently.
`PROJECT.json` lists the hazards line by line.

## 2. Modules

| module | models | remarks |
|---|---|---|
| `ReplayEngine` | `decideImpl`, the walk, predicates, `EngineState` | constant level: pure operators, no variables. The walk is one left-to-right pass over a document in which each step names its lexical successor and a conditional the entries of its branches; indices only grow, so the pass visits what `walkSteps`' recursion visits |
| `ReplayReference` | nothing: the declarative meaning of a spec and a history | says which command a history is owed by counting ranks along the run; it has no cursor, watermark or saved state. Its last section says what a spec should be like that the parser does not insist on |
| `TemporalRun` | one workflow execution as the service keeps it | external except for the translation of commands to events and of signals |
| `WorkflowLoop` | `WorkflowLoop::runOnce`, composed with `TemporalRun` | one action per effect; faults are actions that spend a budget |
| `OwedRun` | nothing: what a run may look like from outside | the abstract run that `WorkflowLoop` implements |
| `MCWorkflowLoop` | specs, signals and firmware images for TLC | says which of its specs meet the proofs' hypotheses |
| `ReplayEngineProofs`, `ReferenceProofs`, `WorkflowLoopProofs` | | theorems, each module on top of the one before |
| `DurableStore` | `DurableStoreLogic` over `NvsKvStore` and `LittleFsFileStore` | one action per flash write |
| `KeyValueStore` | `IDurableStore` | the abstract map that `DurableStore` refines |
| `DurableStoreProofs` | | theorems |
| `H2Transport` | `H2Transport::call`, `GrpcH2Session`, `EspTransport`, the arbiter's slots, and the far end of the connection | no `Next` of its own: who calls, and what the service does with a request, is its user's |
| `SoleWorker` | `loop()` with `WorkerLoop::runOnce`, composed with `H2Transport` and the service's activity task queue | the workflow poll is a call that finds nothing; `WorkflowLoop` models what it does with a task |
| `ActivityQueue` | nothing: the queue of activity tasks and what it may see of a worker | the abstract queue that `SoleWorker` implements: a delivery answered once at most, none of a task the worker cannot read, a report only of what has ended |
| `SoleWorkerProofs` | | theorems |
| `HumanInTheLoop` | the approval part of `main.cpp` (cookbook 4): interrupt, debounce, console line, `sendApproveSignal`, arming, in `loop()` with its error ladder; several runs, other approvers | a workflow tick is poll, decision and answer, an activity tick one step: `WorkflowLoop` and `SoleWorker` have their insides |
| `HumanInTheLoopProofs` | | theorems |
| `ControlPlane` | `RestClient` and the deployment and runs behind it | each operation one step with a result; no `Next` of its own |
| `Cookbook` | `cookbook_worker`, `mwf_sole_worker`, their clients and `run_local.sh`, over `ControlPlane` | two processes; ticks as in `HumanInTheLoop`, plus the activities that call the model. A `Demonstration` is what distinguishes one script from another: program, spec, clients, whether a client that fails ends it (`errexit`; in cookbook 3 by `set -e`), and which streams it judges |
| `MCCookbook` | the demonstrations | |
| `CookbookProofs` | | theorems |
| `HistoryDecoding` | three decoders, two encoders, over histories the service can record; `ReplayEngine` decides | refinement in the small: one answer whoever decodes |
| `PayloadCodec` | `PayloadCodecV1`, what `WorkflowLoop` wraps and unwraps, what `WorkerLoop` makes of a task, `jsonQuote`/`jsonUnquote`, the room the device's messages have | a value's journey from activity to activity. A run of this system sends its own small context and reads results without theirs; other workflows on the queue, which are external, send any context, or none |
| `DeviceClock` | `heartbeatDue` over a clock of any width | |
| `Conversions` | `HistoryDecoding`, `PayloadCodec` and `DeviceClock` side by side | a behaviour is about one of them |
| `ConversionsProofs` | | theorems |

Correspondence of state. `history`, `buffered` and `wft` are the service's; `store` is the value under `exec/<runId>`
(an `EngineState`, absent, or bytes `loadState` refuses); `phase`, `task` and `decision` are `runOnce`'s program counter
and locals, all lost in a power cut; `spec` is what the firmware's spec provider returns. In `DurableStore`, `nvs`,
`savedIndex` and `file` are flash, `index` is RAM, `op` is the operation under way and `latest` a history variable that
only `ReadsLatest` reads.

In `H2Transport`, `session` is `session_` and its `alive_`, `connected` is `connected_`, `holding` is `holding_slot_`,
`slots` the arbiter's count, and `call` the locals of the two nested `call`s: the request, where it is, whether it started
on a standing connection (`reused`), whether it has been repeated (`again`), and its result. `conn` is `client_` as the far
end sees it, `inbox` what it has sent and the device has not read, `received` the requests the service has. A frame or a
request belongs to the `current` call, to an `earlier` one of the same connection, or is `lost` with its connection. In
`SoleWorker`, `phase` is where `loop()` is, `rest` whether a REST request holds a slot, `turn` and `errors` are
`RoundRobin` and `transportErrors`; `queue`, `attempt` and `served` are the service's, and `served` and `reported` exist
only for properties.

In `HumanInTheLoop`, `armed`, `signaled`, `pressed` are the globals of those names, `recent` says that the last press served
is less than 50 ms old, `phase` is where `loop()` stands, `task` the task in hand; `status` to `approvals` are the
service's, per run. `fired`, `unsure`, `forgotten` and `age` exist only for properties.

In `Cookbook`, `worker` is the background process (`pc`, the locals of `runWorker`, what it printed), `client` the script with
the client program it is running, and `late` says whose time budget is spent. A `kill` before the worker has installed its
handler ends it, after that it finishes its round. `missed` and `spared` exist only for properties. In `ControlPlane` an
exchange is lost, answered by a 5xx, or carried out and its answer lost; the client sees no difference between first and last.

Abstractions, all of data: JSON values are small integers, `NonNumber` (anything an ordering refuses; JSON null too) and
`BadJson`; a JSON pointer is the binding it selects; the spec hash is the spec; event ids are positions, and events the
walk steps over are left out. A signal is sent at most once by its client. A task that fails to decode and one whose
reply is lost look the same to the service, and are one action (`PollReplyLost`). The loop has
one record, so `DurableStore` is folded into where that record lives (`home`): in NVS, in a file, or as an orphan of NVS that
hides what is saved later and that no erase finds, which a power cut between value and index leaves (`HalfSaved`), or a
reboot after `saveIndex` failed unnoticed (`PersistUnlisted`, `Rebooted`). A record of at most `InlineResults` results is
one of at most `kInlineThreshold` bytes, so that it crosses the threshold in the course of a run.

In the transport an answer is one frame, and arrives whole; the stray requests of cancelled polls are a set, so two of the
same kind are one. A response larger than `kMaxRespBytes` ends the call as a GOAWAY read beside it does and is not modelled
apart. Time is only the ladder's delays against the watchdog: a deadline is a fault that may happen in any call, a TLS
connect that blocks past the watchdog (it may take 15 s) is a `PowerCut`, and the heartbeat may be due in any round of the
loop.

An activity of a cookbook is its name: its prompt is present and its reply readable. A text is a sequence of character
classes, of which quote, backslash and newline are escaped; a payload without data is `Null`.

In `PayloadCodec`, `letter` is one activity task: `payload` is its input or its answer, `run` the context its workflow
wraps values in, `stage` how far the worker is with it. `value` (what the run's value should be by now) and `asked` (the
metadata of the input) exist only for the property. A value is null or a text inside so many objects of `device.echo`; its size is
that of the text and of what each echo adds. A task the device cannot read (`Unread`) and one whose answer has no room
(`AnswersNothing`) get no answer, and the service hands them out again (`TimesOut`).

## 3. Runs

| run | asks | bounds |
|---|---|---|
| `loop_activities` | do resumed and replayed decisions agree, are they what is owed, is the saved state between what was answered and what will be, is nothing left of a closed run, is the recorded run one a worker without state could have made (`OwedRun`) | a straight line and a branch of two activities, results 0 and 1, a record that outgrows NVS with the first result, four faults |
| `loop_signals` | which signal does each wait take, and does the run close | three specs, three signals in any order and at any moment, two faults |
| `loop_hostile` | is one activity open at a time with bad payloads, failures, activity timeouts and reflashes | two specs, no or some input, one stray signal, two faults |
| `loop_failed` | a statement of the repository the code does not keep; see section 6 | one spec, no fault |
| `store_no_faults` | is the store a map | two keys, two values of either size |
| `store_faults` | what survives power cuts and failed writes | the same, three faults |
| `worker_calls` | do slots leak, is a delivery answered twice, is what the device reports true, is the whole a step by step account of a queue served by the book (`ActivityQueue`), does every task it can read end | two tasks, of which one fails and one does not parse, four deliveries of each, two slots, three faults |
| `worker_preface`, `worker_watchdog` | each one statement of the repository the code does not keep; see section 6 | one task, one fault |
| `hitl` | is a run approved once, not before its wait, by a press that is fresh, and is every paused run the device knows of approved | two runs, two errors in a row drop the worker, two faults, one approval of each run by others |
| `cookbook` | what does a pass, a failure, a printed stream and the end of a demonstration mean | six demonstrations, up to three runs, two disturbed exchanges, two errors end a worker, two calls of the model per activity, steps nested twice |
| `conversions` | do the decoders agree, does an envelope keep its value, its run and its context, does the heartbeat keep its pace | histories of six events in pages of four or six, room for five on the device; texts of up to two characters, every set of context fields, room for eight metadata keys and eight characters, three echoes of three characters; 32 clock values, an interval of 10, passes of up to 6 |

Why the bounds are enough. A fault budget of two to four lets a fault hit the recovery from a fault, and the recovery
from that; every loop of the code (a tick) is short against it. Two activities are what the pending record and the number
of the next activity need to be wrong about each other; two waits for one signal name and three signals are what the claim
counters need. One run is enough because `exec/<runId>` separates runs and the loop keeps nothing else between ticks.
Two tasks are what a late answer to one needs to meet the delivery of the other, and four
deliveries leave one that three faults do not spoil; two slots are the board's (`kSlots`). Two keys show that an operation leaves other keys alone, two values of a size that a stale copy is told from a fresh one.

Two runs are what one armed slot needs to be taken over; a second fault lets a
reboot or a rebuilt worker meet a lost reply. The ladder is cut from five errors to two, so that two faults climb it. Three
runs are cookbook 3's. Six events hold two activities, a signal and the end of a run; a page of four cuts them in the middle
and five exceed the device's room. Eight keys are the device's own number, which an envelope with four optional fields
and no mark just fills and one with five exceeds, so that the device cannot read it; eight characters are too few for three echoes, and for two of the longer
texts, so that a value outgrows the device in an answer as well as in a task. The clock wraps several times in any behaviour. Beyond these bounds section 4 proves
every safety property, under the hypotheses it names.

`Settled` in `WorkflowLoop` is the state in which nothing is left to happen; every other deadlock is an error.

Fairness of `loop_signals`. `WF_phase(MovesOn)` says that the tick goes on: `loop()` calls it for ever and each step
of `Tick` changes `phase`; one of them is enabled whenever `Runnable` holds. It is weak fairness of `Tick` in a form that
does not make TLC run the walk to test enabledness. The other conditions are the service's: it times out a task nobody
answers, open activities come to an end, clients send the signals they owe. Faults are never forced, and end when their
budget is spent: the code promises nothing to a device whose power fails in every tick.

Fairness of `worker_calls`. `WF_vars(Tick)` and `WF_vars(Calling)` say that the one task of the device goes on: `loop()` is
called for ever and a call takes its next step when it has one. The rest is the service's: it answers each kind of request
it has received, times out a delivery nobody works on, and closes a connection it refuses. That a request is answered with
`UNAVAILABLE`, that a connection breaks or a deadline passes is never forced. Under these the reboot by the watchdog is
part of what makes every task end: after `worker_preface` nothing else replaces the connection.

Fairness of `hitl`. `WF_vars(Loop)`: `loop()` is called for ever; `WF_vars(DebounceEnds)`: 50 ms pass;
`WF_vars(onBootButtonIsr)`: somebody at the board keeps pressing, which is the premise of the promise;
`WF_vars(TaskTimesOut)` is the service's. Fairness of `cookbook`: worker and script keep running, and time passes
(`WF_vars(Expire(who))`); nothing is asked of the service, since each loop of worker and client has a budget of its own, and
so `ScriptEnds` holds even if nothing is ever answered. Deadlock is off in `cookbook` (the script ends) and in
`conversions` (a closed run records no more, a failed task and the answer to another workflow go no further), and checked in `hitl`.

## 4. Proofs

`DurableStoreProofs` proves, for any sets of keys and values and any number of faults:

- `TypeCorrect`: `Spec => []TypeOK`. Not only bookkeeping: it says that a small value never reaches a file and a large
  one never NVS, which needs the route of an operation (`OpRouted`) to be part of the invariant.
- `IndexedCopyAlwaysSingle`: `Spec => []IndexedCopyIsSingle`. By itself the property is not inductive: adding a key to
  the index needs the file to be gone (`OpPrepared`), and a reboot that brings back an old index needs the values of keys
  that only flash lists to be gone (`StaleEntriesEmpty`). `StoreInv` is the conjunction of the five.
- `SingleSourceHolds` and `StoreImplementsMap`, both under `MaxFaults = 0 \/ Small = {}`: the invariant is strengthened by
  `NoOrphan` (NVS holds no value the index does not list), which is what a power cut between value and index breaks. For the
  refinement a step maps to `Put`, `Erase`, `Disturb` or a stutter of `KeyValueStore`, and the key under way keeps
  reading as before its operation (`BeforeKept`) until the operation ends.
- `AlwaysReadsLatest`: `Spec => []ReadsLatest`, with faults. `LatestKept` says the same of every key no operation is under
  way on. The delicate steps are a reboot, which must not make a hidden orphan visible (`StaleEntriesEmpty` again), and the
  last write of an operation, which counts because `OpPrepared` has put the other copy away.
- `ListingAgrees`: `Spec => []ListsWhatItHolds`, under the same condition as `SingleSourceHolds`, from `NoOrphan` and its
  converse `EntriesHold`: an entry has its value but between the two writes that remove both.

`SoleWorkerProofs` proves, for any tasks, deliveries, faults, slots and watchdog timeout, and without any fairness:

- `WorkerTypeCorrect`: `Spec => []TypeOK`, and `SlotsAlwaysAccounted`: `Spec => []SlotsAccounted`. Both from `TypeInv`.
  Type and slots need each other (a release must not go above the arbiter's count, a type fact), and both need `LoopInv`: a
  call is under way exactly in the three phases of a tick and a REST request holds its slot exactly while it runs, so that
  `DropWorker`, which closes the transport, cannot meet a REST request that holds one.
- `DeliveriesAnsweredOnce`: `Spec => []NoDuplicateAnswer`, and `ReportsAreTrue`: `Spec => []ReportedMeansEnded`, from
  `AnswerInv`, which is inductive relative to `TypeInv`. That an attempt has one answer (`OneAnswer`) is not inductive by
  itself: the device must not have its token, or an unsent answer, in hand once an answer is out (`HeldUnanswered`), which
  needs that frames and requests marked `current` are those of the call under way (`CurrentInv`), that only polls go round
  again and polls carry no token (`RequestToken`), and that a token names an attempt that was made (`TokensMade`), so that a
  new delivery has a token nothing else has. `ReportInv` follows an `ok` from the service's books to the report.
- `WorkerImplementsQueue`: `Spec => ImplementsQueue`, the refinement of `ActivityQueue`. Deliveries and timeouts are the
  queue's own; an answer that arrives is `End` or `Refuse` according to whether its attempt is still out, and changes nothing
  if the task has been handed out again; a tick that ends well is a `Report`; calls, connections and reboots are stutters.
  It needs `QueueInv` beside the two invariants above: what is out has no answer and what has ended has one (`BooksInv`), and
  only tasks whose poll response parsed are on their way back (`ReadInv`).

`HumanInTheLoopProofs` proves, for any runs, faults and approvals of others, and without any fairness:

- `HumanTypeCorrect`: `Spec => []TypeOK`, among it the bound of the error count.
- `ApprovedOnce`: `Spec => []NoDoubleFire`. `Once` is the strengthening: a run
  approved from here without a lost reply has its approval in the history, is not armed, and no Waiting answer for it is in
  hand. It is kept because presses are served between ticks only and a decision is made from the history as it is at the
  poll, so that not even a worker rebuilt without `signaled` arms such a run again.
- `ApprovedAtTheWait`: `Spec => []ApprovesOnlyThePaused`, by `Reached`: a run that is armed, or about to be, has done its
  first activity.
- `PressesStayFresh`: `Spec => []PressIsFresh`, by `Fresh`: how old a press can be at each place of `loop()`.

The replay engine and the workflow loop take three modules, one on top of the other. The walk, the list of a history's
events of a kind and the reference's run are recursive functions over `0..n`; a proof takes one value of theirs apart
at a time and makes an induction of the least counterexample (`LeastNatural`, `UpwardInduction`), which needs no induction
theorem with an operator parameter.

- `ReplayEngineProofs`: what one step of the walk may make of its context (`StepMakes`, one disjunct per kind of step and
  outcome), that a step reads a longer history as it read the shorter (`StepExtends`), and what a decision may contain.
- `ReferenceProofs`, first part: a walk that resumes from what the walk of a prefix left, and a walk of the whole history from
  nothing. The second passes the steps the first had bound with the same bindings, and from there the two take the same
  steps, one cursor shifted against the other by the records already claimed (`Shift`); the record that was in flight is
  found again by the one and restored by the other.
- `ReferenceProofs`, second part: `ReplayIsOwed`, for every accepted spec and every history a run can have: what the walk
  decides is what `ReplayReference` says the history is owed. The steps the walk takes are a run of the reference, for which
  there is no other (`RunIsUnique`), and along them the walk's cursor, claims and bindings are the reference's ranks
  (`Tracks`).
- `WorkflowLoopProofs`: every safety property of `WorkflowLoop` and the refinement, for any specs, signals, values, faults and
  length of history:
  - `LoopTypesHold`: `Spec => []TypeOK`, from `TypeInv`: history open but for its last event, a live task within what was
    delivered, a saved watermark within the history. `StateNeverRegresses` is an action property from the same invariant,
    `ClosedRunIsErased` adds what the record may be once the terminal answer has landed (`CleanInv`). These three have no
    hypotheses.
  - `ResumingIsReplaying`, `ActivitiesTakeTurns`, `SavingComesFirst`, from `ResumeInv`, inductive relative to `TypeInv`:
    the history is one the spec can have made (`RunInv`), what is saved or decided is what a replay of a part of the history
    gives (`DeviceInv`), and behind the saved part at most one activity has been scheduled, none while the device has not
    answered (`AheadInv`). None of the three is inductive alone: that no activity is scheduled twice follows from the
    decision being a replay's, which follows from the state being a replay's, which a resumed decision is only over a history
    the spec has made. An orphan of the store may be any number of activities behind, and is a replay's state all the same.
  - `DecisionsAreOwed` adds `ReplayIsOwed` to these, and `LoopImplementsOwedRun` maps every step of loop and service to a
    step of `OwedRun` or a stutter: an answer that lands to `OwedRun`'s decision, the rest of the service to the environment
    of a worker without state, and the device's own steps to nothing. The operators of the two instances are shown to be
    the same first (`OwedInOrder` and its like). `SignalsStayInOrder` counts the waits bound by id along the run.

The hypotheses of these six are each a limit of the code, not of the proof. `Steady`: the firmware is not reflashed with another
spec (`Reflashed = {}`; a record the new spec does not claim would be anyone's), no activity fails for good (section 6,
`loop_failed`; a timed-out activity is none of that), and a predicate asks for no key a later step binds (`WellScoped`;
section 6, first divergence without a run). `Named`: no alias of a signal is the id of a later step (`WellNamed`; the second
one). `LoopImplementsOwedRun` also wants a firmware that has a spec, since one without answers with a failure, and
`SignalsStayInOrder` that no two paths share the id of a wait (`SoleIds`), since then which of them a binding belongs to cannot
be told from the record. `loop_activities` and `loop_signals` check the same properties on specs that satisfy all of them, which
TLC evaluates (`SpecsAreMeant`); `loop_hostile` checks `OneActivityAtATime` beyond them.

`ConversionsProofs` proves, of the whole specification `Conversions!Spec`:

- `HeartbeatAlwaysKeepsPace`: `Spec => []HeartbeatKeepsPace`, for any width of the clock that is larger than an interval and
  a pass. The invariant ties the silence measured by a clock that does not wrap to the difference of the two readings of the
  one that does.
- `EnvelopesKeepTheirRuns`: `Spec => []EnvelopeKeepsItsRun`, for texts of any length, any senders, any room of the device
  and any number of activities and redeliveries. `TextsComeBack` is the inverse law of
  `jsonQuote` and `jsonUnquote`, by induction over the position in the JSON at which the quoting of each character begins.
  `HeaderHolds` and `ContextIsRead` say what metadata a context leaves and what is read back from it, down to the two
  fields that are not copied as they are (`__internal_extensions` when empty, `on_behalf_of`), and `SameHeader` that
  wrapping what was read gives the same metadata. The strengthening `LetterInv` is one statement for each form a task can
  have: in an envelope, plain, without input, or in an encoding the codec refuses, which no worker answers.
  `HandlerHandles` ties what a handler makes of the JSON to what it should make of the value.
- `WholeHistoriesOnly`: `Spec => []WholeHistoryOnly`, for histories and pages of any length.
- `TwinsAgree`: `Spec => []TwinsAnswerAlike`. The readers agree event by event because of how the service records
  them (`RecordedInv`: attributes and payloads only where they belong), and the writers because a walk, of an open history
  or of a closed one, leaves at most one command, of a kind both write the same (`WalkSends`).

`CookbookProofs` proves, for any specs, inputs, clients, budgets of errors and disturbed exchanges:

- `CookbookTypesHold`: `Spec => []TypeOK`, from `Types`, which also says that a task in hand, a run watched or a run to be
  terminated is one the service has.
- `StreamsAreHistories`: `Spec => []StreamsMapToRuns`, and `PassingMeansServed`: `Spec => []PassMeansServed`. Clients take
  turns, so that at most the last run is not closed well while none has failed (`OneRunEach`, `InTurn`, `AllServed`). With at
  most one run open, what the worker has in its unfinished stream is what it answered to that run, and its completions are
  the closed ones (`Counted`, `Printed`), unless the reply to one of its answers was lost (`missed`) or the script went on
  past a client that failed. None of these is inductive alone: a second open run would mix two streams in one, and that
  there is none depends on what clients saw, which depends on what the worker completed. `Seen` is the link
  between the two: a terminal status a client has read is the run's own, and stays so.
- `SignalsAreDeclared`: `Spec => []SignalIsDeclared`, from `Declared` and `PathIsCollected`: what stands on the path of a run,
  at whatever depth up to `MaxNesting`, is among the steps `collectSignals` visits. Its induction is on the depth.
- `NamedRunsEndClosed`: `Spec => []NamedRunIsClosed`, from `NamedCloses`: closed runs stay closed, and the cleanup skips
  `terminate` only for a run it has read as closed.

- `FailuresHaveCauses`: `Spec => []FailureHasACause`. A demonstration is `Calm` while it is over TLS, no exchange was disturbed and no budget of
  time has run out; `CalmInv` says what is then true of worker, client and runs (`Undisturbed`), and is inductive
  relative to the invariant of the theorems above. TLC checked it as an invariant of `cookbook` before it was proved. A run
  follows the path of its input (`RunFine`): what is done, the answers given and what the inbox holds agree with its
  position, the approval is there once the wait is passed and nothing is lost. What the worker polled differs from the
  run at most by an approval that came since (`Follows`), so an answer is refused only if that approval is the news it
  missed, and a closing answer never is, since it stands behind the wait. A client then reads `COMPLETED` or
  reads on, and a script whose clients succeeded judges streams that are those of its runs. Whether a budget of time
  runs out is the environment's choice in this model, so the theorem names it as a cause.

A step of the whole system is one of a few kinds (`StepKinds`): one that leaves runs and account alone but for their insides
(`Quiet`), an answer of a workflow tick (`WorkerAnswers`), a run started (`Launched`), a client that returns (`TurnedOver`).
Each part of the invariant is carried through kinds, not through the thirty-odd actions.

Assumptions: `ValuesAssumption`, `SpecsAssumption`, `FatesAssumption` and `FaultsAssumption` (the special values are no
values, a spec is a sequence, fates and faults are what their names say), `CodecAssumption` and `DecodingAssumption` (texts
are sequences of characters, a payload on the device has room for the five metadata keys of a run's own envelope, pages are
positive, a spec is a sequence), `HumanAssumption` and `ClockAssumption`
(bounds are naturals, the null id is no run, the clock is wide enough), `ControlPlaneAssumption`, `CookbookAssumption` and
`ScriptsAssumption` (steps nest steps; a script asks its worker for a completion per client, a run meets only activities and
waits, an approver's run waits for the signal it sends, the streams judged can be foreseen), `StoreAssumption` (sizes are disjoint, the marker
values are none of the values) and `WorkerAssumption` (the bounds are naturals, the failing and unreadable tasks are tasks,
the null values are no token and no request), which TLC evaluates in every run of these modules. The proofs use SMT and
Zenon, and LS4 for the temporal steps.

Only model-checked: the liveness properties (`TasksEnd`, `RunCloses`, `PausedRunIsApproved`, `ScriptEnds`), since liveness
under fairness is out of reach of the installed provers. Every other property that a passing run checks is the subject of a
theorem.

## 5. Not modelled

- Components of section 1 without a module (see `PROJECT.json`, which gives the reason for each).
- In the store: a `remove` that fails, two keys whose 48-bit NVS names collide, empty values (NVS refuses them).
- In the loop: a run id in the task that differs from the one in the started event, paged histories (refused by the
  adapter), more than one run at a time, so that no `saveIndex` for another run lists an unlisted record.
- In the transport: framing, flow control, header compression, the size limit of a response, and TLS itself.
- In the main loop: when whoami is tried again (`millis()` and its wrap), the provisioning console, what the REST requests
  and their responses contain. In the transport, its 64-bit time made of a 32-bit clock.
- In the human in the loop: the content of the signal, `g_wfNs`, a line on the console cut into several reads.
- In the cookbooks: the content of prompts, replies and results (`--expect`, the comparison of results in cookbook 3), the
  probes, `mwf_worker` but for its text activities, `registerWorker`, `heartbeat` and `listExecutions` of `RestClient`.
- In the conversions: timers, JSON syntax, wire encoding, characters the escapes leave alone, the words the text handlers add
  (`shout`'s capitals, `greet`'s greeting), the caps on single metadata keys and values, and the caps of workflow answers.
- `nextBackoffMs` and `shouldRetry` (`core/src/retry.cpp`): nothing but their unit test calls them.
- Predicates over integers wider than 64 bits or over strings.

## 6. What the code does not keep

Checked by a run that must find it:

- `loop_failed`: after an activity failed and the FailWorkflow answer did not land, the resumed engine knows nothing of
  the failure and schedules the activity again. No fault is needed: a signal buffered at that moment makes the service
  refuse the answer.
- `worker_preface`: `ensureSession` opens the new stream and then lets `begin()` shut the old session down, whose GOAWAY
  goes out on the new connection ahead of its preface. Compiled against the vendored nghttp2, the bytes of a reconnect start
  with the 17 bytes of that GOAWAY. The service drops such a connection, and since the old session stays, so does the next
  attempt: only a dropped worker or a reboot heals it.
- `worker_watchdog`: the ladder's fourth delay, 8000 ms, equals the watchdog's timeout. Together with `worker_preface` one
  GOAWAY is enough to get there, so in place of the ladder's last rung the board reboots.

Without a run of its own, but a matter of changing a configuration:

- A predicate on a step that is bound later changes its value once the engine resumes, although `replay_engine.h:31-32`
  promises that a resumed state emits the same commands. `MCLoopActivities.cfg` with `Specs <- ForwardSpecs` and
  `INVARIANT ResumeMatchesReplay` shows it.
- `bind_to` may be the id of a later activity; the activity is then skipped, although the comment at
  `workflow_spec.cpp:168-171` sets out to exclude a "silent misbind". `MCLoopSignals.cfg` with `Specs <- AliasSpecs`,
  `Signals <- OneApproval` and `INVARIANT DecisionIsOwed` shows it.
- A power cut between value and index of an NVS put leaves a value that shadows the key's later file, although
  `durable_store_logic.h:11-13` says that a value moves rather than leaving a stale duplicate. `StoreFaults.cfg` with
  `INVARIANT SingleSource` shows it.

- `nanopb_worker_adapter.h:36-37` says of an answer over the device's caps that the "caller sees an encode failure and fails
  the task cleanly". `WorkerLoop::runOnce` (`worker_loop.cpp:132-137`) does not look: it sends the empty request, counts the
  refusal as a transport error on its ladder, and the task comes back until the service gives it up. `device.echo` gets there
  by putting a long argument into an object. In `PayloadCodec` it is
  `AnswersNothing`, which `conversions` takes; an invariant that excludes the stage `unanswered` fails at once.

What `loop_activities` adds to that orphan: a device that resumes from a record older than the last one it saved decides
all the same what a replay decides, since every event past the old watermark is delivered again. Only the part of
`SavedStateCoversHistory` that bounds how far the service is ahead does not hold of an orphan.

Properties say where they stop, since the repository promises nothing else there:

- a lost reply or a power cut around the terminal answer leaves the record of the run on flash for good;
- a lost reply to an approval makes the next press approve a second time (`unsure`);
- a paused run that another was armed over, whose Waiting answer was not heard, or whose worker was rebuilt, is not armed
  again: it gets no further task (`forgotten`). The comment at `main.cpp:595-596` counts on a re-poll while it waits;
- a lost reply to a worker's answer leaves its printed stream one command short (`missed`), and so may a script that goes on
  to the next client although one failed (cookbook 2; `Orderly`), since the run of the failed one may still be open;
- the desktop adapter takes the first page of a history for the whole; only the device looks at `next_page_token`.

## 7. What is left

1. The whoami deadline and the transport's deadlines across the wrap of `millis()`, on top of `DeviceClock`.
2. `Predicate` (comparison at 64 bits) as pure operators against a reference definition.
