---------------------------- MODULE ReplayEngine ----------------------------
(***************************************************************************)
(* The deterministic spec-vs-history walk of core/src/replay_engine.cpp.   *)
(*                                                                         *)
(* The module is constant-level: Decide is the pure function decideImpl,   *)
(* and WorkflowLoop drives it.  A workflow spec is a sequence of steps in  *)
(* document order.  The nesting of the JSON grammar is kept as control     *)
(* flow: every step names its lexical successor `next` (Len + 1 when the   *)
(* document ends), and a conditional names the entry of either branch, so  *)
(* that walkSteps' recursion is a walk over strictly increasing indices.   *)
(* A `sequence` step only groups and leaves no trace.  JSON values are     *)
(* members of small sets; a JSON pointer is the bindings key it selects.   *)
(***************************************************************************)
EXTENDS Integers, Sequences, SequencesExt

CONSTANTS
  Input,        \* the bindings key "/input"
  Nothing,      \* an absent key, payload or signal name
  BadJson,      \* a payload whose bytes are not JSON
  NonNumber     \* a JSON value no ordering predicate compares

ASSUME ValuesAssumption == NonNumber # Nothing

-----------------------------------------------------------------------------
(* Workflow specs.                                                         *)

\* A source of a value: a JSON pointer, or a literal.
From(key)    == [key |-> key, literal |-> Nothing]
Literal(val) == [key |-> Nothing, literal |-> val]

Activity(id, name, arg, next) ==
  [kind |-> "activity", id |-> id, name |-> name, arg |-> arg, next |-> next]
WaitSignal(id, signal, bindTo, next) ==
  [kind |-> "wait_signal", id |-> id, name |-> signal, bindTo |-> bindTo,
   next |-> next]
Conditional(path, op, val, then, else, next) ==
  [kind |-> "conditional", path |-> path, op |-> op, value |-> val,
   then |-> then, else |-> else, next |-> next]
Complete(result, next) ==
  [kind |-> "complete", result |-> result, next |-> next]

IsBinding(step) == step.kind \in {"activity", "wait_signal"}

\* The steps checkPathIds visits after step i with i's ids still in `seen`: it
\* follows document order, through both branches, and over a complete step.
LexicalSuccessors(spec, i) ==
  IF spec[i].kind = "conditional" THEN {spec[i].then, spec[i].else}
                                  ELSE {spec[i].next}

Follows(spec, i, j) ==
  LET reach[k \in 0..Len(spec)] ==
        IF k = 0 THEN LexicalSuccessors(spec, i)
        ELSE IF k \in reach[k - 1] THEN reach[k - 1] \cup LexicalSuccessors(spec, k)
        ELSE reach[k - 1]
  IN  j \in reach[Len(spec)]

\* checkPathIds: no binding id twice on one path.  bind_to is not looked at.
PathIdsUnique(spec) ==
  \A i, j \in 1..Len(spec) :
    /\ IsBinding(spec[i]) /\ IsBinding(spec[j])
    /\ spec[i].id = spec[j].id
    => ~ Follows(spec, i, j)

\* What parseWorkflowSpec accepts.
Accepted(spec) == spec # << >> /\ PathIdsUnique(spec)

-----------------------------------------------------------------------------
(* Histories.  The event id of an event is its index; bookkeeping events   *)
(* the walk ignores are left out.  `ref` is the activity_id of an          *)
(* ActivityScheduled event and the scheduled_event_id of a closing one.    *)

Event(type, name, value, ref) ==
  [type |-> type, name |-> name, value |-> value, ref |-> ref]

StartedEvent(input)         == Event("Started", Nothing, input, 0)
ScheduledEvent(c)           == Event("ActivityScheduled", c.name, c.value, c.seq)
ActivityEndEvent(t, val, s) == Event(t, Nothing, val, s)
SignaledEvent(name, val)    == Event("Signaled", name, val, 0)

\* An activity that runs out of its timeouts closes with an event type that
\* mapEventType turns into Unknown: the walk steps over it.
ActivityEnds == {"ActivityCompleted", "ActivityFailed"}
TerminalEvents == {"WorkflowCompleted", "WorkflowFailed"}

-----------------------------------------------------------------------------
(* EngineState.                                                            *)

NoPending == [sched |-> 0, name |-> Nothing]
EmptyMap  == << >>

FreshState(spec) ==
  [spec |-> spec, watermark |-> 0, nextSeq |-> 1, input |-> Nothing,
   results |-> EmptyMap, consumed |-> EmptyMap, pending |-> NoPending]

\* operator[] of a std::map: reading a counter, and writing an entry.
Count(map, key)    == IF key \in DOMAIN map THEN map[key] ELSE 0
Put(map, key, val) ==
  [k \in DOMAIN map \cup {key} |-> IF k = key THEN val ELSE map[k]]

-----------------------------------------------------------------------------
(* Reading the history.                                                    *)

\* Ids of the events decideImpl considers: those past the watermark.
Suffix(history, st) == (st.watermark + 1)..Len(history)

InSuffix(history, st, types) ==
  {e \in Suffix(history, st) : history[e].type \in types}

\* The events of a set of ids among the first n, in history order: the loop over
\* the events, which a proof can unfold one event at a time.
InOrder(S, n) ==
  LET ids[k \in 0..n] == IF k = 0 THEN << >>
                         ELSE IF k \in S THEN Append(ids[k - 1], k) ELSE ids[k - 1]
  IN  ids[n]

\* The signals of one name, from the FULL history, in order.
SignalIds(history, name) ==
  {e \in 1..Len(history) : history[e].type = "Signaled" /\ history[e].name = name}
SignalsNamed(history, name) == InOrder(SignalIds(history, name), Len(history))

\* The first payload of an event; none at all is JSON null.
Payload(val) == IF val = Nothing THEN NonNumber ELSE val

\* One activity record: status and payload from the last closing event of the
\* suffix that refers to it.
ActRecord(history, st, sched, name, counted) ==
  LET ends == {e \in InSuffix(history, st, ActivityEnds) : history[e].ref = sched}
      last == history[Max(ends)]
  IN  [sched |-> sched, name |-> name, counted |-> counted,
       status |-> IF ends = {} THEN "InFlight" ELSE last.type,
       value  |-> IF ends = {} THEN Nothing ELSE Payload(last.value)]

\* The activities of the suffix, in scheduling order.
FreshRecords(history, st) ==
  LET fresh == InOrder(InSuffix(history, st, {"ActivityScheduled"}), Len(history))
  IN  [k \in 1..Len(fresh) |->
         ActRecord(history, st, fresh[k], history[fresh[k]].name, FALSE)]

\* (Slip: the activity in flight at the last save is forgotten.)
ActRecordsUnrestored(history, st) == FreshRecords(history, st)

\* The restored pending record first, then the suffix.
ActRecords(history, st) ==
  (IF st.pending = NoPending THEN << >>
   ELSE <<ActRecord(history, st, st.pending.sched, st.pending.name, TRUE)>>)
  \o FreshRecords(history, st)

\* A closing event whose ActivityScheduled is neither pending nor in the suffix.
DanglingEnd(history, st) ==
  \E e \in InSuffix(history, st, ActivityEnds) :
    history[e].ref \notin
      InSuffix(history, st, {"ActivityScheduled"}) \cup {st.pending.sched}

InputOf(history, st) ==
  LET starts == InSuffix(history, st, {"Started"})
  IN  IF \E e \in starts : history[e].value # Nothing
      THEN history[Max(starts)].value ELSE st.input

HistoryFinished(history, st) == InSuffix(history, st, TerminalEvents) # {}

-----------------------------------------------------------------------------
(* Bindings and predicates.                                                *)

Resolves(bind, key) == IF key = Input THEN bind.input # Nothing
                                      ELSE key \in DOMAIN bind.results
Lookup(bind, key)   == IF key = Input THEN bind.input ELSE bind.results[key]

HasValue(bind, src) == src.key = Nothing \/ Resolves(bind, src.key)
ValueOf(bind, src)  == IF src.key = Nothing THEN src.literal
                                            ELSE Lookup(bind, src.key)

Orderings == {"lt", "le", "gt", "ge"}

\* evalPredicate fails on an unresolved path, or on an ordering of non-numbers.
PredicateFails(step, bind) ==
  /\ step.op # "exists"
  /\ \/ ~ Resolves(bind, step.path)
     \/ /\ step.op \in Orderings
        /\ NonNumber \in {Lookup(bind, step.path), step.value}

PredicateHolds(step, bind) ==
  CASE step.op = "exists" -> Resolves(bind, step.path)
    [] step.op = "eq" -> Lookup(bind, step.path) = step.value
    [] step.op = "ne" -> Lookup(bind, step.path) # step.value
    [] step.op = "lt" -> Lookup(bind, step.path) < step.value
    [] step.op = "le" -> Lookup(bind, step.path) <= step.value
    [] step.op = "gt" -> Lookup(bind, step.path) > step.value
    [] step.op = "ge" -> Lookup(bind, step.path) >= step.value

-----------------------------------------------------------------------------
(* Commands.                                                               *)

Command(kind, seq, name, val) ==
  [kind |-> kind, seq |-> seq, name |-> name, value |-> val]

ScheduleActivity(seq, name, arg) == Command("ScheduleActivity", seq, name, arg)
CompleteWorkflow(result)         == Command("CompleteWorkflow", 0, Nothing, result)
FailWorkflow                     == Command("FailWorkflow", 0, Nothing, Nothing)

TerminalEvent(c) ==
  IF c.kind = "CompleteWorkflow" THEN Event("WorkflowCompleted", Nothing, c.value, 0)
                                 ELSE Event("WorkflowFailed", Nothing, Nothing, 0)

IsTerminal(c) == c.kind # "ScheduleActivity"

\* The events the service records for the commands of an answer.
CommandEvents(commands) ==
  [i \in 1..Len(commands) |->
     IF IsTerminal(commands[i]) THEN TerminalEvent(commands[i])
                                ELSE ScheduledEvent(commands[i])]

-----------------------------------------------------------------------------
(* The walk.  `run` is what the walk only reads: the activity records, the *)
(* full history, whether it is terminal, and the claims of earlier         *)
(* incarnations (signal_base).  `ctx` is WalkCtx.                          *)

Advance(ctx, i) == [ctx EXCEPT !.at = i]
Stop(ctx)       == [ctx EXCEPT !.outcome = "Stop"]
Error(ctx)      == [ctx EXCEPT !.outcome = "Error"]
Emit(ctx, run, c) ==
  IF run.finished THEN ctx ELSE [ctx EXCEPT !.commands = Append(@, c)]
BindResult(ctx, key, val) == [ctx EXCEPT !.results = Put(@, key, val)]

\* (Slip: a restored activity is counted again.)
ClaimRecordAgain(ctx, rec) == [ctx EXCEPT !.cursor = @ + 1, !.nextSeq = @ + 1]

\* The next record is this step's; a restored one has its number already.
ClaimRecord(ctx, rec) ==
  [ctx EXCEPT !.cursor  = @ + 1,
              !.nextSeq = IF rec.counted THEN @ ELSE @ + 1]

\* (Slip: the activity in flight is not saved.)
AwaitRecordUnsaved(ctx, rec) == Stop(ctx)

AwaitRecord(ctx, rec) ==
  Stop([ctx EXCEPT !.pending = [sched |-> rec.sched, name |-> rec.name]])

WalkScheduled(step, run, ctx, rec) ==
  LET claimed == ClaimRecord(ctx, rec)
  IN  CASE rec.name # step.name -> Error(ctx)   \* nondeterminism
        [] rec.name = step.name /\ rec.status = "ActivityCompleted" ->
             IF rec.value = BadJson THEN Error(ctx)
             ELSE Advance(BindResult(claimed, step.id, rec.value), step.next)
        [] rec.name = step.name /\ rec.status = "ActivityFailed" ->
             Stop(Emit(claimed, run, FailWorkflow))
        [] rec.name = step.name /\ rec.status = "InFlight" ->
             AwaitRecord(claimed, rec)

WalkActivity(step, run, ctx) ==
  CASE step.id \in DOMAIN ctx.results -> Advance(ctx, step.next)
    [] step.id \notin DOMAIN ctx.results /\ ctx.cursor < Len(run.records) ->
         WalkScheduled(step, run, ctx, run.records[ctx.cursor + 1])
    [] step.id \notin DOMAIN ctx.results /\ ctx.cursor >= Len(run.records) ->
         IF run.finished THEN Stop(ctx)
         ELSE IF ~ HasValue(ctx, step.arg) THEN Error(ctx)
         ELSE Stop(Emit(ctx, run, ScheduleActivity(ctx.nextSeq, step.name,
                                                   ValueOf(ctx, step.arg))))

\* (Slips: the claim is not counted within the walk, or not saved past it.)
ClaimSignalUncounted(ctx, name, idx) ==
  [ctx EXCEPT !.consumed = Put(@, name, idx + 1)]
ClaimSignalUnsaved(ctx, name, idx) ==
  [ctx EXCEPT !.claim = Put(@, name, Count(@, name) + 1)]

\* The signal at idx is taken, for this walk and for those to come.
ClaimSignal(ctx, name, idx) ==
  [ctx EXCEPT !.claim    = Put(@, name, Count(@, name) + 1),
              !.consumed = Put(@, name, idx + 1)]

WalkWaitSignal(step, run, ctx) ==
  LET idx     == Count(run.base, step.name) + Count(ctx.claim, step.name)
      signals == SignalsNamed(run.history, step.name)
      payload == Payload(run.history[signals[idx + 1]].value)
      bound   == BindResult(ClaimSignal(ctx, step.name, idx), step.id, payload)
  IN  IF step.id \in DOMAIN ctx.results THEN Advance(ctx, step.next)
      ELSE IF idx >= Len(signals)
           THEN Stop(IF run.finished THEN ctx
                     ELSE [ctx EXCEPT !.waiting = step.name])
      ELSE IF payload = BadJson THEN Error(ctx)
      ELSE Advance(IF step.bindTo = Nothing THEN bound
                   ELSE BindResult(bound, step.bindTo, payload), step.next)

\* (Slip: the branches are swapped.)
WalkConditionalSwapped(step, ctx) ==
  IF PredicateFails(step, ctx) THEN Error(ctx)
  ELSE Advance(ctx, IF PredicateHolds(step, ctx) THEN step.else ELSE step.then)

WalkConditional(step, ctx) ==
  IF PredicateFails(step, ctx) THEN Error(ctx)
  ELSE Advance(ctx, IF PredicateHolds(step, ctx) THEN step.then ELSE step.else)

WalkComplete(step, run, ctx) ==
  IF run.finished THEN Stop(ctx)
  ELSE IF ~ HasValue(ctx, step.result) THEN Error(ctx)
  ELSE Stop(Emit(ctx, run, CompleteWorkflow(ValueOf(ctx, step.result))))

WalkStep(step, run, ctx) ==
  CASE step.kind = "activity"    -> WalkActivity(step, run, ctx)
    [] step.kind = "wait_signal" -> WalkWaitSignal(step, run, ctx)
    [] step.kind = "conditional" -> WalkConditional(step, ctx)
    [] step.kind = "complete"    -> WalkComplete(step, run, ctx)
    [] OTHER                     -> Error(ctx)

\* The walk has come to step i, and takes it.
Visit(spec, run, ctx, i) ==
  IF ctx.at = i /\ ctx.outcome = "Continue" THEN WalkStep(spec[i], run, ctx) ELSE ctx

\* Indices only grow along the walk, so one pass over the document visits the
\* steps the recursion visits, in its order.
WalkSteps(spec, run, ctx0) ==
  LET walk[i \in 0..Len(spec)] ==
        IF i = 0 THEN ctx0 ELSE Visit(spec, run, walk[i - 1], i)
  IN  walk[Len(spec)]

-----------------------------------------------------------------------------
(* decideImpl.  A failed Result is Failure; a Decision has ok = TRUE.      *)

Failure == [ok |-> FALSE]

\* (Slip: each walk counts signals from the first again.)
SignalBaseZero(st) == EmptyMap

\* Signals claimed by earlier incarnations.
SignalBase(st) == st.consumed

WalkFrom(spec, history, st) ==
  WalkSteps(spec,
            [records |-> ActRecords(history, st), history |-> history,
             finished |-> HistoryFinished(history, st), base |-> SignalBase(st)],
            [at |-> 1, outcome |-> "Continue", cursor |-> 0, claim |-> EmptyMap,
             input |-> InputOf(history, st), results |-> st.results,
             nextSeq |-> st.nextSeq, consumed |-> st.consumed,
             pending |-> NoPending, commands |-> << >>, waiting |-> Nothing])

\* (Slips: the length of the suffix, or one event too many.)
NextWatermarkRelative(history, st) == Len(history) - st.watermark
NextWatermarkPast(history, st) == Len(history) + 1

NextWatermark(history, st) ==
  IF Len(history) > st.watermark THEN Len(history) ELSE st.watermark

DecideFrom(spec, history, st) ==
  LET ctx == WalkFrom(spec, history, st)
  IN  IF \/ DanglingEnd(history, st)
         \/ InputOf(history, st) = BadJson
         \/ ctx.outcome # "Stop"          \* Error, or no complete step reached
      THEN Failure
      ELSE [ok |-> TRUE, commands |-> ctx.commands, waiting |-> ctx.waiting,
            finished |-> HistoryFinished(history, st),
            state |-> [spec |-> spec, watermark |-> NextWatermark(history, st),
                       nextSeq |-> ctx.nextSeq, input |-> ctx.input,
                       results |-> ctx.results, consumed |-> ctx.consumed,
                       pending |-> ctx.pending]]

\* decide(spec, history): from scratch.
Replay(spec, history) == DecideFrom(spec, history, FreshState(spec))

\* decide(spec, history, prior): refuses a state another spec recorded.  The
\* spec hash is the spec itself: FNV-1a64 collisions are not modelled.
Resume(spec, history, prior) ==
  IF prior.spec # spec THEN Failure ELSE DecideFrom(spec, history, prior)
=============================================================================
