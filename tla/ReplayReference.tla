--------------------------- MODULE ReplayReference ---------------------------
(***************************************************************************)
(* What replaying a history means, said without a walk: a declarative      *)
(* definition the engine is compared with.                                 *)
(*                                                                         *)
(* A run of a spec is the set of steps it has reached.  Along it the k-th  *)
(* activity step owns the k-th scheduled activity, the k-th wait for a     *)
(* signal owns the k-th signal of that name, a step reads the latest       *)
(* binding made by an EARLIER step, and the command owed is the one of the *)
(* furthest step.  These are the promises of core/include/mwf_core/        *)
(* workflow_spec.h and replay_engine.h; nothing here refers to a cursor, a *)
(* watermark or a saved state.                                             *)
(***************************************************************************)
EXTENDS ReplayEngine

\* The ids of the activities scheduled in the history, in order.
ScheduledIds(history) ==
  InOrder({e \in 1..Len(history) : history[e].type = "ActivityScheduled"}, Len(history))

\* How the k-th scheduled activity ended: no event, or its closing event.
EndsOf(history, k) ==
  {e \in 1..Len(history) : /\ history[e].type \in ActivityEnds
                           /\ history[e].ref = ScheduledIds(history)[k]}

\* How many steps of the same kind and, for waits, of the same signal name
\* the run holds up to step i.
RankOf(spec, run, i) ==
  Cardinality({j \in run : /\ j <= i
                           /\ spec[j].kind = spec[i].kind
                           /\ spec[i].kind = "wait_signal" => spec[j].name = spec[i].name})

\* What an activity or wait_signal step is worth; Nothing while it is open.
StepValue(spec, history, run, i) ==
  LET k == RankOf(spec, run, i)
  IN  IF spec[i].kind = "wait_signal"
      THEN LET signals == SignalsNamed(history, spec[i].name)
           IN  IF k <= Len(signals) THEN Payload(history[signals[k]].value) ELSE Nothing
      ELSE IF /\ k <= Len(ScheduledIds(history))
              /\ \E e \in EndsOf(history, k) : history[e].type = "ActivityCompleted"
           THEN Payload(history[Max(EndsOf(history, k))].value)
           ELSE Nothing

Binds(step, key) ==
  /\ IsBinding(step)
  /\ key = step.id \/ (step.kind = "wait_signal" /\ key = step.bindTo)

\* The bindings step i reads: those of the steps before it.
BindingsBefore(spec, history, run, i) ==
  LET earlier(key) == {j \in run : j < i /\ Binds(spec[j], key)}
      names == UNION {{spec[j].id} \cup
                      (IF spec[j].kind = "wait_signal" THEN {spec[j].bindTo} ELSE {}) :
                        j \in {k \in run : k < i /\ IsBinding(spec[k])}}
  IN  [input   |-> history[1].value,
       results |-> [key \in names \ {Nothing} |-> StepValue(spec, history, run, Max(earlier(key)))]]

\* Step i lets the run go on to step j.
LeadsTo(spec, history, run, i, j) ==
  LET bind == BindingsBefore(spec, history, run, i)
  IN  CASE IsBinding(spec[i]) ->
             /\ StepValue(spec, history, run, i) \notin {Nothing, BadJson}
             /\ j = spec[i].next
        [] spec[i].kind = "conditional" ->
             /\ ~ PredicateFails(spec[i], bind)
             /\ j = IF PredicateHolds(spec[i], bind) THEN spec[i].then ELSE spec[i].else
        [] OTHER -> FALSE

\* The steps reached, closed under LeadsTo; every step but the first has a
\* predecessor.  Successors are larger, so the set is unique.
IsRun(spec, history, run) ==
  /\ 1 \in run
  /\ \A i \in run : \A j \in 1..Len(spec) : LeadsTo(spec, history, run, i, j) => j \in run
  /\ \A j \in run \ {1} : \E i \in run : i < j /\ LeadsTo(spec, history, run, i, j)

RunOf(spec, history) ==
  CHOOSE run \in SUBSET (1..Len(spec)) : IsRun(spec, history, run)

\* The commands a history is owed, for an open history that starts a run and
\* binds no BadJson.
OwedCommands(spec, history) ==
  LET run  == RunOf(spec, history)
      i    == Max(run)
      bind == BindingsBefore(spec, history, run, i)
      k    == RankOf(spec, run, i)
  IN  CASE spec[i].kind = "complete" ->
             <<CompleteWorkflow(ValueOf(bind, spec[i].result))>>
        [] spec[i].kind = "activity" /\ k > Len(ScheduledIds(history)) ->
             <<ScheduleActivity(k, spec[i].name, ValueOf(bind, spec[i].arg))>>
        [] /\ spec[i].kind = "activity" /\ k <= Len(ScheduledIds(history))
           /\ \E e \in EndsOf(history, k) : history[e].type = "ActivityFailed" ->
             <<FailWorkflow>>
        [] OTHER -> << >>

-----------------------------------------------------------------------------
(* Specs of which the engine does what is said above.  The parser accepts  *)
(* others; what the engine makes of those is said where they are checked.  *)

\* What evalPredicate compares with.
Operators == {"exists", "eq", "ne"} \cup Orderings

\* The step may give the key a new value.
Rebinds(step, key) ==
  \/ IsBinding(step) /\ key = step.id
  \/ step.kind = "wait_signal" /\ key = step.bindTo

\* Predicates are of a known operator, and none asks for a key that a later step
\* binds.
WellScoped(spec) ==
  \A i \in 1..Len(spec) :
    spec[i].kind = "conditional" =>
      /\ spec[i].op \in Operators
      /\ \A j \in (i + 1)..Len(spec) : ~ Rebinds(spec[j], spec[i].path)

\* No binding's name is taken by an alias of a wait before it (the parser does not
\* look at bind_to: workflow_spec.cpp, checkPathIds).
WellNamed(spec) ==
  \A j \in 1..Len(spec) :
    IsBinding(spec[j]) =>
      /\ spec[j].id # Nothing
      /\ \A i \in 1..(j - 1) :
           spec[i].kind = "wait_signal" => spec[i].bindTo # spec[j].id

\* No other step binds the id of a wait.  (The parser allows it on two paths.)
SoleIds(spec) ==
  \A i, j \in 1..Len(spec) :
    spec[i].kind = "wait_signal" /\ Binds(spec[j], spec[i].id) => i = j
=============================================================================
