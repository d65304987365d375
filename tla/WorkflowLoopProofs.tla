------------------------- MODULE WorkflowLoopProofs -------------------------
(***************************************************************************)
(* Every safety property of WorkflowLoop and its refinement of OwedRun,    *)
(* for any specs, signals, values, faults and length of history.           *)
(*                                                                         *)
(* TypeInv is what the device and the service are made of.  ResumeInv      *)
(* holds of a firmware that stays the same (Steady): the history is one    *)
(* the spec can have made (RunInv), what the device has saved or decided   *)
(* is what a replay of a part of that history gives (DeviceInv), and       *)
(* behind the saved part at most one activity has been scheduled           *)
(* (AheadInv).  What is decided is then what is owed (ReplayIsOwed).       *)
(***************************************************************************)
EXTENDS WorkflowLoop, ReferenceProofs

-----------------------------------------------------------------------------
(* The history only grows.                                                 *)

\* Types of the events the service records on its own.
OutsideTypes == {"Signaled"} \cup AllFates

\* The service keeps one open history, and closes it at its last event.
HistoryInv ==
  /\ IsList(history) /\ Len(history) >= 1
  /\ IsList(buffered)
  /\ \A i \in 1..Len(history) :
       history[i].type \in {"Started", "ActivityScheduled"} \cup OutsideTypes \cup TerminalEvents
  /\ \A i \in 1..(Len(history) - 1) : history[i].type \notin TerminalEvents
  /\ \A i \in 1..Len(buffered) : buffered[i].type \in OutsideTypes
  /\ wft \in {"none", "scheduled", "started"}
  /\ wft # "none" => ~ Closed
  /\ wft # "started" => buffered = << >>

LEMMA OutsideIsOpen ==
  \A t \in OutsideTypes : t \notin TerminalEvents
  BY DEF OutsideTypes, AllFates, ActivityEnds, TerminalEvents

\* What a list of events does to the history it is recorded behind.
LEMMA HistoryAppends ==
  ASSUME NEW h, IsList(h), Len(h) >= 1, NEW more, IsList(more), NEW Types,
         \A i \in 1..Len(h) : h[i].type \in Types,
         \A i \in 1..Len(h) : h[i].type \notin TerminalEvents,
         \A i \in 1..Len(more) : more[i].type \in Types,
         \A i \in 1..(Len(more) - 1) : more[i].type \notin TerminalEvents
  PROVE  /\ IsList(h \o more) /\ Len(h \o more) = Len(h) + Len(more)
         /\ HasPrefix(h \o more, h)
         /\ \A i \in 1..Len(h \o more) : (h \o more)[i].type \in Types
         /\ \A i \in 1..(Len(h \o more) - 1) : (h \o more)[i].type \notin TerminalEvents
         /\ (h \o more)[Len(h \o more)].type \in TerminalEvents =>
              Len(more) # 0 /\ more[Len(more)].type \in TerminalEvents
<1> DEFINE n == Len(h)
           m == Len(more)
           g == h \o more
<1>1. /\ IsList(g) /\ Len(g) = n + m
      /\ \A i \in 1..n : g[i] = h[i]
      /\ \A i \in 1..m : g[n + i] = more[i]
  BY ListConcat
<1>2. n \in Nat /\ m \in Nat /\ n >= 1
  BY DEF IsList
<1> HIDE DEF g
<1>3. ASSUME NEW i \in 1..(n + m)
      PROVE  \/ i \in 1..n /\ g[i] = h[i]
             \/ i - n \in 1..m /\ g[i] = more[i - n]
  <2>1. CASE i <= n
    BY <1>1, <1>2, <2>1
  <2>2. CASE i > n
    <3>1. i - n \in 1..m /\ n + (i - n) = i
      BY <1>2, <2>2
    <3> QED
      BY <1>1, <3>1
  <2> QED
    BY <1>2, <2>1, <2>2
<1>4. \A i \in 1..Len(g) : g[i].type \in Types
  BY <1>1, <1>3
<1>5. ASSUME NEW i \in 1..(Len(g) - 1) PROVE g[i].type \notin TerminalEvents
  <2>1. i \in 1..(n + m)
    BY <1>1, <1>2
  <2>2. i - n \in 1..m => i - n \in 1..(m - 1)
    BY <1>1, <1>2
  <2> QED
    BY <1>3, <2>1, <2>2
<1>6. ASSUME g[Len(g)].type \in TerminalEvents
      PROVE  m # 0 /\ more[m].type \in TerminalEvents
  <2>1. CASE m = 0
    <3>1. Len(g) \in 1..n
      BY <1>1, <1>2, <2>1
    <3> QED
      BY <1>1, <1>6, <3>1
  <2>2. CASE m # 0
    <3>1. m \in 1..m
      BY <1>2, <2>2
    <3> QED
      BY <1>1, <1>6, <2>2, <3>1
  <2> QED
    BY <2>1, <2>2
<1>7. HasPrefix(g, h)
  BY <1>1, <1>2 DEF HasPrefix
<1> QED
  BY <1>1, <1>4, <1>5, <1>6, <1>7 DEF g

EventTypes == {"Started", "ActivityScheduled"} \cup OutsideTypes \cup TerminalEvents

LEMMA OpenHistory ==
  ASSUME HistoryInv, ~ Closed
  PROVE  NeverClosed(history)
  BY DEF HistoryInv, Closed, NeverClosed, IsList

LEMMA PrefixRefl == \A h : Len(h) \in Nat => HasPrefix(h, h)
  BY DEF HasPrefix

LEMMA RecordKeeps ==
  ASSUME HistoryInv, NEW e, e.type \in OutsideTypes, Record(e)
  PROVE  HistoryInv' /\ HasPrefix(history', history) /\ ~ Closed'
<1>1. ~ Closed
  BY DEF Record
<1>2. CASE wft = "started"
  <2>1. buffered' = Append(buffered, e) /\ history' = history /\ wft' = wft
    BY <1>2 DEF Record
  <2>2. /\ IsList(buffered') /\ Len(buffered') = Len(buffered) + 1
        /\ \A i \in 1..Len(buffered) : buffered'[i] = buffered[i]
        /\ buffered'[Len(buffered) + 1] = e
    BY <2>1, ListAppend DEF HistoryInv
  <2>3. \A i \in 1..Len(buffered') : buffered'[i].type \in OutsideTypes
    BY <2>2 DEF HistoryInv, IsList
  <2>4. ~ Closed'
    BY <1>1, <2>1 DEF Closed
  <2>5. HasPrefix(history', history)
    BY <2>1, PrefixRefl DEF HistoryInv, IsList
  <2> QED
    BY <1>2, <2>1, <2>2, <2>3, <2>4, <2>5 DEF HistoryInv
<1>3. CASE wft # "started"
  <2>1. history' = Append(history, e) /\ buffered' = buffered /\ wft' = "scheduled"
    BY <1>3 DEF Record
  <2>2. /\ IsList(history') /\ Len(history') = Len(history) + 1
        /\ \A i \in 1..Len(history) : history'[i] = history[i]
        /\ history'[Len(history) + 1] = e
    BY <2>1, ListAppend DEF HistoryInv
  <2>3. Len(history) \in Nat /\ NeverClosed(history) /\ e.type \notin TerminalEvents
    BY <1>1, OpenHistory, OutsideIsOpen DEF HistoryInv, IsList
  <2>4. ~ Closed'
    BY <2>2, <2>3 DEF Closed
  <2>5. HasPrefix(history', history)
    BY <2>2, <2>3 DEF HasPrefix
  <2>6. \A i \in 1..Len(history') : history'[i].type \in EventTypes
    BY <2>2, <2>3 DEF HistoryInv, EventTypes
  <2>7. \A i \in 1..(Len(history') - 1) : history'[i].type \notin TerminalEvents
    BY <2>2, <2>3 DEF NeverClosed
  <2> QED
    BY <1>3, <2>1, <2>2, <2>3, <2>4, <2>5, <2>6, <2>7 DEF HistoryInv, EventTypes
<1> QED
  BY <1>2, <1>3

LEMMA TaskEndsEmptyKeeps ==
  ASSUME HistoryInv, TaskEndsEmpty
  PROVE  HistoryInv' /\ HasPrefix(history', history) /\ ~ Closed'
<1>1. ~ Closed /\ NeverClosed(history)
  BY OpenHistory DEF TaskEndsEmpty, HistoryInv
<1>2. history' = history \o buffered /\ buffered' = << >> /\ wft' = "scheduled"
  BY DEF TaskEndsEmpty
<1>3. /\ \A i \in 1..Len(history) : history[i].type \in EventTypes
      /\ \A i \in 1..Len(buffered) : buffered[i].type \in EventTypes
      /\ \A i \in 1..Len(buffered) : buffered[i].type \notin TerminalEvents
  BY OutsideIsOpen DEF HistoryInv, EventTypes
<1>4. IsList(history) /\ Len(history) >= 1 /\ IsList(buffered)
  BY DEF HistoryInv
<1>5. \A i \in 1..(Len(buffered) - 1) : buffered[i].type \notin TerminalEvents
  BY <1>3, <1>4 DEF IsList
<1>6. \A i \in 1..Len(history) : history[i].type \notin TerminalEvents
  BY <1>1 DEF NeverClosed
<1>7. /\ IsList(history') /\ Len(history') = Len(history) + Len(buffered)
      /\ HasPrefix(history', history)
      /\ \A i \in 1..Len(history') : history'[i].type \in EventTypes
      /\ \A i \in 1..(Len(history') - 1) : history'[i].type \notin TerminalEvents
      /\ history'[Len(history')].type \in TerminalEvents =>
           Len(buffered) # 0 /\ buffered[Len(buffered)].type \in TerminalEvents
  BY <1>2, <1>3, <1>4, <1>5, <1>6, HistoryAppends
<1>8. ~ Closed'
  <2>1. Len(buffered) # 0 => Len(buffered) \in 1..Len(buffered)
    BY <1>4 DEF IsList
  <2> QED
    BY <1>3, <1>7, <2>1 DEF Closed
<1>9. IsList(<< >>) /\ Len(<< >>) = 0 /\ Len(history') >= 1
  BY <1>4, <1>7 DEF IsList
<1> QED
  BY <1>2, <1>7, <1>8, <1>9 DEF HistoryInv, EventTypes

LEMMA CommandEventsAre ==
  ASSUME NEW commands, IsList(commands)
  PROVE  /\ IsList(CommandEvents(commands)) /\ Len(CommandEvents(commands)) = Len(commands)
         /\ \A i \in 1..Len(commands) :
              IF IsTerminal(commands[i])
              THEN CommandEvents(commands)[i].type \in TerminalEvents
              ELSE CommandEvents(commands)[i] = ScheduledEvent(commands[i])
<1> DEFINE evs == CommandEvents(commands)
           ev(i) == IF IsTerminal(commands[i]) THEN TerminalEvent(commands[i])
                                               ELSE ScheduledEvent(commands[i])
<1>1. evs = [i \in 1..Len(commands) |-> ev(i)]
  BY DEF CommandEvents
<1>2. \A i : IsTerminal(commands[i]) => ev(i).type \in TerminalEvents
  BY DEF TerminalEvent, Event, TerminalEvents
<1>3. \A i : ~ IsTerminal(commands[i]) => ev(i) = ScheduledEvent(commands[i])
  OBVIOUS
<1> HIDE DEF evs, ev
<1>4. evs = [i \in 1..Len(commands) |-> evs[i]] /\ \A i \in 1..Len(commands) : evs[i] = ev(i)
  BY <1>1
<1>5. Len(commands) \in Nat
  BY DEF IsList
<1>6. IsList(evs) /\ Len(evs) = Len(commands)
  BY <1>4, <1>5, FunctionIsList
<1>7. \A i \in 1..Len(commands) :
        IF IsTerminal(commands[i]) THEN evs[i].type \in TerminalEvents
                                   ELSE evs[i] = ScheduledEvent(commands[i])
  BY <1>2, <1>3, <1>4
<1> QED
  BY <1>6, <1>7 DEF evs

LEMMA TaskCompletesKeeps ==
  ASSUME HistoryInv, NEW commands, IsList(commands), Len(commands) <= 1,
         TaskCompletes(commands)
  PROVE  /\ HistoryInv' /\ HasPrefix(history', history)
         /\ Closed' => /\ history' = history \o CommandEvents(commands)
                       /\ Len(commands) = 1 /\ IsTerminal(commands[1])
<1> DEFINE evs == CommandEvents(commands)
           h == history \o evs
<1>1. ~ Closed /\ NeverClosed(history) /\ wft = "started"
  BY OpenHistory DEF TaskCompletes, HistoryInv
<1>2. /\ history' = h \o buffered /\ buffered' = << >>
      /\ wft' = IF buffered = << >> THEN "none" ELSE "scheduled"
  BY DEF TaskCompletes
<1>3. /\ IsList(evs) /\ Len(evs) = Len(commands)
      /\ \A i \in 1..Len(commands) :
           IF IsTerminal(commands[i])
           THEN evs[i].type \in TerminalEvents
           ELSE evs[i] = ScheduledEvent(commands[i])
  BY CommandEventsAre
<1>4. \A i \in 1..Len(evs) :
        /\ evs[i].type \in EventTypes
        /\ evs[i].type \in TerminalEvents <=> IsTerminal(commands[i])
  <2> TAKE i \in 1..Len(evs)
  <2>1. ScheduledEvent(commands[i]).type = "ActivityScheduled"
    BY DEF ScheduledEvent, Event
  <2> QED
    BY <1>3, <2>1 DEF EventTypes, TerminalEvents
<1>5. /\ IsList(history) /\ Len(history) >= 1 /\ IsList(buffered) /\ Len(commands) \in {0, 1}
      /\ \A i \in 1..Len(history) : history[i].type \in EventTypes
      /\ \A i \in 1..Len(history) : history[i].type \notin TerminalEvents
      /\ \A i \in 1..(Len(evs) - 1) : evs[i].type \notin TerminalEvents
  BY <1>1, <1>3 DEF HistoryInv, EventTypes, IsList, NeverClosed
<1> HIDE DEF evs
<1>6. /\ IsList(h) /\ Len(h) = Len(history) + Len(evs)
      /\ HasPrefix(h, history)
      /\ \A i \in 1..Len(h) : h[i].type \in EventTypes
      /\ \A i \in 1..(Len(h) - 1) : h[i].type \notin TerminalEvents
      /\ h[Len(h)].type \in TerminalEvents =>
           Len(evs) # 0 /\ evs[Len(evs)].type \in TerminalEvents
  BY <1>3, <1>4, <1>5, HistoryAppends
<1> HIDE DEF h
<1>7. CASE buffered = << >>
  <2>1. history' = h
    <3>1. /\ IsList(<< >>) /\ Len(<< >>) = 0 /\ Len(h) + 0 = Len(h)
      BY <1>6 DEF IsList
    <3>2. /\ IsList(history') /\ Len(history') = Len(h)
          /\ \A i \in 1..Len(h) : history'[i] = h[i]
      BY <1>2, <1>6, <1>7, <3>1, ListConcat
    <3> QED
      BY <1>6, <3>2, ListsEqual
  <2>2. Closed' => Len(commands) = 1 /\ IsTerminal(commands[1])
    BY <1>3, <1>4, <1>5, <1>6, <2>1 DEF Closed
  <2>3. Len(history') >= 1 /\ wft' = "none" /\ IsList(buffered') /\ Len(buffered') = 0
    BY <1>2, <1>3, <1>5, <1>6, <1>7, <2>1 DEF IsList
  <2>4. HistoryInv'
    BY <1>2, <1>6, <2>1, <2>3 DEF HistoryInv, EventTypes
  <2> QED
    BY <1>6, <2>1, <2>2, <2>4 DEF h, evs
<1>8. CASE buffered # << >>
  <2>1. \A i \in 1..Len(evs) : evs[i].type \notin TerminalEvents
    <3>1. \A i \in 1..Len(commands) : ~ IsTerminal(commands[i])
      <4>1. \A i \in 1..Len(commands) : commands[i] \in Range(commands)
        BY DEF Range, IsList
      <4> QED
        BY <1>8, <4>1 DEF TaskCompletes, Unacceptable
    <3> QED
      BY <1>3, <1>4, <3>1
  <2>2. Len(h) >= 1 /\ \A i \in 1..Len(h) : h[i].type \notin TerminalEvents
    <3>1. Len(h) \in Nat /\ (Len(evs) # 0 => Len(evs) \in 1..Len(evs))
      BY <1>3, <1>6 DEF IsList
    <3>2. h[Len(h)].type \notin TerminalEvents
      BY <1>6, <2>1, <3>1
    <3> QED
      BY <1>3, <1>5, <1>6, <3>1, <3>2
  <2>3. /\ \A i \in 1..Len(buffered) : buffered[i].type \in EventTypes
        /\ \A i \in 1..Len(buffered) : buffered[i].type \notin TerminalEvents
    BY OutsideIsOpen DEF HistoryInv, EventTypes
  <2>4. \A i \in 1..(Len(buffered) - 1) : buffered[i].type \notin TerminalEvents
    BY <1>5, <2>3 DEF IsList
  <2>5. /\ IsList(history') /\ Len(history') = Len(h) + Len(buffered)
        /\ HasPrefix(history', h)
        /\ \A i \in 1..Len(history') : history'[i].type \in EventTypes
        /\ \A i \in 1..(Len(history') - 1) : history'[i].type \notin TerminalEvents
        /\ history'[Len(history')].type \in TerminalEvents =>
             Len(buffered) # 0 /\ buffered[Len(buffered)].type \in TerminalEvents
    BY <1>2, <1>5, <1>6, <2>2, <2>3, <2>4, HistoryAppends
  <2>6. ~ Closed'
    <3>1. Len(buffered) # 0 => Len(buffered) \in 1..Len(buffered)
      BY <1>5 DEF IsList
    <3> QED
      BY <2>3, <2>5, <3>1 DEF Closed
  <2>7. HasPrefix(history', history)
    BY <1>5, <1>6, <2>5 DEF HasPrefix, IsList
  <2>8. Len(history') >= 1 /\ wft' = "scheduled" /\ IsList(buffered') /\ Len(buffered') = 0
    BY <1>2, <1>5, <1>8, <2>2, <2>5 DEF IsList
  <2>9. HistoryInv'
    BY <1>2, <2>5, <2>6, <2>8 DEF HistoryInv, EventTypes
  <2> QED
    BY <2>6, <2>7, <2>9
<1> QED
  BY <1>7, <1>8

-----------------------------------------------------------------------------
(* What the device holds.                                                  *)

\* s is a state an engine saved of a prefix of history h.
StateOf(h, s) ==
  /\ IsPrior(s)
  /\ s.spec \in Specs \cup Reflashed
  /\ s.watermark <= Len(h)
  /\ PendingIn(h, s.pending)
  /\ s.pending # NoPending => s.pending.sched <= s.watermark

Deciding == phase \in {"decided", "persisted", "answered"}

\* The device works on one open prefix of the history, the whole of it while
\* the service waits for the answer.
TaskInv ==
  /\ phase \in Phases
  /\ task.live \in BOOLEAN /\ task.horizon \in 0..Len(history)
  /\ task = [live |-> task.live, horizon |-> task.horizon]
  /\ task.live =>
       /\ wft = "started" /\ task.horizon = Len(history)
       /\ phase \in {"polled", "decided", "persisted", "unregistered"}
  /\ phase # "idle" =>
       /\ task.horizon # 0
       /\ \A i \in 1..task.horizon : history[i].type \notin TerminalEvents

\* What it resumes from and what it decided are states of that prefix, and the
\* decision goes further than the state it was made from.
StateInv ==
  /\ unsent \subseteq Signals
  /\ spec \in Specs \cup Reflashed
  /\ home \in {"nowhere", "nvs", "file", "unlisted", "orphan"}
  /\ faults \in 0..MaxFaults
  /\ ~ Absent => StateOf(history, store)
  /\ phase = "polled" /\ ~ Absent => store.watermark <= task.horizon
  /\ Deciding =>
       /\ StateOf(history, decision.state)
       /\ IsList(decision.commands) /\ Len(decision.commands) <= 1
       /\ spec # NoSpec
  /\ phase = "decided" /\ ~ Absent => decision.state.watermark >= store.watermark
  /\ phase = "unregistered" => decision.commands = <<FailWorkflow>> /\ spec = NoSpec

TypeInv == HistoryInv /\ TaskInv /\ StateInv

LEMMA StateGrows ==
  ASSUME NEW h, Len(h) \in Nat, NEW g, Len(g) \in Nat, HasPrefix(h, g), NEW s, StateOf(g, s)
  PROVE  StateOf(h, s)
<1>1. Len(g) <= Len(h) /\ \A i \in 1..Len(g) : i \in 1..Len(h) /\ h[i] = g[i]
  BY DEF HasPrefix
<1>2. s.watermark <= Len(h)
  BY <1>1 DEF StateOf, IsPrior
<1>3. PendingIn(h, s.pending)
  BY <1>1 DEF StateOf, PendingIn
<1> QED
  BY <1>2, <1>3 DEF StateOf

\* A step in which only the service and the task change, and the task is not
\* taken up again.
LEMMA ServiceKeepsStates ==
  ASSUME TypeInv, HistoryInv', HasPrefix(history', history),
         unsent' \subseteq Signals, faults' \in 0..MaxFaults, task'.horizon = task.horizon,
         UNCHANGED <<spec, record, phase, decision>>
  PROVE  StateInv'
<1>1. Len(history) \in Nat /\ Len(history') \in Nat
  BY DEF TypeInv, HistoryInv, IsList
<1>2. /\ spec' = spec /\ store' = store /\ home' = home /\ phase' = phase
      /\ decision' = decision
  BY DEF record
<1>3. ~ Absent => StateOf(history', store)
  BY <1>1, StateGrows DEF TypeInv, StateInv
<1>4. Deciding => StateOf(history', decision.state)
  BY <1>1, StateGrows DEF TypeInv, StateInv
<1> QED
  BY <1>2, <1>3, <1>4 DEF TypeInv, StateInv, Absent, Deciding

LEMMA ServiceKeepsTask ==
  ASSUME TypeInv, HistoryInv', HasPrefix(history', history), phase' = phase,
         \/ task' = [task EXCEPT !.live = FALSE]
         \/ task' = task /\ wft' = wft /\ history' = history
  PROVE  TaskInv'
<1>1. Len(history) \in Nat /\ Len(history') \in Nat
  BY DEF TypeInv, HistoryInv, IsList
<1>2. /\ task'.horizon = task.horizon
      /\ task' = [live |-> task'.live, horizon |-> task'.horizon]
      /\ task'.live \in BOOLEAN /\ (task'.live => task' = task)
  BY DEF TypeInv, TaskInv
<1>3. /\ task'.horizon \in 0..Len(history')
      /\ \A i \in 1..task.horizon : history'[i] = history[i]
  BY <1>1, <1>2 DEF HasPrefix, TypeInv, TaskInv
<1>4. task'.live => wft' = "started" /\ task'.horizon = Len(history')
  BY <1>2 DEF TypeInv, TaskInv
<1> QED
  BY <1>2, <1>3, <1>4 DEF TypeInv, TaskInv

\* The device's tick ends; the service may have moved on.
LEMMA EndTickKeeps ==
  ASSUME TypeInv, HistoryInv', HasPrefix(history', history), EndTick,
         unsent' \subseteq Signals, faults' \in 0..MaxFaults,
         spec' \in Specs \cup Reflashed,
         home' \in {"nowhere", "nvs", "file", "unlisted", "orphan"},
         store' \in {store, NoState, CorruptState} \/ StateOf(history', store')
  PROVE  TypeInv'
<1>1. Len(history) \in Nat /\ Len(history') \in Nat
  BY DEF TypeInv, HistoryInv, IsList
<1>2. phase' = "idle" /\ task' = [live |-> FALSE, horizon |-> 0]
  BY DEF EndTick, NoTask
<1>3. TaskInv'
  BY <1>1, <1>2 DEF TaskInv, Phases
<1>4. ~ Absent' => StateOf(history', store')
  <2>1. ~ Absent => StateOf(history', store)
    BY <1>1, StateGrows DEF TypeInv, StateInv
  <2> QED
    BY <2>1 DEF Absent
<1>5. StateInv'
  BY <1>2, <1>4 DEF StateInv, Deciding
<1> QED
  BY <1>3, <1>5 DEF TypeInv

LEMMA InitTypes == Init => TypeInv
<1> SUFFICES ASSUME Init PROVE TypeInv
  OBVIOUS
<1>1. PICK v \in Inputs : history = <<StartedEvent(v)>>
  BY DEF Init, RunInit
<1>2. HistoryInv
  <2>1. StartedEvent(v).type = "Started"
    BY DEF StartedEvent, Event
  <2>2. IsList(history) /\ Len(history) = 1 /\ history[1].type = "Started"
    BY <1>1, <2>1 DEF IsList
  <2>3. IsList(buffered) /\ Len(buffered) = 0
    BY DEF Init, RunInit, IsList
  <2>4. "Started" \notin TerminalEvents
    BY DEF TerminalEvents
  <2> QED
    BY <2>2, <2>3, <2>4 DEF Init, RunInit, HistoryInv, Closed
<1>3. TaskInv
  BY <1>2 DEF Init, TaskInv, NoTask, Phases, HistoryInv, IsList
<1>4. StateInv
  BY FaultsAssumption DEF Init, RunInit, StateInv, Absent, Deciding
<1> QED
  BY <1>2, <1>3, <1>4 DEF TypeInv

LEMMA DeliveredIs ==
  ASSUME TypeInv
  PROVE  /\ IsList(Delivered) /\ Len(Delivered) = task.horizon
         /\ \A i \in 1..task.horizon : Delivered[i] = history[i]
         /\ HasPrefix(history, Delivered)
         /\ phase # "idle" => NeverClosed(Delivered) /\ Len(Delivered) # 0
<1>1. IsList(history) /\ Len(history) \in Nat /\ task.horizon \in 0..Len(history)
  BY DEF TypeInv, HistoryInv, TaskInv, IsList
<1>2. /\ IsList(Delivered) /\ Len(Delivered) = task.horizon
      /\ \A i \in 1..task.horizon : Delivered[i] = history[i]
  BY <1>1, ListSub DEF Delivered
<1>3. HasPrefix(history, Delivered)
  BY <1>1, <1>2 DEF HasPrefix
<1>4. phase # "idle" => NeverClosed(Delivered) /\ Len(Delivered) # 0
  BY <1>2 DEF TypeInv, TaskInv, NeverClosed
<1> QED
  BY <1>2, <1>3, <1>4

LEMMA SpecIsList ==
  ASSUME TypeInv, spec # NoSpec
  PROVE  Len(spec) \in Nat
<1>1. spec \in Seq(Range(spec))
  BY SpecsAssumption DEF TypeInv, StateInv
<1> QED
  BY <1>1

LEMMA FreshIsPrior ==
  ASSUME NEW s, NEW h
  PROVE  /\ IsPrior(FreshState(s)) /\ PendingIn(h, FreshState(s).pending)
         /\ FreshState(s).watermark = 0
  BY DEF IsPrior, PendingIn, FreshState, EmptyMap

LEMMA DecideTypes ==
  ASSUME TypeInv, phase = "polled", spec # NoSpec, Decide(spec, Delivered).ok
  PROVE  LET d == Decide(spec, Delivered)
         IN  /\ StateOf(Delivered, d.state)
             /\ d.state.watermark = Len(Delivered)
             /\ ~ d.finished
             /\ IsList(d.commands) /\ Len(d.commands) <= 1
<1> DEFINE h == Delivered
           st == IF Absent THEN FreshState(spec) ELSE store
           d == Decide(spec, h)
<1>1. d = DecideFrom(spec, h, st)
  <2>1. CASE Absent
    BY <2>1 DEF Decide, Replay
  <2>2. CASE ~ Absent
    <3>1. d = Resume(spec, h, store)
      BY <2>2 DEF Decide
    <3>2. store.spec = spec
      BY <3>1 DEF Resume, Failure
    <3> QED
      BY <2>2, <3>1, <3>2 DEF Resume
  <2> QED
    BY <2>1, <2>2
<1>2. /\ IsList(h) /\ Len(h) \in Nat /\ Len(h) # 0 /\ NeverClosed(h)
      /\ Len(h) = task.horizon /\ \A i \in 1..Len(h) : h[i] = history[i]
  BY DeliveredIs DEF IsList
<1> HIDE DEF h
<1>3. IsPrior(st) /\ st.watermark <= Len(h) /\ PendingIn(h, st.pending)
  <2>1. CASE Absent
    BY <1>2, <2>1, FreshIsPrior
  <2>2. CASE ~ Absent
    <3>1. st = store /\ StateOf(history, store) /\ store.watermark <= Len(h)
      BY <1>2, <2>2 DEF TypeInv, StateInv
    <3>2. PendingIn(h, store.pending)
      BY <1>2, <3>1 DEF StateOf, PendingIn, IsPrior
    <3> QED
      BY <3>1, <3>2 DEF StateOf
  <2> QED
    BY <2>1, <2>2
<1>4. Len(spec) \in Nat /\ spec \in Specs \cup Reflashed
  BY SpecIsList DEF TypeInv, StateInv
<1> HIDE DEF st, d
<1>5. DecideFrom(spec, h, st).ok
  BY <1>1 DEF d, h
<1>6. /\ IsList(d.commands) /\ Len(d.commands) <= 1
      /\ ~ d.finished
      /\ IsPrior(d.state)
      /\ d.state.spec = spec
      /\ d.state.watermark = NextWatermark(h, st)
      /\ PendingIn(h, d.state.pending)
  BY <1>1, <1>2, <1>3, <1>4, <1>5, DecisionShape
<1>7. d.state.watermark = Len(h)
  BY <1>2, <1>3, <1>6 DEF NextWatermark, IsPrior
<1>8. StateOf(h, d.state)
  BY <1>2, <1>4, <1>6, <1>7 DEF StateOf, PendingIn
<1> QED
  BY <1>6, <1>7, <1>8 DEF d, h

LEMMA RestoreTypes ==
  ASSUME TypeInv, RestoreAndDecide
  PROVE  TypeInv'
<1>1. /\ phase = "polled" /\ spec # NoSpec /\ phase' = "decided"
      /\ decision' = Decide(spec, Delivered) /\ Decide(spec, Delivered).ok
      /\ history' = history /\ buffered' = buffered /\ wft' = wft /\ unsent' = unsent
      /\ spec' = spec /\ store' = store /\ home' = home /\ task' = task /\ faults' = faults
  BY DEF RestoreAndDecide, serverVars, record
<1> DEFINE d == Decide(spec, Delivered)
<1>2. /\ StateOf(Delivered, d.state) /\ d.state.watermark = Len(Delivered)
      /\ IsList(d.commands) /\ Len(d.commands) <= 1
  BY <1>1, DecideTypes
<1>3. Len(Delivered) = task.horizon /\ HasPrefix(history, Delivered) /\ Len(Delivered) \in Nat
  BY DeliveredIs DEF IsList
<1>4. StateOf(history, d.state)
  <2>1. Len(history) \in Nat
    BY DEF TypeInv, HistoryInv, IsList
  <2> QED
    BY <1>2, <1>3, <2>1, StateGrows
<1> HIDE DEF d
<1>5. decision' = d
  BY <1>1 DEF d
<1>6. HistoryInv'
  BY <1>1 DEF TypeInv, HistoryInv, Closed
<1>7. TaskInv'
  BY <1>1 DEF TypeInv, TaskInv, Phases
<1>8. StateInv'
  <2>1. Absent' <=> Absent
    BY <1>1 DEF Absent
  <2>2. Deciding' /\ phase' = "decided"
    BY <1>1 DEF Deciding
  <2>3. ~ Absent => d.state.watermark >= store.watermark
    BY <1>1, <1>2, <1>3 DEF TypeInv, StateInv, StateOf, IsPrior
  <2> QED
    BY <1>1, <1>2, <1>4, <1>5, <2>1, <2>2, <2>3 DEF TypeInv, StateInv
<1> QED
  BY <1>6, <1>7, <1>8 DEF TypeInv

LEMMA PollTypes ==
  ASSUME TypeInv, Poll
  PROVE  TypeInv'
<1>1. /\ phase = "idle" /\ wft = "scheduled" /\ wft' = "started" /\ phase' = "polled"
      /\ task' = [live |-> TRUE, horizon |-> Len(history)]
      /\ history' = history /\ buffered' = buffered /\ unsent' = unsent
      /\ spec' = spec /\ store' = store /\ home' = home /\ decision' = decision
      /\ faults' = faults
  BY DEF Poll, record
<1>2. ~ Closed /\ IsList(history) /\ Len(history) \in Nat /\ Len(history) # 0
  BY <1>1 DEF TypeInv, HistoryInv, IsList
<1>3. HistoryInv'
  BY <1>1, <1>2 DEF TypeInv, HistoryInv, Closed
<1>4. TaskInv'
  <2>1. \A i \in 1..Len(history) : history[i].type \notin TerminalEvents
    BY <1>2, OpenHistory DEF TypeInv, NeverClosed
  <2> QED
    BY <1>1, <1>2, <2>1 DEF TaskInv, Phases
<1>5. StateInv'
  <2>1. (Absent' <=> Absent) /\ ~ Deciding'
    BY <1>1 DEF Absent, Deciding
  <2>2. ~ Absent => StateOf(history, store)
    BY DEF TypeInv, StateInv
  <2> QED
    BY <1>1, <2>1, <2>2 DEF TypeInv, StateInv, StateOf
<1> QED
  BY <1>3, <1>4, <1>5 DEF TypeInv

\* The service's part of a step is none.
LEMMA ServiceRests ==
  ASSUME HistoryInv, history' = history, buffered' = buffered,
         wft' = wft \/ (wft = "scheduled" /\ wft' = "started")
  PROVE  HistoryInv' /\ HasPrefix(history', history)
<1>1. Len(history) \in Nat
  BY DEF HistoryInv, IsList
<1> QED
  BY <1>1, PrefixRefl DEF HistoryInv, Closed

LEMMA PollReplyLostTypes ==
  ASSUME TypeInv, PollReplyLost
  PROVE  TypeInv'
<1>1. /\ phase = "idle" /\ wft = "scheduled" /\ wft' = "started" /\ faults' = faults - 1
      /\ faults > 0 /\ phase' = phase /\ task' = task /\ history' = history
      /\ buffered' = buffered /\ unsent' = unsent
      /\ UNCHANGED <<spec, record, phase, decision>>
  BY DEF PollReplyLost, Fault
<1>2. HistoryInv' /\ HasPrefix(history', history)
  BY <1>1, ServiceRests DEF TypeInv
<1>3. faults' \in 0..MaxFaults
  BY <1>1, FaultsAssumption DEF TypeInv, StateInv
<1>4. StateInv'
  <2>1. unsent' \subseteq Signals
    BY <1>1 DEF TypeInv, StateInv
  <2> QED
    BY <1>1, <1>2, <1>3, <2>1, ServiceKeepsStates
<1>5. TaskInv'
  BY <1>1, <1>2 DEF TypeInv, TaskInv
<1> QED
  BY <1>2, <1>4, <1>5 DEF TypeInv

LEMMA DecideFailsTypes ==
  ASSUME TypeInv, DecideFails
  PROVE  TypeInv'
<1>1. /\ EndTick /\ history' = history /\ buffered' = buffered /\ wft' = wft
      /\ unsent' = unsent /\ spec' = spec /\ store' = store /\ home' = home
      /\ faults' = faults
  BY DEF DecideFails, serverVars, record
<1>2. HistoryInv' /\ HasPrefix(history', history)
  BY <1>1, ServiceRests DEF TypeInv
<1> QED
  BY <1>1, <1>2, EndTickKeeps DEF TypeInv, StateInv

LEMMA RefuseTypeTypes ==
  ASSUME TypeInv, RefuseType
  PROVE  TypeInv'
<1>1. /\ phase = "polled" /\ spec = NoSpec /\ phase' = "unregistered"
      /\ decision'.commands = <<FailWorkflow>>
      /\ history' = history /\ buffered' = buffered /\ wft' = wft
      /\ unsent' = unsent /\ spec' = spec /\ store' = store /\ home' = home
      /\ faults' = faults /\ task' = task
  BY DEF RefuseType, serverVars, record
<1>2. HistoryInv'
  BY <1>1, ServiceRests DEF TypeInv
<1>3. TaskInv'
  BY <1>1 DEF TypeInv, TaskInv, Phases
<1>4. StateInv'
  BY <1>1 DEF TypeInv, StateInv, Absent, Deciding
<1> QED
  BY <1>2, <1>3, <1>4 DEF TypeInv

\* A decided state goes to the store, by whatever way.
LEMMA SavedTypes ==
  ASSUME TypeInv, phase = "decided", phase' = "persisted", store' \in {store, decision.state},
         home' \in {"nowhere", "nvs", "file", "unlisted", "orphan"}, faults' \in 0..MaxFaults,
         UNCHANGED <<serverVars, spec, task, decision>>
  PROVE  TypeInv'
<1>1. /\ history' = history /\ buffered' = buffered /\ wft' = wft
      /\ unsent' = unsent /\ spec' = spec /\ task' = task /\ decision' = decision
  BY DEF serverVars
<1>2. HistoryInv'
  BY <1>1, ServiceRests DEF TypeInv
<1>3. TaskInv'
  BY <1>1 DEF TypeInv, TaskInv, Phases
<1>4. StateInv'
  <2>1. ~ Absent' => StateOf(history, store')
    BY DEF TypeInv, StateInv, Absent, Deciding
  <2>2. StateOf(history, decision.state)
    BY DEF TypeInv, StateInv, Deciding
  <2> QED
    BY <1>1, <2>1, <2>2 DEF TypeInv, StateInv, Deciding
<1> QED
  BY <1>2, <1>3, <1>4 DEF TypeInv

LEMMA PersistTypes ==
  ASSUME TypeInv, Persist \/ PersistUnlisted
  PROVE  TypeInv'
<1>1. /\ phase = "decided" /\ phase' = "persisted"
      /\ UNCHANGED <<serverVars, spec, task, decision>>
  BY DEF Persist, PersistUnlisted
<1>2. store' \in {store, decision.state}
  BY DEF Persist, PersistUnlisted, Saved, record
<1>3. home' \in {"nowhere", "nvs", "file", "unlisted", "orphan"}
  BY DEF Persist, PersistUnlisted, Saved, record, TypeInv, StateInv
<1>4. faults' \in 0..MaxFaults
  BY FaultsAssumption DEF Persist, PersistUnlisted, Fault, TypeInv, StateInv
<1> QED
  BY <1>1, <1>2, <1>3, <1>4, SavedTypes

LEMMA PersistFailsTypes ==
  ASSUME TypeInv, PersistFails
  PROVE  TypeInv'
<1>1. /\ phase = "decided" /\ EndTick /\ HalfSaved(decision.state)
      /\ history' = history /\ buffered' = buffered /\ wft' = wft
      /\ unsent' = unsent /\ spec' = spec
      /\ faults > 0 /\ faults' = faults - 1
  BY DEF PersistFails, Fault, serverVars
<1>2. HistoryInv' /\ HasPrefix(history', history)
  BY <1>1, ServiceRests DEF TypeInv
<1>3. faults' \in 0..MaxFaults
  BY <1>1, FaultsAssumption DEF TypeInv, StateInv
<1>4. StateOf(history', decision.state)
  BY <1>1 DEF TypeInv, StateInv, Deciding
<1>5. store' \in {store, NoState, CorruptState, decision.state}
  BY <1>1 DEF HalfSaved, record
<1>6. home' \in {"nowhere", "nvs", "file", "unlisted", "orphan"}
  BY <1>1 DEF HalfSaved, record, TypeInv, StateInv
<1>7. store' \in {store, NoState, CorruptState} \/ StateOf(history', store')
  BY <1>4, <1>5
<1>8. unsent' \subseteq Signals /\ spec' \in Specs \cup Reflashed
  BY <1>1 DEF TypeInv, StateInv
<1> QED
  BY <1>1, <1>2, <1>3, <1>6, <1>7, <1>8, EndTickKeeps

\* The commands of an answer.
LEMMA AnswerIsList ==
  ASSUME TypeInv, Answering
  PROVE  IsList(decision.commands) /\ Len(decision.commands) <= 1
<1>1. CASE phase = "persisted"
  BY <1>1 DEF TypeInv, StateInv, Deciding
<1>2. CASE phase = "unregistered"
  <2>1. decision.commands = <<FailWorkflow>>
    BY <1>2 DEF TypeInv, StateInv
  <2> QED
    BY <2>1 DEF IsList
<1> QED
  BY <1>1, <1>2 DEF Answering

LEMMA RespondAcceptedTypes ==
  ASSUME TypeInv, RespondAccepted
  PROVE  TypeInv'
<1>1. /\ Answering /\ task.live /\ TaskCompletes(decision.commands)
      /\ spec' = spec /\ store' = store /\ home' = home /\ faults' = faults
  BY DEF RespondAccepted, record
<1>2. HistoryInv' /\ HasPrefix(history', history)
  BY <1>1, AnswerIsList, TaskCompletesKeeps DEF TypeInv
<1>3. unsent' = unsent
  BY <1>1 DEF TaskCompletes
<1>4. CASE phase = "persisted"
  <2>1. phase' = "answered" /\ task' = [task EXCEPT !.live = FALSE] /\ decision' = decision
    BY <1>4 DEF RespondAccepted
  <2>2. /\ task' = [live |-> FALSE, horizon |-> task.horizon] /\ task'.live = FALSE
        /\ task'.horizon = task.horizon
    BY <2>1 DEF TypeInv, TaskInv
  <2>3. Len(history) \in Nat /\ Len(history') \in Nat
    BY <1>2 DEF TypeInv, HistoryInv, IsList
  <2>4. TaskInv'
    <3>1. task.horizon # 0 /\ task.horizon \in 0..Len(history)
      BY <1>4 DEF TypeInv, TaskInv
    <3>2. \A i \in 1..task.horizon : history'[i].type \notin TerminalEvents
      BY <1>2, <1>4, <2>3 DEF TypeInv, TaskInv, HasPrefix
    <3>3. task'.horizon \in 0..Len(history')
      BY <1>2, <2>2, <2>3, <3>1 DEF HasPrefix
    <3> QED
      BY <2>1, <2>2, <3>1, <3>2, <3>3 DEF TaskInv, Phases
  <2>5. StateInv'
    <3>1. StateOf(history', decision.state) /\ (~ Absent => StateOf(history', store))
      BY <1>2, <1>4, <2>3, StateGrows DEF TypeInv, StateInv, Deciding
    <3> QED
      BY <1>1, <1>3, <1>4, <2>1, <3>1 DEF TypeInv, StateInv, Absent, Deciding
  <2> QED
    BY <1>2, <2>4, <2>5 DEF TypeInv
<1>5. CASE phase # "persisted"
  <2>1. EndTick
    BY <1>5 DEF RespondAccepted
  <2> QED
    BY <1>1, <1>2, <1>3, <2>1, EndTickKeeps DEF TypeInv, StateInv
<1> QED
  BY <1>4, <1>5

LEMMA RespondEndsTypes ==
  ASSUME TypeInv, RespondReplyLost \/ RespondLost \/ RespondRefused
  PROVE  TypeInv'
<1>1. /\ EndTick /\ spec' = spec /\ store' = store /\ home' = home
      /\ (faults' = faults \/ (faults > 0 /\ faults' = faults - 1))
  BY DEF RespondReplyLost, RespondLost, RespondRefused, Fault, record
<1>2. /\ HistoryInv' /\ HasPrefix(history', history)
      /\ unsent' = unsent
  <2>1. CASE RespondReplyLost
    BY <2>1, AnswerIsList, TaskCompletesKeeps DEF TypeInv, RespondReplyLost, TaskCompletes
  <2>2. CASE RespondLost
    BY <2>2, ServiceRests DEF TypeInv, RespondLost, serverVars
  <2>3. CASE RespondRefused
    <3>1. CASE TaskEndsEmpty
      BY <3>1, TaskEndsEmptyKeeps DEF TypeInv, TaskEndsEmpty
    <3>2. CASE UNCHANGED serverVars
      BY <3>2, ServiceRests DEF TypeInv, serverVars
    <3> QED
      BY <2>3, <3>1, <3>2 DEF RespondRefused
  <2> QED
    BY <2>1, <2>2, <2>3
<1>3. faults' \in 0..MaxFaults
  BY <1>1, FaultsAssumption DEF TypeInv, StateInv
<1> QED
  BY <1>1, <1>2, <1>3, EndTickKeeps DEF TypeInv, StateInv

LEMMA ClassifyAndEraseTypes ==
  ASSUME TypeInv, ClassifyAndErase
  PROVE  TypeInv'
<1>1. /\ EndTick /\ spec' = spec /\ faults' = faults /\ history' = history
      /\ buffered' = buffered /\ wft' = wft /\ unsent' = unsent
      /\ store' \in {store, NoState} /\ home' \in {home, "nowhere"}
  BY DEF ClassifyAndErase, Erased, record, serverVars
<1>2. HistoryInv' /\ HasPrefix(history', history)
  BY <1>1, ServiceRests DEF TypeInv
<1> QED
  BY <1>1, <1>2, EndTickKeeps DEF TypeInv, StateInv

LEMMA RebootTypes ==
  ASSUME TypeInv, PowerCut \/ Reflash
  PROVE  TypeInv'
<1>1. /\ EndTick /\ Rebooted /\ faults > 0 /\ faults' = faults - 1 /\ history' = history
      /\ buffered' = buffered /\ wft' = wft /\ unsent' = unsent
      /\ spec' \in {spec} \cup Reflashed
  BY DEF PowerCut, Reflash, Fault, serverVars
<1>2. store' = store /\ home' \in {home, "orphan"}
  BY <1>1 DEF Rebooted
<1>3. HistoryInv' /\ HasPrefix(history', history)
  BY <1>1, ServiceRests DEF TypeInv
<1>4. faults' \in 0..MaxFaults
  BY <1>1, FaultsAssumption DEF TypeInv, StateInv
<1> QED
  BY <1>1, <1>2, <1>3, <1>4, EndTickKeeps DEF TypeInv, StateInv

LEMMA TaskTimesOutTypes ==
  ASSUME TypeInv, TaskTimesOut
  PROVE  TypeInv'
<1>1. /\ TaskEndsEmpty /\ task' = [task EXCEPT !.live = FALSE]
      /\ UNCHANGED <<spec, record, phase, decision>>
      /\ (faults' = faults \/ (faults > 0 /\ faults' = faults - 1))
  BY DEF TaskTimesOut, Fault
<1>2. HistoryInv' /\ HasPrefix(history', history) /\ unsent' = unsent
  BY <1>1, TaskEndsEmptyKeeps DEF TypeInv, TaskEndsEmpty
<1>3. faults' \in 0..MaxFaults
  BY <1>1, FaultsAssumption DEF TypeInv, StateInv
<1>4. TaskInv'
  BY <1>1, <1>2, ServiceKeepsTask
<1>5. task'.horizon = task.horizon /\ unsent' \subseteq Signals
  BY <1>1, <1>2 DEF TypeInv, TaskInv, StateInv
<1>6. StateInv'
  BY <1>1, <1>2, <1>3, <1>5, ServiceKeepsStates
<1> QED
  BY <1>2, <1>4, <1>6 DEF TypeInv

\* A signal or the end of an activity is recorded.
LEMMA OutsideRecords ==
  ASSUME SomeSignalArrives \/ SomeActivityEnds
  PROVE  \E e : e.type \in OutsideTypes /\ Record(e)
<1>1. CASE SomeSignalArrives
  <2>1. PICK s \in unsent : SignalArrives(s)
    BY <1>1 DEF SomeSignalArrives
  <2>2. SignaledEvent(s.name, s.value).type = "Signaled"
    BY DEF SignaledEvent, Event
  <2> QED
    BY <2>1, <2>2 DEF SignalArrives, OutsideTypes
<1>2. CASE SomeActivityEnds
  <2>1. PICK e \in OpenActivities, fate \in ActivityFates, val \in ActivityValues :
           ActivityEndsWith(e, fate, val)
    BY <1>2 DEF SomeActivityEnds
  <2> DEFINE v == IF fate = "ActivityCompleted" THEN val ELSE Nothing
  <2>2. ActivityEndEvent(fate, v, e).type = fate /\ Record(ActivityEndEvent(fate, v, e))
    BY <2>1 DEF ActivityEndEvent, Event, ActivityEndsWith
  <2> QED
    BY <2>2, FatesAssumption DEF OutsideTypes
<1> QED
  BY <1>1, <1>2

LEMMA OutsideTypesKeep ==
  ASSUME TypeInv, SomeSignalArrives \/ SomeActivityEnds
  PROVE  TypeInv'
<1>1. /\ spec' = spec /\ store' = store /\ home' = home /\ phase' = phase /\ task' = task
      /\ decision' = decision /\ faults' = faults
  BY DEF SomeSignalArrives, SomeActivityEnds, deviceVars, record
<1>3. PICK e : e.type \in OutsideTypes /\ Record(e)
  BY OutsideRecords
<1>4. HistoryInv' /\ HasPrefix(history', history)
  BY <1>3, RecordKeeps DEF TypeInv
<1>5. wft = "started" => history' = history /\ wft' = wft
  BY <1>3 DEF Record
<1>6. unsent' \subseteq Signals
  BY DEF SomeSignalArrives, SomeActivityEnds, SignalArrives, ActivityEndsWith, TypeInv, StateInv
<1>7. TaskInv'
  <2>1. CASE wft = "started"
    BY <1>1, <1>4, <1>5, <2>1, ServiceKeepsTask
  <2>2. CASE wft # "started"
    <3>1. ~ task.live
      BY <2>2 DEF TypeInv, TaskInv
    <3>2. task' = [task EXCEPT !.live = FALSE]
      BY <1>1, <3>1 DEF TypeInv, TaskInv
    <3> QED
      BY <1>1, <1>4, <3>2, ServiceKeepsTask
  <2> QED
    BY <2>1, <2>2
<1>8. StateInv'
  <2>1. faults' \in 0..MaxFaults
    BY <1>1 DEF TypeInv, StateInv
  <2>2. UNCHANGED <<spec, record, phase, decision>> /\ task'.horizon = task.horizon
    BY <1>1 DEF record
  <2> QED
    BY <1>4, <1>6, <2>1, <2>2, ServiceKeepsStates
<1> QED
  BY <1>4, <1>7, <1>8 DEF TypeInv

LEMMA StutterTypes ==
  ASSUME TypeInv, UNCHANGED vars
  PROVE  TypeInv'
  BY DEF vars, record, TypeInv, HistoryInv, TaskInv, StateInv, Closed, Absent, Deciding

LEMMA NextTypes ==
  ASSUME TypeInv, [Next]_vars
  PROVE  TypeInv'
<1>1. CASE Tick
  BY <1>1, PollTypes, RestoreTypes, DecideFailsTypes, RefuseTypeTypes, PersistTypes,
     RespondAcceptedTypes, RespondEndsTypes, ClassifyAndEraseTypes DEF Tick
<1>2. CASE Faults
  BY <1>2, PollReplyLostTypes, PersistFailsTypes, PersistTypes, RespondEndsTypes,
     RebootTypes DEF Faults
<1>3. CASE TaskTimesOut \/ SomeSignalArrives \/ SomeActivityEnds
  BY <1>3, TaskTimesOutTypes, OutsideTypesKeep
<1>4. CASE Settled \/ UNCHANGED vars
  BY <1>4, StutterTypes DEF Settled
<1> QED
  BY <1>1, <1>2, <1>3, <1>4 DEF Next

LEMMA SpecTypes == Spec => []TypeInv
<1>1. TypeInv /\ [Next]_vars => TypeInv'
  BY NextTypes
<1> QED
  BY <1>1, InitTypes, PTL DEF Spec

LEMMA TypeInvTypes ==
  ASSUME TypeInv
  PROVE  TypeOK
<1>1. ASSUME NEW e \in Range(history) \cup Range(buffered)
      PROVE  e.type \in
               {"Started", "Signaled", "ActivityScheduled"} \cup AllFates \cup TerminalEvents
  <2>1. \A i \in 1..Len(history) : history[i].type \in EventTypes
    BY DEF TypeInv, HistoryInv, EventTypes
  <2>2. \A i \in 1..Len(buffered) : buffered[i].type \in OutsideTypes
    BY DEF TypeInv, HistoryInv
  <2>3. DOMAIN history = 1..Len(history) /\ DOMAIN buffered = 1..Len(buffered)
    BY DEF TypeInv, HistoryInv, IsList
  <2>4. e.type \in EventTypes
    BY <2>1, <2>2, <2>3 DEF Range, EventTypes
  <2> QED
    BY <2>4 DEF EventTypes, OutsideTypes
<1>2. ASSUME NEW s, StateOf(history, s) PROVE IsEngineState(s)
  <2>1. Len(history) \in Nat
    BY DEF TypeInv, HistoryInv, IsList
  <2> QED
    BY <1>2, <2>1 DEF StateOf, IsPrior, PendingIn, IsEngineState, ScheduledIn
<1> QED
  BY <1>1, <1>2 DEF TypeInv, HistoryInv, TaskInv, StateInv, TypeOK, Absent, Deciding

\* Whatever the specs, the faults, the firmware and the answers of the world:
\* every variable keeps its type, and neither the record on flash nor the
\* decision in hand claims to have seen more than the service has recorded, or
\* waits for an activity that was never scheduled.
THEOREM LoopTypesHold == Spec => []TypeOK
<1>1. TypeInv => TypeOK
  BY TypeInvTypes
<1> QED
  BY <1>1, SpecTypes, PTL

LEMMA SavedStateGrows ==
  ASSUME TypeInv, [Next]_vars, ~ Absent, ~ Absent'
  PROVE  store'.watermark >= store.watermark
<1>1. store.watermark \in Nat
  BY DEF TypeInv, StateInv, StateOf, IsPrior
<1>2. CASE store' = store
  BY <1>1, <1>2
<1>3. CASE store' # store
  <2>1. Persist \/ PersistFails \/ PersistUnlisted \/ ClassifyAndErase
    BY <1>3 DEF Next, Tick, Faults, Poll, RestoreAndDecide, DecideFails, RefuseType,
       RespondAccepted, RespondRefused, PollReplyLost, RespondReplyLost, RespondLost,
       PowerCut, Reflash, Rebooted, TaskTimesOut, SomeSignalArrives, SomeActivityEnds,
       Settled, deviceVars, vars, record
  <2>2. CASE ClassifyAndErase
    BY <1>3, <2>2 DEF ClassifyAndErase, Erased, record, Absent
  <2>3. CASE Persist \/ PersistFails \/ PersistUnlisted
    <3>1. phase = "decided" /\ store' \in {decision.state, NoState, CorruptState}
      BY <1>3, <2>3 DEF Persist, PersistFails, PersistUnlisted, Saved, HalfSaved, record
    <3>2. store' = decision.state
      BY <3>1 DEF Absent
    <3> QED
      BY <3>1, <3>2 DEF TypeInv, StateInv
  <2> QED
    BY <2>1, <2>2, <2>3
<1> QED
  BY <1>2, <1>3

\* Whatever is lost, torn or decided twice, a saved state is never replaced by
\* one that has seen less of the history.
THEOREM StateNeverRegresses == Spec => SavedStateNeverRegresses
<1>1. TypeInv /\ [Next]_vars =>
        [~ Absent /\ ~ Absent' => store'.watermark >= store.watermark]_vars
  BY SavedStateGrows
<1> QED
  BY <1>1, SpecTypes, PTL DEF Spec, SavedStateNeverRegresses

-----------------------------------------------------------------------------
(* A run that nothing has gone wrong with leaves no record.                *)

\* As long as nothing went wrong, the record is where it can be erased, there
\* is none without a spec, and a closed run is about to be erased or has been.
CleanInv ==
  faults = MaxFaults =>
    /\ home \in {"nowhere", "nvs", "file"}
    /\ spec = NoSpec => store = NoState
    /\ Closed => \/ phase = "answered" /\ AnsweredTerminal(decision)
                 \/ phase = "idle" /\ store = NoState

LEMMA FaultyStepsAreClean ==
  ASSUME TypeInv, Faults
  PROVE  CleanInv'
<1>1. faults' # MaxFaults
  BY FaultsAssumption DEF TypeInv, StateInv, Faults, PollReplyLost, PersistFails,
     PersistUnlisted, RespondReplyLost, RespondLost, PowerCut, Reflash, Fault
<1> QED
  BY <1>1 DEF CleanInv

\* The history is what it was, or an open one.
LEMMA OpenStaysClean ==
  ASSUME CleanInv, UNCHANGED <<spec, store, home>>, faults' = faults \/ faults' # MaxFaults,
         ~ Closed'
  PROVE  CleanInv'
  BY DEF CleanInv

LEMMA TickIsClean ==
  ASSUME TypeInv, CleanInv, Tick
  PROVE  CleanInv'
<1> SUFFICES ASSUME faults' = MaxFaults PROVE CleanInv'
  BY DEF CleanInv
<1>1. faults' = faults
  BY DEF Tick, Poll, RestoreAndDecide, DecideFails, RefuseType, Persist, RespondAccepted,
     RespondRefused, ClassifyAndErase
<1>2. phase # "idle" /\ phase # "answered" => ~ Closed
  BY <1>1 DEF CleanInv
<1>3. CASE Poll
  <2>1. ~ Closed'
    BY <1>3 DEF Poll, TypeInv, HistoryInv, Closed
  <2> QED
    BY <1>1, <1>3, <2>1, OpenStaysClean DEF Poll, record
<1>4. CASE RestoreAndDecide \/ DecideFails \/ RefuseType
  <2>1. ~ Closed'
    BY <1>2, <1>4 DEF RestoreAndDecide, DecideFails, RefuseType, serverVars, Closed
  <2> QED
    BY <1>1, <1>4, <2>1, OpenStaysClean
       DEF RestoreAndDecide, DecideFails, RefuseType, record
<1>5. CASE Persist
  <2>1. ~ Closed' /\ spec' = spec /\ spec # NoSpec
    BY <1>2, <1>5 DEF Persist, serverVars, Closed, TypeInv, StateInv, Deciding
  <2>2. home' \in {"nowhere", "nvs", "file"}
    BY <1>1, <1>5 DEF CleanInv, Persist, Saved, record
  <2> QED
    BY <2>1, <2>2 DEF CleanInv
<1>6. CASE RespondAccepted
  <2>1. spec' = spec /\ store' = store /\ home' = home
    BY <1>6 DEF RespondAccepted, record
  <2>2. Closed' => Len(decision.commands) = 1 /\ IsTerminal(decision.commands[1])
    BY <1>6, AnswerIsList, TaskCompletesKeeps DEF TypeInv, RespondAccepted
  <2>3. CASE phase = "persisted"
    <3>1. phase' = "answered" /\ decision' = decision
      BY <1>6, <2>3 DEF RespondAccepted
    <3>2. Closed' => AnsweredTerminal(decision)
      <4>1. IsList(decision.commands)
        BY <2>3, AnswerIsList DEF Answering
      <4>2. Len(decision.commands) = 1 => decision.commands[1] \in Range(decision.commands)
        BY <4>1 DEF IsList, Range
      <4> QED
        BY <2>2, <4>2 DEF AnsweredTerminal
    <3> QED
      BY <1>1, <2>1, <3>1, <3>2 DEF CleanInv
  <2>4. CASE phase = "unregistered"
    <3>1. phase' = "idle"
      BY <1>6, <2>4 DEF RespondAccepted, EndTick
    <3>2. spec = NoSpec
      BY <2>4 DEF TypeInv, StateInv
    <3> QED
      BY <1>1, <2>1, <3>1, <3>2 DEF CleanInv
  <2> QED
    BY <1>6, <2>3, <2>4 DEF RespondAccepted, Answering
<1>7. CASE RespondRefused
  <2>1. ~ Closed
    BY <1>2, <1>7 DEF RespondRefused, Answering
  <2>2. ~ Closed'
    BY <1>7, <2>1, TaskEndsEmptyKeeps DEF RespondRefused, TypeInv, serverVars, Closed
  <2> QED
    BY <1>1, <1>7, <2>2, OpenStaysClean DEF RespondRefused, record
<1>8. CASE ClassifyAndErase
  <2>1. phase = "answered" /\ phase' = "idle" /\ (Closed' <=> Closed) /\ spec' = spec
    BY <1>8 DEF ClassifyAndErase, EndTick, serverVars, Closed
  <2>2. CASE AnsweredTerminal(decision)
    <3>1. store' = NoState /\ home' = "nowhere"
      BY <1>1, <1>8, <2>2 DEF ClassifyAndErase, Erased, CleanInv
    <3> QED
      BY <2>1, <3>1 DEF CleanInv
  <2>3. CASE ~ AnsweredTerminal(decision)
    <3>1. store' = store /\ home' = home
      BY <1>8, <2>3 DEF ClassifyAndErase, record
    <3> QED
      BY <1>1, <2>1, <2>3, <3>1 DEF CleanInv
  <2> QED
    BY <2>2, <2>3
<1> QED
  BY <1>3, <1>4, <1>5, <1>6, <1>7, <1>8 DEF Tick

LEMMA NextIsClean ==
  ASSUME TypeInv, CleanInv, [Next]_vars
  PROVE  CleanInv'
<1>1. CASE TaskTimesOut
  <2>1. ~ Closed'
    BY <1>1, TaskEndsEmptyKeeps DEF TypeInv, TaskTimesOut
  <2>2. faults' = faults \/ faults' # MaxFaults
    BY <1>1, FaultsAssumption DEF TaskTimesOut, Fault, TypeInv, StateInv
  <2> QED
    BY <1>1, <2>1, <2>2, OpenStaysClean DEF TaskTimesOut, record
<1>2. CASE SomeSignalArrives \/ SomeActivityEnds
  <2>1. ~ Closed'
    BY <1>2, OutsideRecords, RecordKeeps DEF TypeInv
  <2> QED
    BY <1>2, <2>1, OpenStaysClean DEF SomeSignalArrives, SomeActivityEnds, deviceVars, record
<1>4. CASE UNCHANGED vars
  BY <1>4 DEF CleanInv, vars, record, Closed
<1> QED
  BY <1>1, <1>2, <1>4, TickIsClean, FaultyStepsAreClean DEF Next, Settled

\* Whatever the specs and however the run ends, completed, failed or refused for
\* want of a spec: a run that is closed without a fault leaves no record of
\* itself on flash (workflow_loop.cpp:245-250).
THEOREM ClosedRunIsErased == Spec => []ClosedRunLeavesNothing
<1>1. Init => CleanInv
  <2> SUFFICES ASSUME Init PROVE CleanInv
    OBVIOUS
  <2>1. ~ Closed
    BY InitTypes DEF TypeInv, HistoryInv, Init, RunInit
  <2> QED
    BY <2>1 DEF Init, CleanInv
<1>2. TypeInv /\ CleanInv /\ [Next]_vars => CleanInv'
  BY NextIsClean
<1>3. CleanInv => ClosedRunLeavesNothing
  BY DEF CleanInv, ClosedRunLeavesNothing
<1> QED
  BY <1>1, <1>2, <1>3, SpecTypes, PTL DEF Spec


-----------------------------------------------------------------------------
(* Resuming is replaying, for a device that keeps its firmware.            *)

\* Another firmware may leave recorded activities unclaimed; an activity that fails
\* is reported once only; and a predicate on what a later step binds reads what a
\* replay has not bound yet.
Steady ==
  /\ Reflashed = {}
  /\ "ActivityFailed" \notin ActivityFates
  /\ \A s \in Specs \ {NoSpec} : WellScoped(s)

-----------------------------------------------------------------------------
(* The run the service keeps.                                              *)

\* A history the firmware can have made, if it knows a spec.
Known(sp, h) == IF sp = NoSpec THEN ActivityIds(h) = {} ELSE Reached(sp, h)

GoodRun(sp, h) == Regular(h) /\ Known(sp, h)

OpenIn(h, b) ==
  {e \in ActivityIds(h) :
     \A x \in Range(h) \cup Range(b) : x.type \in AllFates => x.ref # e}

OneOpen == \A e, x \in OpenActivities : e = x

RunInv ==
  /\ ~ Closed => Regular(history \o buffered) /\ Known(spec, history)
  /\ OneOpen

LEMMA OpenIs == OpenActivities = OpenIn(history, buffered)
  BY DEF OpenActivities, OpenIn, ActivityIds, ScheduledIn

\* The history with what is buffered behind it.
LEMMA WholeIs ==
  ASSUME HistoryInv
  PROVE  /\ IsList(history \o buffered) /\ IsList(history) /\ IsList(buffered)
         /\ Len(history) \in Nat /\ Len(history) >= 1 /\ Len(buffered) \in Nat
         /\ Len(history \o buffered) = Len(history) + Len(buffered)
         /\ HasPrefix(history \o buffered, history)
         /\ \A i \in 1..Len(history) : (history \o buffered)[i] = history[i]
         /\ \A i \in 1..Len(buffered) :
              /\ (history \o buffered)[Len(history) + i] = buffered[i]
              /\ buffered[i].type \in OutsideTypes
<1>1. IsList(history) /\ IsList(buffered) /\ Len(history) >= 1
      /\ \A i \in 1..Len(buffered) : buffered[i].type \in OutsideTypes
  BY DEF HistoryInv
<1>2. Len(history) \in Nat /\ Len(buffered) \in Nat
  BY <1>1 DEF IsList
<1> QED
  BY <1>1, <1>2, ListConcat DEF HasPrefix

LEMMA RunIsRegular ==
  ASSUME HistoryInv, RunInv, ~ Closed
  PROVE  GoodRun(spec, history)
  BY WholeIs, RegularPrefix DEF RunInv, GoodRun

LEMMA RangeIs ==
  ASSUME NEW s, IsList(s)
  PROVE  Range(s) = Members(s)
  BY DEF IsList, Range, Members

\* Of a run the firmware has made, no activity but the last is open.
LEMMA OpenIsLast ==
  ASSUME NEW sp, sp # NoSpec => Len(sp) \in Nat, NEW h, GoodRun(sp, h), NEW b,
         NEW e \in OpenIn(h, b), NEW x \in OpenIn(h, b)
  PROVE  e = x
<1>1. e \in ActivityIds(h) /\ x \in ActivityIds(h) /\ Len(h) \in Nat
  BY DEF OpenIn, GoodRun, Regular, IsList
<1>2. sp # NoSpec /\ Reached(sp, h) /\ Regular(h)
  BY <1>1 DEF GoodRun, Known
<1>3. \A id \in OpenIn(h, b) : ~ Ended(h, id)
  <2> TAKE id \in OpenIn(h, b)
  <2>1. \A i \in 1..Len(h) : h[i] \in Range(h)
    BY <1>2, RangeIs DEF Members, Regular
  <2> QED
    BY <2>1 DEF OpenIn, Ended, AllFates, ActivityEnds
<1>4. x <= e /\ e <= x
  BY <1>1, <1>2, <1>3, LastIsOpen
<1> QED
  BY <1>1, <1>4 DEF ActivityIds

\* What ends may end again nowhere.
LEMMA OpenHasNotEnded ==
  ASSUME HistoryInv, NEW e \in OpenActivities
  PROVE  e \in ActivityIds(history) /\ ~ Ended(history \o buffered, e)
<1>1. e \in ActivityIds(history) /\ e \in OpenIn(history, buffered)
  BY OpenIs DEF OpenIn
<1>2. /\ \A i \in 1..Len(history) : history[i] \in Range(history)
      /\ \A i \in 1..Len(buffered) : buffered[i] \in Range(buffered)
  BY RangeIs DEF Members, HistoryInv
<1>3. ASSUME NEW j \in 1..Len(history \o buffered),
             (history \o buffered)[j].type = "ActivityCompleted",
             (history \o buffered)[j].ref = e
      PROVE  FALSE
  <2>1. CASE j <= Len(history)
    <3>1. (history \o buffered)[j] \in Range(history)
      BY <1>2, <2>1, WholeIs
    <3> QED
      BY <1>1, <1>3, <3>1 DEF OpenIn, AllFates, ActivityEnds
  <2>2. CASE ~ (j <= Len(history))
    <3>1. j - Len(history) \in 1..Len(buffered) /\ Len(history) + (j - Len(history)) = j
      BY <2>2, WholeIs
    <3>2. (history \o buffered)[j] = buffered[j - Len(history)]
      BY <3>1, WholeIs
    <3>3. (history \o buffered)[j] \in Range(buffered)
      BY <1>2, <3>1, <3>2
    <3> QED
      BY <1>1, <1>3, <3>3 DEF OpenIn, AllFates, ActivityEnds
  <2> QED
    BY <2>1, <2>2
<1> QED
  BY <1>1, <1>3 DEF Ended

\* The events the service records on its own, and what they keep of an open run.
LEMMA OutsideEvents ==
  ASSUME Steady, SomeSignalArrives \/ SomeActivityEnds
  PROVE  \E e : /\ e.type \in {"Signaled", "ActivityCompleted", "ActivityTimedOut"}
                /\ e.type = "ActivityCompleted" => e.ref \in OpenActivities
                /\ Record(e)
<1>1. CASE SomeSignalArrives
  <2>1. PICK s \in unsent : SignalArrives(s)
    BY <1>1 DEF SomeSignalArrives
  <2>2. Record(SignaledEvent(s.name, s.value))
    BY <2>1 DEF SignalArrives
  <2>3. SignaledEvent(s.name, s.value).type = "Signaled"
    BY DEF SignaledEvent, Event
  <2> QED
    BY <2>2, <2>3
<1>2. CASE SomeActivityEnds
  <2>1. PICK e \in OpenActivities, fate \in ActivityFates, val \in ActivityValues :
           ActivityEndsWith(e, fate, val)
    BY <1>2 DEF SomeActivityEnds
  <2> DEFINE val2 == IF fate = "ActivityCompleted" THEN val ELSE Nothing
             ev   == ActivityEndEvent(fate, val2, e)
  <2>2. Record(ev)
    BY <2>1 DEF ActivityEndsWith
  <2>3. ev.type = fate /\ ev.ref = e
    BY DEF ActivityEndEvent, Event
  <2>4. fate \in {"ActivityCompleted", "ActivityTimedOut"}
    BY FatesAssumption DEF Steady, AllFates, ActivityEnds
  <2> QED
    BY <2>2, <2>3, <2>4
<1> QED
  BY <1>1, <1>2

LEMMA OpenShrinks ==
  ASSUME ActivityIds(history') = ActivityIds(history),
         Range(history) \cup Range(buffered) \subseteq Range(history') \cup Range(buffered'),
         OneOpen
  PROVE  OneOpen'
<1>1. OpenActivities' = OpenIn(history', buffered')
  BY DEF OpenActivities, OpenIn, ActivityIds, ScheduledIn
<1>2. OpenActivities' \subseteq OpenActivities
  BY <1>1, OpenIs DEF OpenIn
<1> QED
  BY <1>2 DEF OneOpen

LEMMA RangeWithin ==
  ASSUME NEW s, IsList(s), NEW k, IsList(k),
         \A i \in 1..Len(s) : \E j \in 1..Len(k) : k[j] = s[i]
  PROVE  Range(s) \subseteq Range(k)
  BY RangeIs DEF Members

LEMMA RangeGrows ==
  ASSUME NEW h, IsList(h), NEW k, IsList(k), HasPrefix(k, h)
  PROVE  Range(h) \subseteq Range(k)
<1>1. \A i \in 1..Len(h) : i \in 1..Len(k) /\ k[i] = h[i]
  BY DEF IsList, HasPrefix
<1> QED
  BY <1>1, RangeIs DEF Members

\* u is s followed by t.
Joins(u, s, t) ==
  /\ IsList(u) /\ Len(u) = Len(s) + Len(t)
  /\ \A i \in 1..Len(s) : u[i] = s[i]
  /\ \A i \in 1..Len(t) : u[Len(s) + i] = t[i]

LEMMA ListsJoin ==
  ASSUME NEW s, NEW t, IsList(s), IsList(t), NEW u, u = s \o t
  PROVE  Joins(u, s, t)
  BY ListConcat DEF Joins

LEMMA ConcatEmpty ==
  ASSUME NEW s, IsList(s), NEW t, t = << >>
  PROVE  s \o t = s
<1>1. IsList(t) /\ Len(t) = 0 /\ Len(s) \in Nat
  BY DEF IsList
<1>2. IsList(s \o t) /\ Len(s \o t) = Len(s) + Len(t) /\ \A i \in 1..Len(s) : (s \o t)[i] = s[i]
  BY <1>1, ListConcat
<1> QED
  BY <1>1, <1>2, ListsEqual

\* A run that is known stays known while nothing is scheduled.
LEMMA KnownStays ==
  ASSUME NEW sp, sp # NoSpec => Len(sp) \in Nat, NEW g, GoodRun(sp, g), NEW h, Regular(h),
         HasPrefix(h, g), ActivityIds(h) = ActivityIds(g)
  PROVE  Known(sp, h)
<1>1. ActivityIds(h) \subseteq 1..Len(g)
  BY DEF ActivityIds
<1> QED
  BY <1>1, ReachedStays DEF GoodRun, Known

LEMMA SameActivities ==
  ASSUME NEW g, IsList(g), NEW h, IsList(h), HasPrefix(h, g),
         \A i \in (Len(g) + 1)..Len(h) : h[i].type # "ActivityScheduled"
  PROVE  ActivityIds(h) = ActivityIds(g)
  BY DEF ActivityIds, HasPrefix, IsList

LEMMA OutsideRuns ==
  ASSUME Steady, HistoryInv, RunInv, spec # NoSpec => Len(spec) \in Nat, spec' = spec,
         SomeSignalArrives \/ SomeActivityEnds
  PROVE  RunInv' /\ ActivityIds(history') = ActivityIds(history)
<1> DEFINE whole == history \o buffered
<1>1. PICK e : /\ e.type \in {"Signaled", "ActivityCompleted", "ActivityTimedOut"}
               /\ e.type = "ActivityCompleted" => e.ref \in OpenActivities
               /\ Record(e)
  BY OutsideEvents
<1>2. ~ Closed /\ Regular(whole) /\ GoodRun(spec, history)
  BY <1>1, RunIsRegular DEF Record, RunInv
<1>3. /\ IsList(whole) /\ IsList(history) /\ IsList(buffered)
      /\ Len(history) \in Nat /\ Len(buffered) \in Nat
      /\ Len(whole) = Len(history) + Len(buffered)
      /\ HasPrefix(whole, history)
      /\ \A i \in 1..Len(history) : whole[i] = history[i]
      /\ \A i \in 1..Len(buffered) : whole[Len(history) + i] = buffered[i]
  BY WholeIs
<1>4. e.type = "ActivityCompleted" => e.ref \in ActivityIds(history) /\ ~ Ended(whole, e.ref)
  BY <1>1, OpenHasNotEnded
<1> HIDE DEF whole
<1>5. CASE wft = "started"
  <2>1. history' = history /\ buffered' = Append(buffered, e)
    BY <1>1, <1>5 DEF Record
  <2> DEFINE k == history \o Append(buffered, e)
  <2>2. /\ IsList(Append(buffered, e)) /\ Len(Append(buffered, e)) = Len(buffered) + 1
        /\ \A i \in 1..Len(buffered) : Append(buffered, e)[i] = buffered[i]
        /\ Append(buffered, e)[Len(buffered) + 1] = e
    BY <1>3, ListAppend
  <2>3. /\ IsList(k) /\ Len(k) = Len(history) + Len(buffered) + 1
        /\ \A i \in 1..Len(history) : k[i] = history[i]
        /\ \A i \in 1..Len(buffered) + 1 : k[Len(history) + i] = Append(buffered, e)[i]
    BY <1>3, <2>2, ListConcat
  <2> HIDE DEF k
  <2>4. k[Len(k)] = e
    BY <1>3, <2>2, <2>3
  <2>5. HasPrefix(k, whole)
    <3>1. \A i \in 1..Len(whole) : k[i] = whole[i]
      <4> TAKE i \in 1..Len(whole)
      <4>1. CASE i <= Len(history)
        BY <1>3, <2>3, <4>1
      <4>2. CASE ~ (i <= Len(history))
        <5>1. i - Len(history) \in 1..Len(buffered) /\ Len(history) + (i - Len(history)) = i
              /\ i - Len(history) \in 1..Len(buffered) + 1
          BY <1>3, <4>2
        <5>2. k[Len(history) + (i - Len(history))] = Append(buffered, e)[i - Len(history)]
          BY <2>3, <5>1
        <5>3. whole[Len(history) + (i - Len(history))] = buffered[i - Len(history)]
          BY <1>3, <5>1
        <5> QED
          BY <2>2, <5>1, <5>2, <5>3
      <4> QED
        BY <4>1, <4>2
    <3> QED
      BY <1>3, <2>3, <3>1 DEF HasPrefix
  <2>6. e.type = "ActivityCompleted" => e.ref \in ActivityIds(whole)
    BY <1>3, <1>4 DEF ActivityIds
  <2>7. Regular(k)
    <3>1. Len(k) = Len(whole) + 1
      BY <1>3, <2>3
    <3>2. k[Len(k)].type \in {"Signaled", "ActivityCompleted", "ActivityTimedOut"}
      BY <1>1, <2>4
    <3>3. k[Len(k)].type = "ActivityCompleted" =>
            k[Len(k)].ref \in ActivityIds(whole) /\ ~ Ended(whole, k[Len(k)].ref)
      BY <1>4, <2>4, <2>6
    <3> QED
      BY <1>2, <2>3, <2>5, <3>1, <3>2, <3>3, RegularAppends
  <2>8. Regular(history' \o buffered') /\ Known(spec', history')
    BY <1>2, <2>1, <2>7 DEF k, GoodRun
  <2>9. OneOpen'
    <3>1. HasPrefix(buffered', buffered) /\ IsList(buffered')
      BY <1>3, <2>1, <2>2 DEF HasPrefix
    <3>2. Range(buffered) \subseteq Range(buffered')
      BY <1>3, <3>1, RangeGrows
    <3> QED
      BY <2>1, <3>2, OpenShrinks DEF RunInv
  <2> QED
    BY <2>1, <2>8, <2>9 DEF RunInv
<1>6. CASE wft # "started"
  <2>1. /\ history' = Append(history, e) /\ buffered' = buffered /\ buffered = << >>
        /\ HistoryInv' /\ HasPrefix(history', history)
    BY <1>1, <1>6, RecordKeeps DEF Record, HistoryInv, OutsideTypes, AllFates, ActivityEnds
  <2>2. whole = history
    BY <1>3, <2>1, ConcatEmpty DEF whole
  <2>3. /\ IsList(history') /\ Len(history') = Len(history) + 1
        /\ history'[Len(history')] = e
    BY <1>3, <2>1, ListAppend
  <2>4. Regular(history')
    BY <1>1, <1>2, <1>4, <2>1, <2>2, <2>3, RegularAppends
  <2>5. ActivityIds(history') = ActivityIds(history)
    <3>1. \A i \in (Len(history) + 1)..Len(history') : history'[i].type # "ActivityScheduled"
      BY <1>1, <1>3, <2>3
    <3> QED
      BY <1>3, <2>1, <2>3, <3>1, SameActivities
  <2>6. Known(spec, history')
    BY <1>2, <2>1, <2>4, <2>5, KnownStays
  <2>7. Regular(history' \o buffered')
    BY <2>1, <2>3, <2>4, ConcatEmpty
  <2>8. OneOpen'
    <3>1. Range(history) \subseteq Range(history')
      BY <1>3, <2>1, <2>3, RangeGrows
    <3> QED
      BY <2>1, <2>5, <3>1, OpenShrinks DEF RunInv
  <2> QED
    BY <2>5, <2>6, <2>7, <2>8 DEF RunInv
<1> QED
  BY <1>5, <1>6

\* What is buffered is recorded.
LEMMA FlushRuns ==
  ASSUME HistoryInv, RunInv, spec # NoSpec => Len(spec) \in Nat, spec' = spec, ~ Closed,
         history' = history \o buffered, buffered' = << >>
  PROVE  RunInv' /\ ActivityIds(history') = ActivityIds(history)
<1>1. /\ ~ Closed /\ history' = history \o buffered /\ buffered' = << >>
      /\ HasPrefix(history', history)
  BY WholeIs
<1>2. Regular(history') /\ GoodRun(spec, history)
  BY <1>1, RunIsRegular DEF RunInv
<1>3. IsList(history') /\ IsList(history)
  BY <1>2 DEF Regular, GoodRun
<1>4. ActivityIds(history') = ActivityIds(history)
  <2>1. \A i \in (Len(history) + 1)..Len(history') : history'[i].type # "ActivityScheduled"
    <3> TAKE i \in (Len(history) + 1)..Len(history')
    <3>1. i - Len(history) \in 1..Len(buffered) /\ Len(history) + (i - Len(history)) = i
      BY <1>1, WholeIs
    <3>2. history'[i].type \in OutsideTypes
      BY <1>1, <3>1, WholeIs
    <3> QED
      BY <3>2 DEF OutsideTypes, AllFates, ActivityEnds
  <2> QED
    BY <1>1, <1>3, <2>1, SameActivities
<1>5. Known(spec, history')
  BY <1>1, <1>2, <1>4, KnownStays
<1>6. Regular(history' \o buffered')
  BY <1>1, <1>2, <1>3, ConcatEmpty
<1>7. OneOpen'
  <2>1. Range(history) \cup Range(buffered) \subseteq Range(history')
    <3>2. \A i \in 1..Len(buffered) :
            Len(history) + i \in 1..Len(history') /\ history'[Len(history) + i] = buffered[i]
      BY <1>1, WholeIs
    <3>3. IsList(buffered)
      BY WholeIs
    <3>4. Range(history) \subseteq Range(history')
      BY <1>1, <1>3, RangeGrows
    <3>6. Range(buffered) \subseteq Range(history')
      <4>1. \A i \in 1..Len(buffered) : \E j \in 1..Len(history') : history'[j] = buffered[i]
        BY <3>2
      <4> QED
        BY <1>3, <3>3, <4>1, RangeWithin
    <3> QED
      BY <3>4, <3>6
  <2> QED
    BY <1>4, <2>1, OpenShrinks DEF RunInv
<1> QED
  BY <1>4, <1>5, <1>6, <1>7 DEF RunInv

LEMMA EmptyRuns ==
  ASSUME HistoryInv, RunInv, spec # NoSpec => Len(spec) \in Nat, spec' = spec, TaskEndsEmpty
  PROVE  RunInv' /\ ActivityIds(history') = ActivityIds(history)
<1>1. ~ Closed /\ history' = history \o buffered /\ buffered' = << >>
  BY DEF TaskEndsEmpty, HistoryInv
<1> QED
  BY <1>1, FlushRuns

\* The activity that a decision asks for is recorded, before what is buffered.
LEMMA SchedulingRuns ==
  ASSUME HistoryInv, RunInv, spec # NoSpec, Len(spec) \in Nat, spec' = spec, ~ Closed,
         NEW cmd, ~ IsTerminal(cmd), Replay(spec, history).ok,
         Replay(spec, history).commands = <<cmd>>,
         NEW evs, IsList(evs), Len(evs) = 1, evs[1] = ScheduledEvent(cmd),
         history' = history \o evs \o buffered, buffered' = << >>
  PROVE  RunInv' /\ ActivityIds(history') \subseteq ActivityIds(history) \cup {Len(history) + 1}
<1> DEFINE whole == history \o buffered
           h == history \o evs
           m == Len(history)
<1>1. Regular(whole) /\ GoodRun(spec, history)
  BY RunIsRegular DEF RunInv
<1>2. /\ IsList(whole) /\ IsList(history) /\ IsList(buffered)
      /\ m \in Nat /\ m >= 1 /\ Len(buffered) \in Nat
      /\ Len(whole) = m + Len(buffered)
      /\ \A i \in 1..m : whole[i] = history[i]
      /\ \A i \in 1..Len(buffered) :
           whole[m + i] = buffered[i] /\ buffered[i].type \in OutsideTypes
  BY WholeIs
<1>3. /\ IsList(h) /\ Len(h) = m + 1
      /\ \A i \in 1..m : h[i] = history[i]
      /\ h[m + 1] = ScheduledEvent(cmd)
  <2>1. Joins(h, history, evs)
    <3>1. h = history \o evs /\ IsList(history)
      BY <1>2
    <3> HIDE DEF h
    <3> QED
      BY <3>1, ListsJoin
  <2> HIDE DEF h
  <2>2. 1 \in 1..Len(evs)
    OBVIOUS
  <2> QED
    BY <2>1, <2>2 DEF Joins
<1>4. history' = h \o buffered
  OBVIOUS
<1> HIDE DEF whole, h
<1>5. /\ IsList(history') /\ Len(history') = (m + 1) + Len(buffered)
      /\ \A i \in 1..(m + 1) : history'[i] = h[i]
      /\ \A i \in 1..Len(buffered) : history'[(m + 1) + i] = buffered[i]
  <2>1. IsList(h) /\ IsList(buffered)
    BY <1>2, <1>3
  <2>2. Joins(history', h, buffered)
    BY <1>4, <2>1, ListsJoin
  <2> QED
    BY <1>3, <2>2 DEF Joins
<1>6. /\ \A i \in 1..m : history'[i] = history[i]
      /\ history'[m + 1] = ScheduledEvent(cmd)
      /\ Len(history') = Len(whole) + 1
  BY <1>2, <1>3, <1>5
<1>7. /\ ScheduledEvent(cmd).type = "ActivityScheduled"
      /\ ScheduledEvent(cmd).name = cmd.name
  BY DEF ScheduledEvent, Event
<1>8. \A i \in (m + 1)..Len(whole) :
        history'[i + 1] = whole[i] /\ whole[i].type # "ActivityScheduled"
  <2> TAKE i \in (m + 1)..Len(whole)
  <2>1. i - m \in 1..Len(buffered) /\ m + (i - m) = i /\ (m + 1) + (i - m) = i + 1
    <3>1. PICK n \in Nat : n = Len(buffered)
      BY <1>2
    <3>2. i \in (m + 1)..(m + n) /\ m \in Nat
      BY <1>2, <3>1
    <3> HIDE DEF m
    <3>3. i - m \in 1..n /\ m + (i - m) = i /\ (m + 1) + (i - m) = i + 1
      BY <3>2
    <3> QED
      BY <3>1, <3>3
  <2>2. whole[m + (i - m)] = buffered[i - m] /\ history'[(m + 1) + (i - m)] = buffered[i - m]
        /\ buffered[i - m].type \in OutsideTypes
    BY <1>2, <1>5, <2>1
  <2> QED
    BY <2>1, <2>2 DEF OutsideTypes, AllFates, ActivityEnds
<1>9. Regular(history')
  <2>1. m \in 1..Len(whole)
    BY <1>2
  <2>2. \A i \in 1..m : history'[i] = whole[i]
    BY <1>2, <1>6
  <2>3. IsList(history') /\ Len(history') = Len(whole) + 1
    BY <1>5, <1>6
  <2>4. history'[m + 1].type = "ActivityScheduled"
    BY <1>6, <1>7
  <2>5. Regular(whole)
    BY <1>1
  <2> HIDE DEF m
  <2>6. PICK k : k = history'
    OBVIOUS
  <2>7. /\ IsList(k) /\ Len(k) = Len(whole) + 1
        /\ \A i \in 1..m : k[i] = whole[i]
        /\ k[m + 1].type = "ActivityScheduled"
        /\ \A i \in (m + 1)..Len(whole) :
             k[i + 1] = whole[i] /\ whole[i].type # "ActivityScheduled"
    BY <1>8, <2>2, <2>3, <2>4, <2>6
  <2>8. Regular(k)
    BY <2>1, <2>5, <2>7, RegularInserts
  <2> QED
    BY <2>6, <2>8
<1>10. ActivityIds(history') = ActivityIds(history) \cup {m + 1}
  <2>1. \A i \in (m + 2)..Len(history') : history'[i].type # "ActivityScheduled"
    <3> TAKE i \in (m + 2)..Len(history')
    <3>1. i - 1 \in (m + 1)..Len(whole) /\ (i - 1) + 1 = i
      BY <1>2, <1>6
    <3>2. history'[(i - 1) + 1].type # "ActivityScheduled"
      BY <1>8, <3>1
    <3> QED
      BY <3>1, <3>2
  <2>2. m + 1 \in 1..Len(history') /\ 1..m \subseteq 1..Len(history') /\ m \in Nat
        /\ Len(history') \in Nat
    BY <1>2, <1>5
  <2>3. \A i \in 1..Len(history') : i \in 1..m \/ i = m + 1 \/ i \in (m + 2)..Len(history')
    BY <2>2
  <2> HIDE DEF m
  <2>4. ActivityIds(history) = {e \in 1..m : history[e].type = "ActivityScheduled"}
    BY DEF ActivityIds, m
  <2>5. ActivityIds(history') \subseteq ActivityIds(history) \cup {m + 1}
    BY <1>6, <2>1, <2>3, <2>4 DEF ActivityIds
  <2>6. ActivityIds(history) \subseteq ActivityIds(history')
    BY <1>6, <2>2, <2>4 DEF ActivityIds
  <2>7. m + 1 \in ActivityIds(history')
    BY <1>6, <1>7, <2>2 DEF ActivityIds
  <2> QED
    BY <2>5, <2>6, <2>7
<1>11. Reached(spec, history')
  <2>1. HasPrefix(history', history) /\ Len(history) < Len(history')
    BY <1>2, <1>5, <1>6 DEF HasPrefix
  <2>2. Reached(spec, history) /\ Regular(history)
    BY <1>1 DEF GoodRun, Known
  <2>3. history'[Len(history) + 1].name = cmd.name
    BY <1>6, <1>7
  <2> QED
    BY <1>9, <1>10, <2>1, <2>2, <2>3, ReachedGrows
<1>12. Regular(history' \o buffered')
  BY <1>5, <1>9, ConcatEmpty
<1>13. OneOpen'
  <2>1. GoodRun(spec, history')
    BY <1>9, <1>11 DEF GoodRun, Known
  <2>2. OpenActivities' = OpenIn(history', buffered')
    BY DEF OpenActivities, OpenIn, ActivityIds, ScheduledIn
  <2> QED
    BY <2>1, <2>2, OpenIsLast DEF OneOpen
<1> QED
  BY <1>10, <1>11, <1>12, <1>13 DEF RunInv, Known

LEMMA AnswerRuns ==
  ASSUME HistoryInv, RunInv, spec # NoSpec => Len(spec) \in Nat, spec' = spec,
         NEW commands, IsList(commands), Len(commands) <= 1, TaskCompletes(commands),
         Len(commands) = 1 /\ ~ IsTerminal(commands[1]) =>
           /\ spec # NoSpec /\ Replay(spec, history).ok
           /\ Replay(spec, history).commands = commands
  PROVE  /\ RunInv'
         /\ ActivityIds(history') \subseteq ActivityIds(history) \cup {Len(history) + 1}
         /\ \/ Len(commands) = 1 /\ ~ IsTerminal(commands[1])
            \/ ActivityIds(history') = ActivityIds(history)
<1> DEFINE evs == CommandEvents(commands)
<1>1. /\ HistoryInv' /\ HasPrefix(history', history)
      /\ Closed' => history' = history \o evs /\ Len(commands) = 1 /\ IsTerminal(commands[1])
  BY TaskCompletesKeeps
<1>2. /\ ~ Closed /\ history' = history \o evs \o buffered /\ buffered' = << >>
      /\ ~ Unacceptable(commands)
  BY DEF TaskCompletes, HistoryInv
<1>3. /\ IsList(evs) /\ Len(evs) = Len(commands)
      /\ \A i \in 1..Len(commands) :
           IF IsTerminal(commands[i]) THEN evs[i].type \in TerminalEvents
                                      ELSE evs[i] = ScheduledEvent(commands[i])
  BY CommandEventsAre
<1>4. IsList(history) /\ IsList(buffered) /\ Len(history) \in Nat /\ Len(history) >= 1
      /\ Len(commands) \in {0, 1}
  BY WholeIs DEF IsList
<1> HIDE DEF evs
<1>5. CASE Len(commands) = 0
  <2>1. IsList(<< >>) /\ Len(<< >>) = 0
    BY DEF IsList
  <2>2. evs = << >>
    BY <1>3, <1>5, <2>1, ListsEqual
  <2>3. history \o evs = history
    BY <1>4, <2>2, ConcatEmpty
  <2>4. history' = history \o buffered
    BY <1>2, <2>3
  <2> QED
    BY <1>2, <1>5, <2>4, FlushRuns
<1>6. CASE Len(commands) = 1 /\ IsTerminal(commands[1])
  <2>1. commands[1] \in Range(commands)
    BY <1>6, RangeIs DEF Members
  <2>2. buffered = << >>
    BY <1>2, <1>6, <2>1 DEF Unacceptable
  <2>3. IsList(history \o evs) /\ Len(history \o evs) = Len(history) + 1
        /\ (history \o evs)[Len(history) + 1] = evs[1]
    <3>1. /\ IsList(history \o evs) /\ Len(history \o evs) = Len(history) + Len(evs)
          /\ \A i \in 1..Len(evs) : (history \o evs)[Len(history) + i] = evs[i]
      BY <1>3, <1>4, ListConcat
    <3>2. Len(evs) = 1 /\ 1 \in 1..Len(evs)
      BY <1>3, <1>6
    <3> QED
      BY <3>1, <3>2
  <2>4. history' = history \o evs
    BY <1>2, <2>2, <2>3, ConcatEmpty
  <2>5. evs[1].type \in TerminalEvents
    BY <1>3, <1>6
  <2>6. Closed'
    BY <2>3, <2>4, <2>5 DEF Closed
  <2>7. ActivityIds(history') = ActivityIds(history)
    <3>1. \A i \in (Len(history) + 1)..Len(history') : history'[i].type # "ActivityScheduled"
      BY <1>4, <2>3, <2>4, <2>5 DEF TerminalEvents
    <3> QED
      BY <1>1, <1>4, <2>3, <2>4, <3>1, SameActivities
  <2>8. OneOpen'
    <3>1. Range(history) \subseteq Range(history')
      BY <1>1, <1>4, <2>3, <2>4, RangeGrows
    <3>2. buffered' = buffered
      BY <1>2, <2>2
    <3> QED
      BY <2>7, <3>1, <3>2, OpenShrinks DEF RunInv
  <2> QED
    BY <2>6, <2>7, <2>8 DEF RunInv
<1>7. CASE Len(commands) = 1 /\ ~ IsTerminal(commands[1])
  <2>1. commands = <<commands[1]>>
    <3>1. IsList(<<commands[1]>>) /\ Len(<<commands[1]>>) = 1 /\ <<commands[1]>>[1] = commands[1]
      BY DEF IsList
    <3> QED
      BY <1>7, <3>1, ListsEqual
  <2>2. Replay(spec, history).ok /\ Replay(spec, history).commands = <<commands[1]>>
        /\ spec # NoSpec
    BY <1>7, <2>1
  <2>3. evs[1] = ScheduledEvent(commands[1])
    BY <1>3, <1>7
  <2> QED
    BY <1>2, <1>3, <1>7, <2>2, <2>3, SchedulingRuns
<1> QED
  BY <1>4, <1>5, <1>6, <1>7

-----------------------------------------------------------------------------
(* What a step changes.                                                    *)

\* The service's part of a step.
ServerMoves ==
  \/ UNCHANGED <<history, buffered>>
  \/ TaskEndsEmpty
  \/ /\ Answering /\ task.live /\ TaskCompletes(decision.commands)
     /\ phase' \in {"answered", "idle"} /\ store' = store /\ home' = home
  \/ SomeSignalArrives
  \/ SomeActivityEnds

\* The device's part: the task in hand, the decision in hand, and the record.
TaskMoves ==
  \/ phase' = "idle"
  \/ Poll
  \/ phase # "idle" /\ task'.horizon = task.horizon

DecisionMoves ==
  Deciding' => \/ RestoreAndDecide
               \/ Deciding /\ decision' = decision /\ task'.horizon = task.horizon

RecordMoves ==
  \/ phase = "decided" /\ store' = decision.state
  \/ store' \in {NoState, CorruptState}
  \/ store' = store /\ home' \in {home, "orphan"}

UndecidedMoves ==
  phase' \in {"polled", "decided", "persisted"} =>
    \/ Poll
    \/ /\ phase \in {"polled", "decided", "persisted"} /\ task'.horizon = task.horizon
       /\ \/ UNCHANGED <<history, buffered>>
          \/ TaskEndsEmpty
          \/ SomeSignalArrives
          \/ SomeActivityEnds

PersistedMoves ==
  phase' = "persisted" /\ home' # "orphan" =>
    \/ store' = decision.state /\ decision' = decision
    \/ phase = "persisted" /\ UNCHANGED <<store, home, decision>>

LEMMA SpecStays ==
  ASSUME Steady, [Next]_vars
  PROVE  spec' = spec
  BY DEF Steady, Next, Tick, Faults, Poll, RestoreAndDecide, DecideFails, RefuseType, Persist,
     RespondAccepted, RespondRefused, ClassifyAndErase, PollReplyLost, PersistFails,
     PersistUnlisted, RespondReplyLost, RespondLost, PowerCut, Reflash, TaskTimesOut,
     SomeSignalArrives, SomeActivityEnds, Settled, deviceVars, vars

LEMMA DeviceMoves ==
  ASSUME Steady, TypeInv, [Next]_vars
  PROVE  TaskMoves /\ DecisionMoves /\ RecordMoves /\ UndecidedMoves /\ PersistedMoves
<1>1. CASE Poll
  BY <1>1 DEF Poll, record, TaskMoves, DecisionMoves, RecordMoves, UndecidedMoves,
     PersistedMoves, Deciding
<1>2. CASE RestoreAndDecide
  BY <1>2 DEF RestoreAndDecide, serverVars, record, TaskMoves, DecisionMoves, RecordMoves,
     UndecidedMoves, PersistedMoves, Deciding
<1>3. CASE DecideFails
  BY <1>3 DEF DecideFails, EndTick, record, TaskMoves, DecisionMoves, RecordMoves,
     UndecidedMoves, PersistedMoves, Deciding
<1>4. CASE RefuseType
  BY <1>4 DEF RefuseType, serverVars, record, TaskMoves, DecisionMoves, RecordMoves,
     UndecidedMoves, PersistedMoves, Deciding
<1>5. CASE Persist
  BY <1>5 DEF Persist, Saved, serverVars, record, TaskMoves, DecisionMoves, RecordMoves,
     UndecidedMoves, PersistedMoves, Deciding
<1>6. CASE RespondAccepted
  BY <1>6 DEF RespondAccepted, EndTick, record, TaskMoves, DecisionMoves, RecordMoves,
     UndecidedMoves, PersistedMoves, Deciding, Answering, TypeInv, TaskInv
<1>7. CASE RespondRefused \/ RespondReplyLost \/ RespondLost
  BY <1>7 DEF RespondRefused, RespondReplyLost, RespondLost, EndTick, record, TaskMoves,
     DecisionMoves, RecordMoves, UndecidedMoves, PersistedMoves, Deciding
<1>8. CASE ClassifyAndErase
  BY <1>8 DEF ClassifyAndErase, Erased, EndTick, record, TaskMoves, DecisionMoves,
     RecordMoves, UndecidedMoves, PersistedMoves, Deciding
<1>9. CASE PollReplyLost
  BY <1>9 DEF PollReplyLost, record, TaskMoves, DecisionMoves, RecordMoves,
     UndecidedMoves, PersistedMoves, Deciding
<1>10. CASE PersistFails
  BY <1>10 DEF PersistFails, HalfSaved, EndTick, record, TaskMoves, DecisionMoves,
     RecordMoves, UndecidedMoves, PersistedMoves, Deciding
<1>11. CASE PersistUnlisted
  BY <1>11 DEF PersistUnlisted, serverVars, record, TaskMoves, DecisionMoves, RecordMoves,
     UndecidedMoves, PersistedMoves, Deciding
<1>12. CASE PowerCut \/ Reflash
  BY <1>12 DEF PowerCut, Reflash, Rebooted, EndTick, TaskMoves, DecisionMoves, RecordMoves,
     UndecidedMoves, PersistedMoves, Deciding
<1>13. CASE TaskTimesOut
  BY <1>13 DEF TaskTimesOut, record, TaskMoves, DecisionMoves, RecordMoves,
     UndecidedMoves, PersistedMoves, Deciding, TypeInv, TaskInv
<1>14. CASE SomeSignalArrives \/ SomeActivityEnds
  BY <1>14 DEF SomeSignalArrives, SomeActivityEnds, deviceVars, record, TaskMoves,
     DecisionMoves, RecordMoves, UndecidedMoves, PersistedMoves, Deciding
<1>15. CASE UNCHANGED vars
  BY <1>15 DEF vars, record, TaskMoves, DecisionMoves, RecordMoves, UndecidedMoves,
     PersistedMoves, Deciding
<1> QED
  BY <1>1, <1>2, <1>3, <1>4, <1>5, <1>6, <1>7, <1>8, <1>9, <1>10, <1>11, <1>12, <1>13, <1>14,
     <1>15 DEF Next, Tick, Faults, Settled

LEMMA ServiceMoves ==
  ASSUME TypeInv, [Next]_vars
  PROVE  ServerMoves
<1>1. CASE Poll \/ RestoreAndDecide \/ DecideFails \/ RefuseType \/ Persist \/ ClassifyAndErase
  BY <1>1 DEF Poll, RestoreAndDecide, DecideFails, RefuseType, Persist, ClassifyAndErase,
     serverVars, ServerMoves
<1>2. CASE RespondAccepted
  BY <1>2 DEF RespondAccepted, EndTick, record, ServerMoves
<1>3. CASE RespondReplyLost
  BY <1>3 DEF RespondReplyLost, EndTick, record, ServerMoves
<1>4. CASE RespondRefused \/ RespondLost
  BY <1>4 DEF RespondRefused, RespondLost, serverVars, ServerMoves
<1>5. CASE PollReplyLost \/ PersistFails \/ PersistUnlisted \/ PowerCut \/ Reflash
  BY <1>5 DEF PollReplyLost, PersistFails, PersistUnlisted, PowerCut, Reflash, serverVars,
     ServerMoves
<1>6. CASE TaskTimesOut \/ SomeSignalArrives \/ SomeActivityEnds
  BY <1>6 DEF TaskTimesOut, ServerMoves
<1>7. CASE UNCHANGED vars
  BY <1>7 DEF vars, ServerMoves
<1> QED
  BY <1>1, <1>2, <1>3, <1>4, <1>5, <1>6, <1>7 DEF Next, Tick, Faults, Settled

-----------------------------------------------------------------------------
(* The invariant.                                                          *)

\* s is what a replay of the history up to its watermark saves.
SavedFrom(sp, h, s) ==
  /\ s.watermark \in 1..Len(h)
  /\ GoodRun(sp, SubSeq(h, 1, s.watermark))
  /\ Replay(sp, SubSeq(h, 1, s.watermark)).ok
  /\ s = Replay(sp, SubSeq(h, 1, s.watermark)).state

\* What the device holds, it could have replayed.
DeviceInv ==
  /\ ~ Absent => spec # NoSpec /\ SavedFrom(spec, history, store)
  /\ phase # "idle" => GoodRun(spec, Delivered)
  /\ Deciding => decision.ok /\ decision = Replay(spec, Delivered)

OneAfter(h, n) == \A e, x \in ActivityIds(h) : e > n /\ x > n => e = x

\* The service is one activity ahead of what is saved, at most; and none as long as
\* the device has not answered.
AheadInv ==
  /\ ~ Absent /\ home # "orphan" => OneAfter(history, store.watermark)
  /\ phase \in {"polled", "decided", "persisted"} =>
       ActivityIds(history) \subseteq 1..task.horizon
  /\ phase = "persisted" /\ home # "orphan" => store = decision.state

ResumeInv == RunInv /\ DeviceInv /\ AheadInv

LEMMA PrefixStays ==
  ASSUME NEW h, IsList(h), NEW k, IsList(k), HasPrefix(k, h), NEW n \in 0..Len(h)
  PROVE  SubSeq(k, 1, n) = SubSeq(h, 1, n)
<1>1. n \in 0..Len(k) /\ \A i \in 1..n : k[i] = h[i]
  BY DEF IsList, HasPrefix
<1>2. /\ IsList(SubSeq(h, 1, n)) /\ Len(SubSeq(h, 1, n)) = n
      /\ \A i \in 1..n : SubSeq(h, 1, n)[i] = h[i]
  BY ListSub
<1>3. /\ IsList(SubSeq(k, 1, n)) /\ Len(SubSeq(k, 1, n)) = n
      /\ \A i \in 1..n : SubSeq(k, 1, n)[i] = k[i]
  BY <1>1, ListSub
<1> QED
  BY <1>1, <1>2, <1>3, ListsEqual

LEMMA SavedStays ==
  ASSUME NEW h, IsList(h), NEW k, IsList(k), HasPrefix(k, h), NEW sp, NEW s, SavedFrom(sp, h, s)
  PROVE  SavedFrom(sp, k, s)
<1>1. s.watermark \in 0..Len(h) /\ s.watermark \in 1..Len(k)
  BY DEF SavedFrom, IsList, HasPrefix
<1>2. SubSeq(k, 1, s.watermark) = SubSeq(h, 1, s.watermark)
  BY <1>1, PrefixStays
<1> QED
  BY <1>1, <1>2 DEF SavedFrom

LEMMA WholeSub ==
  ASSUME NEW h, IsList(h)
  PROVE  SubSeq(h, 1, Len(h)) = h
<1>1. Len(h) \in 0..Len(h)
  BY DEF IsList
<1>2. /\ IsList(SubSeq(h, 1, Len(h))) /\ Len(SubSeq(h, 1, Len(h))) = Len(h)
      /\ \A i \in 1..Len(h) : SubSeq(h, 1, Len(h))[i] = h[i]
  BY <1>1, ListSub
<1> QED
  BY <1>2, ListsEqual

\* The decision in hand is about to be saved as what a replay would save.
LEMMA DecisionIsSaved ==
  ASSUME TypeInv, DeviceInv, Deciding
  PROVE  /\ spec # NoSpec /\ SavedFrom(spec, history, decision.state)
         /\ decision.state.watermark = task.horizon
<1> DEFINE g == Delivered
<1>1. /\ spec # NoSpec /\ Len(spec) \in Nat /\ phase # "idle"
      /\ decision.ok /\ decision = Replay(spec, g) /\ GoodRun(spec, g)
  BY SpecIsList DEF DeviceInv, Deciding, TypeInv, StateInv
<1>2. Len(g) = task.horizon /\ g = SubSeq(history, 1, task.horizon)
  BY DeliveredIs DEF Delivered
<1>3. task.horizon \in 1..Len(history)
  <2>1. Len(g) >= 1 /\ Len(g) \in Nat
    BY <1>1 DEF GoodRun, Regular, IsList
  <2> HIDE DEF g
  <2> QED
    BY <1>2, <2>1 DEF TypeInv, TaskInv
<1> HIDE DEF g
<1>4. decision.state.watermark = Len(g)
  <2>1. Regular(g) /\ Replay(spec, g).ok
    BY <1>1 DEF GoodRun
  <2>2. PICK w, p : SavedOf(w[p], g, Replay(spec, g).state)
    BY <1>1, <2>1, ReplayStops
  <2> QED
    BY <1>1, <2>2 DEF SavedOf
<1> QED
  BY <1>1, <1>2, <1>3, <1>4 DEF SavedFrom

\* Deciding from the record is replaying.
LEMMA DecidesAsReplay ==
  ASSUME Steady, TypeInv, DeviceInv, phase = "polled", spec # NoSpec,
         Decide(spec, Delivered).ok
  PROVE  Decide(spec, Delivered) = Replay(spec, Delivered)
<1> DEFINE h == Delivered
<1>1. Len(spec) \in Nat /\ WellScoped(spec)
  BY SpecIsList DEF Steady, TypeInv, StateInv
<1>2. CASE Absent
  BY <1>2 DEF Decide
<1>3. CASE ~ Absent
  <2> DEFINE g == SubSeq(history, 1, store.watermark)
  <2>1. Decide(spec, h) = Resume(spec, h, store)
    BY <1>3 DEF Decide
  <2>2. Decide(spec, h) = DecideFrom(spec, h, store)
    BY <2>1 DEF Resume, Failure
  <2>3. /\ store.watermark \in 1..Len(history) /\ GoodRun(spec, g) /\ Replay(spec, g).ok
        /\ store = Replay(spec, g).state
    BY <1>3 DEF DeviceInv, SavedFrom
  <2>4. GoodRun(spec, h) /\ Len(h) = task.horizon /\ IsList(h) /\ HasPrefix(history, h)
    BY DeliveredIs DEF DeviceInv
  <2>5. store.watermark <= task.horizon
    BY <1>3 DEF TypeInv, StateInv
  <2>6. HasPrefix(h, g)
    <3>1. IsList(history) /\ store.watermark \in 0..Len(history)
      BY <2>3 DEF TypeInv, HistoryInv
    <3>2. Len(g) = store.watermark /\ \A i \in 1..store.watermark : g[i] = history[i]
      BY <3>1, ListSub
    <3> HIDE DEF g, h
    <3> QED
      BY <2>3, <2>4, <2>5, <3>2 DEF HasPrefix, IsList
  <2> HIDE DEF g, h
  <2>7. /\ Regular(g) /\ Reached(spec, g) /\ Regular(h)
    BY <2>3, <2>4 DEF GoodRun, Known
  <2>8. DecideFrom(spec, h, store) = Replay(spec, h)
    BY <1>1, <2>3, <2>6, <2>7, ResumeIsReplay
  <2> QED
    BY <2>2, <2>8 DEF h
<1> QED
  BY <1>2, <1>3

LEMMA RunMoves ==
  ASSUME Steady, TypeInv, ResumeInv, [Next]_vars
  PROVE  /\ RunInv' /\ HasPrefix(history', history) /\ IsList(history') /\ IsList(history)
         /\ \/ ActivityIds(history') = ActivityIds(history)
            \/ /\ phase = "persisted" /\ task.live /\ phase' \in {"answered", "idle"}
               /\ store' = store /\ home' = home
               /\ ActivityIds(history') \subseteq ActivityIds(history) \cup {Len(history) + 1}
<1>1. HistoryInv /\ RunInv /\ DeviceInv /\ spec' = spec /\ ServerMoves
      /\ (spec # NoSpec => Len(spec) \in Nat)
  BY SpecStays, ServiceMoves, SpecIsList DEF TypeInv, ResumeInv
<1>2. IsList(history) /\ IsList(history') /\ Len(history) \in Nat
  BY NextTypes DEF TypeInv, HistoryInv, IsList
<1>3. CASE UNCHANGED <<history, buffered>>
  <2>1. RunInv'
    BY <1>1, <1>3 DEF RunInv, Closed, OneOpen, OpenActivities, ScheduledIn
  <2> QED
    BY <1>2, <1>3, <2>1, PrefixRefl
<1>4. CASE TaskEndsEmpty
  BY <1>1, <1>2, <1>4, EmptyRuns, TaskEndsEmptyKeeps
<1>5. CASE SomeSignalArrives \/ SomeActivityEnds
  <2>1. RunInv' /\ ActivityIds(history') = ActivityIds(history)
    BY <1>1, <1>5, OutsideRuns
  <2>2. HasPrefix(history', history)
    BY <1>1, <1>5, OutsideRecords, RecordKeeps
  <2> QED
    BY <1>2, <2>1, <2>2
<1>6. CASE /\ Answering /\ task.live /\ TaskCompletes(decision.commands)
           /\ phase' \in {"answered", "idle"} /\ store' = store /\ home' = home
  <2> DEFINE commands == decision.commands
  <2>1. IsList(commands) /\ Len(commands) <= 1
    BY <1>6, AnswerIsList
  <2>2. Len(commands) = 1 /\ ~ IsTerminal(commands[1]) =>
          /\ phase = "persisted" /\ spec # NoSpec /\ Replay(spec, history).ok
          /\ Replay(spec, history).commands = commands
    <3>1. CASE phase = "persisted"
      <4>1. spec # NoSpec /\ decision.ok /\ decision = Replay(spec, Delivered)
        BY <1>1, <3>1 DEF DeviceInv, Deciding, TypeInv, StateInv
      <4>2. Delivered = history
        BY <1>2, <1>6, WholeSub DEF Delivered, TypeInv, TaskInv
      <4> QED
        BY <3>1, <4>1, <4>2
    <3>2. CASE phase = "unregistered"
      <4>1. commands = <<FailWorkflow>>
        BY <3>2 DEF TypeInv, StateInv
      <4>2. IsTerminal(FailWorkflow)
        BY DEF IsTerminal, FailWorkflow, Command
      <4>3. <<FailWorkflow>>[1] = FailWorkflow
        OBVIOUS
      <4> QED
        BY <4>1, <4>2, <4>3
    <3> QED
      BY <1>6, <3>1, <3>2 DEF Answering
  <2> HIDE DEF commands
  <2>3. TaskCompletes(commands)
    BY <1>6 DEF commands
  <2>4. /\ RunInv'
        /\ ActivityIds(history') \subseteq ActivityIds(history) \cup {Len(history) + 1}
        /\ \/ Len(commands) = 1 /\ ~ IsTerminal(commands[1])
           \/ ActivityIds(history') = ActivityIds(history)
    BY <1>1, <2>1, <2>2, <2>3, AnswerRuns
  <2>5. HasPrefix(history', history)
    BY <1>1, <2>1, <2>3, TaskCompletesKeeps
  <2> QED
    BY <1>2, <1>6, <2>2, <2>4, <2>5
<1> QED
  BY <1>1, <1>3, <1>4, <1>5, <1>6 DEF ServerMoves

LEMMA InitResumes ==
  ASSUME Init
  PROVE  ResumeInv
<1>1. PICK v \in Inputs : history = <<StartedEvent(v)>>
  BY DEF Init, RunInit
<1>2. /\ IsList(history) /\ Len(history) = 1 /\ history[1].type = "Started"
  BY <1>1 DEF IsList, StartedEvent, Event
<1>3. TypeInv
  BY InitTypes
<1>4. Regular(history) /\ ActivityIds(history) = {}
  BY <1>2 DEF Regular, NeverClosed, TerminalEvents, ActivityIds
<1>5. history \o buffered = history
  BY <1>2, ConcatEmpty DEF Init, RunInit
<1>6. Known(spec, history)
  BY <1>2, <1>3, <1>4, SpecIsList, ReachedAtStart DEF Known
<1>7. OneOpen
  BY <1>4 DEF OneOpen, OpenActivities, ScheduledIn, ActivityIds
<1>8. RunInv
  BY <1>4, <1>5, <1>6, <1>7 DEF RunInv
<1>9. DeviceInv /\ AheadInv
  BY DEF Init, DeviceInv, AheadInv, Absent, Deciding
<1> QED
  BY <1>8, <1>9 DEF ResumeInv

LEMMA DeviceStays ==
  ASSUME Steady, TypeInv, ResumeInv, [Next]_vars
  PROVE  DeviceInv'
<1>1. /\ spec' = spec /\ DeviceInv /\ RunInv /\ TypeInv' /\ HistoryInv
      /\ TaskMoves /\ DecisionMoves /\ RecordMoves
  BY SpecStays, DeviceMoves, NextTypes DEF ResumeInv, TypeInv
<1>2. IsList(history) /\ IsList(history') /\ HasPrefix(history', history)
  BY RunMoves
<1>3. task'.horizon = task.horizon => Delivered' = Delivered
  <2> SUFFICES ASSUME task'.horizon = task.horizon PROVE Delivered' = Delivered
    OBVIOUS
  <2>1. task.horizon \in 0..Len(history)
    BY DEF TypeInv, TaskInv
  <2> QED
    BY <1>2, <2>1, PrefixStays DEF Delivered
<1>4. ~ Absent' => spec' # NoSpec /\ SavedFrom(spec', history', store')
  <2> SUFFICES ASSUME ~ Absent' PROVE spec # NoSpec /\ SavedFrom(spec, history', store')
    BY <1>1
  <2>1. spec # NoSpec /\ SavedFrom(spec, history, store')
    <3>1. CASE phase = "decided" /\ store' = decision.state
      <4>1. Deciding
        BY <3>1 DEF Deciding
      <4> QED
        BY <1>1, <3>1, <4>1, DecisionIsSaved
    <3>2. CASE store' = store
      BY <1>1, <3>2 DEF DeviceInv, Absent
    <3> QED
      BY <1>1, <3>1, <3>2 DEF RecordMoves, Absent
  <2> QED
    BY <1>2, <2>1, SavedStays
<1>5. phase' # "idle" => GoodRun(spec', Delivered')
  <2>1. CASE Poll
    <3>1. task'.horizon = Len(history) /\ history' = history /\ wft = "scheduled"
      BY <2>1 DEF Poll
    <3>2. Delivered' = history
      BY <1>2, <3>1, WholeSub DEF Delivered
    <3>3. ~ Closed
      BY <1>1, <3>1 DEF HistoryInv
    <3> QED
      BY <1>1, <3>2, <3>3, RunIsRegular
  <2>2. CASE phase # "idle" /\ task'.horizon = task.horizon
    BY <1>1, <1>3, <2>2 DEF DeviceInv
  <2> QED
    BY <1>1, <2>1, <2>2 DEF TaskMoves
<1>6. Deciding' => decision'.ok /\ decision' = Replay(spec', Delivered')
  <2>1. CASE RestoreAndDecide
    <3>1. /\ phase = "polled" /\ spec # NoSpec /\ Decide(spec, Delivered).ok
          /\ decision' = Decide(spec, Delivered) /\ task' = task
      BY <2>1 DEF RestoreAndDecide
    <3>2. Decide(spec, Delivered) = Replay(spec, Delivered)
      BY <1>1, <3>1, DecidesAsReplay
    <3>3. Delivered' = Delivered
      BY <1>3, <3>1
    <3> QED
      BY <1>1, <3>1, <3>2, <3>3
  <2>2. CASE Deciding /\ decision' = decision /\ task'.horizon = task.horizon
    BY <1>1, <1>3, <2>2 DEF DeviceInv
  <2> QED
    BY <1>1, <2>1, <2>2 DEF DecisionMoves
<1> QED
  BY <1>4, <1>5, <1>6 DEF DeviceInv

LEMMA AheadStays ==
  ASSUME Steady, TypeInv, ResumeInv, [Next]_vars
  PROVE  AheadInv'
<1>1. /\ DeviceInv /\ AheadInv /\ RecordMoves /\ UndecidedMoves /\ PersistedMoves
  BY DeviceMoves DEF ResumeInv
<1>2. /\ IsList(history) /\ Len(history) \in Nat
      /\ \/ ActivityIds(history') = ActivityIds(history)
         \/ /\ phase = "persisted" /\ task.live /\ phase' \in {"answered", "idle"}
            /\ store' = store /\ home' = home
            /\ ActivityIds(history') \subseteq ActivityIds(history) \cup {Len(history) + 1}
  BY RunMoves DEF IsList
<1>3. ActivityIds(history) \subseteq 1..Len(history)
  BY DEF ActivityIds
<1>4. ~ Absent' /\ home' # "orphan" => OneAfter(history', store'.watermark)
  <2> SUFFICES ASSUME ~ Absent', home' # "orphan"
               PROVE  OneAfter(history', store'.watermark)
    OBVIOUS
  <2>1. CASE phase = "decided" /\ store' = decision.state
    <3>1. Deciding
      BY <2>1 DEF Deciding
    <3>2. store'.watermark = task.horizon
      BY <1>1, <2>1, <3>1, DecisionIsSaved
    <3>3. ActivityIds(history') = ActivityIds(history)
      BY <1>2, <2>1
    <3>4. ActivityIds(history') \subseteq 1..task.horizon
      BY <1>1, <2>1, <3>3 DEF AheadInv
    <3>5. task.horizon \in Nat
      BY <1>2 DEF TypeInv, TaskInv
    <3> QED
      BY <3>2, <3>4, <3>5 DEF OneAfter
  <2>2. CASE store' = store /\ home' = home
    <3>1. OneAfter(history, store.watermark)
      BY <1>1, <2>2 DEF AheadInv, Absent
    <3>2. CASE ActivityIds(history') = ActivityIds(history)
      BY <2>2, <3>1, <3>2 DEF OneAfter
    <3>3. CASE /\ phase = "persisted" /\ task.live
               /\ ActivityIds(history') \subseteq ActivityIds(history) \cup {Len(history) + 1}
      <4>1. Deciding /\ store = decision.state
        BY <1>1, <2>2, <3>3 DEF Deciding, AheadInv
      <4>2. store.watermark = task.horizon
        BY <1>1, <4>1, DecisionIsSaved
      <4>3. task.horizon = Len(history)
        BY <3>3 DEF TypeInv, TaskInv
      <4> QED
        BY <1>2, <1>3, <2>2, <3>3, <4>2, <4>3 DEF OneAfter
    <3> QED
      BY <1>2, <3>2, <3>3
  <2> QED
    BY <1>1, <2>1, <2>2 DEF RecordMoves, Absent
<1>5. phase' \in {"polled", "decided", "persisted"} => ActivityIds(history') \subseteq 1..task'.horizon
  <2> SUFFICES ASSUME phase' \in {"polled", "decided", "persisted"}
               PROVE  ActivityIds(history') \subseteq 1..task'.horizon
    OBVIOUS
  <2>1. ActivityIds(history') = ActivityIds(history)
    BY <1>2
  <2>2. CASE Poll
    BY <1>3, <2>1, <2>2 DEF Poll
  <2>3. CASE phase \in {"polled", "decided", "persisted"} /\ task'.horizon = task.horizon
    BY <1>1, <2>1, <2>3 DEF AheadInv
  <2> QED
    BY <1>1, <2>2, <2>3 DEF UndecidedMoves
<1>6. phase' = "persisted" /\ home' # "orphan" => store' = decision'.state
  BY <1>1 DEF PersistedMoves, AheadInv
<1> QED
  BY <1>4, <1>5, <1>6 DEF AheadInv

LEMMA ResumeStays ==
  ASSUME Steady, TypeInv, ResumeInv, [Next]_vars
  PROVE  ResumeInv'
  BY RunMoves, DeviceStays, AheadStays DEF ResumeInv

LEMMA SpecResumes ==
  ASSUME Steady
  PROVE  Spec => [](TypeInv /\ ResumeInv)
<1>1. Init => TypeInv /\ ResumeInv
  BY InitTypes, InitResumes
<1>2. TypeInv /\ ResumeInv /\ [Next]_vars => (TypeInv /\ ResumeInv)'
  BY NextTypes, ResumeStays
<1> QED
  BY <1>1, <1>2, PTL DEF Spec

-----------------------------------------------------------------------------
(* What the device and the service promise each other.                     *)

LEMMA AtMostOne ==
  ASSUME NEW S, \A e, x \in S : e = x
  PROVE  IsFiniteSet(S) /\ Cardinality(S) <= 1 /\ Cardinality(S) \in Nat
<1>1. CASE S = {}
  BY <1>1, FS_EmptySet
<1>2. CASE S # {}
  <2>1. PICK e : e \in S
    BY <1>2
  <2>2. S = {e}
    BY <2>1
  <2>3. IsFiniteSet({e}) /\ Cardinality({e}) = 1
    BY FS_Singleton
  <2> QED
    BY <2>2, <2>3
<1> QED
  BY <1>1, <1>2

\* Of a firmware that stays, whose specs refer backwards only, and of activities that
\* do not fail: a device that resumes from its saved state decides what it would
\* decide by replaying the delivered history from nothing, whatever was lost, torn,
\* refused or decided twice before.
THEOREM ResumingIsReplaying ==
  ASSUME Steady
  PROVE  Spec => []ResumeMatchesReplay
<1>1. ResumeInv => ResumeMatchesReplay
  BY DEF ResumeInv, DeviceInv, Deciding, ResumeMatchesReplay
<1> QED
  BY <1>1, SpecResumes, PTL

\* Under the same hypotheses: an activity is scheduled only when no other is open.
THEOREM ActivitiesTakeTurns ==
  ASSUME Steady
  PROVE  Spec => []OneActivityAtATime
<1>1. ResumeInv => OneActivityAtATime
  BY AtMostOne DEF ResumeInv, RunInv, OneOpen, OneActivityAtATime
<1> QED
  BY <1>1, SpecResumes, PTL

LEMMA SavedCovers ==
  ASSUME TypeInv, ResumeInv
  PROVE  SavedStateCoversHistory
<1> SUFFICES ASSUME ~ Absent PROVE
      /\ store.nextSeq = 1 + Cardinality(ScheduledIn(SubSeq(history, 1, store.watermark)))
      /\ home # "orphan" => Cardinality(ScheduledIn(history)) <= store.nextSeq
  BY DEF SavedStateCoversHistory
<1> DEFINE n == store.watermark
           g == SubSeq(history, 1, n)
           A == ActivityIds(g)
           B == {e \in ActivityIds(history) : e > n}
<1>1. /\ IsList(history) /\ spec # NoSpec /\ Len(spec) \in Nat /\ n \in 1..Len(history)
      /\ GoodRun(spec, g) /\ Replay(spec, g).ok /\ store = Replay(spec, g).state
  BY SpecIsList DEF ResumeInv, DeviceInv, SavedFrom, TypeInv, HistoryInv
<1>2. Len(history) \in Nat /\ n \in Nat /\ n \in 0..Len(history)
  BY <1>1 DEF IsList
<1>3. Len(g) = n /\ \A i \in 1..n : g[i] = history[i]
  BY <1>1, <1>2, ListSub
<1>4. ScheduledIn(history) = ActivityIds(history) /\ ScheduledIn(g) = A
  BY DEF ScheduledIn, ActivityIds
<1> HIDE DEF g
<1>5. IsFiniteSet(A) /\ Cardinality(A) \in Nat
  <2>1. A \subseteq 1..n
    BY <1>3 DEF ActivityIds
  <2>2. IsFiniteSet(1..n)
    BY <1>2, FS_Interval
  <2> QED
    BY <2>1, <2>2, FS_Subset, FS_CardinalityType
<1>6. store.nextSeq = 1 + Cardinality(A)
  BY <1>1, DecisionCounts DEF GoodRun, Known
<1>7. ASSUME home # "orphan" PROVE Cardinality(ActivityIds(history)) <= store.nextSeq
  <2>1. \A e, x \in B : e = x
    BY <1>7 DEF ResumeInv, AheadInv, OneAfter
  <2>2. IsFiniteSet(B) /\ Cardinality(B) <= 1 /\ Cardinality(B) \in Nat
    BY <2>1, AtMostOne
  <2>3. ActivityIds(history) \subseteq A \cup B
    BY <1>2, <1>3 DEF ActivityIds
  <2> HIDE DEF A, B
  <2>4. /\ IsFiniteSet(A \cup B)
        /\ Cardinality(A \cup B) = Cardinality(A) + Cardinality(B) - Cardinality(A \cap B)
    BY <1>5, <2>2, FS_Union
  <2>5. Cardinality(A \cap B) \in Nat
    BY <1>5, FS_Intersection, FS_CardinalityType
  <2>6. Cardinality(ActivityIds(history)) <= Cardinality(A \cup B)
        /\ Cardinality(ActivityIds(history)) \in Nat
    BY <2>3, <2>4, FS_Subset, FS_CardinalityType
  <2> QED
    BY <1>5, <1>6, <2>2, <2>4, <2>5, <2>6
<1> QED
  BY <1>4, <1>6, <1>7 DEF g

\* Under the same hypotheses: a saved state has counted exactly the activities that
\* were scheduled up to its watermark, and unless it is an orphan the service has
\* scheduled at most one more (save before answer, workflow_loop.cpp:205-217).
THEOREM SavingComesFirst ==
  ASSUME Steady
  PROVE  Spec => []SavedStateCoversHistory
<1>1. TypeInv /\ ResumeInv => SavedStateCoversHistory
  BY SavedCovers
<1> QED
  BY <1>1, SpecResumes, PTL

-----------------------------------------------------------------------------
(* What is decided is what is owed.                                        *)

\* The parser accepts a wait whose alias is the id of a later step.
Named == \A s \in Specs \ {NoSpec} : WellNamed(s)

LEMMA DecidesWhatIsOwed ==
  ASSUME Steady, Named, TypeInv, ResumeInv, Deciding
  PROVE  decision.commands = OwedCommands(spec, Delivered)
<1>1. decision.ok /\ decision = Replay(spec, Delivered)
  BY DEF ResumeInv, DeviceInv
<1>2. phase # "idle" /\ spec # NoSpec /\ spec \in Specs
  BY DEF Deciding, Steady, TypeInv, StateInv
<1>3. GoodRun(spec, Delivered)
  BY <1>2 DEF ResumeInv, DeviceInv
<1>4. Len(spec) \in Nat /\ Accepted(spec) /\ WellNamed(spec) /\ WellScoped(spec)
  BY <1>2, SpecIsList, SpecsAssumption DEF Steady, Named
<1> QED
  BY <1>1, <1>3, <1>4, ReplayIsOwed DEF GoodRun

\* Under the same hypotheses, and no alias of a signal being the id of a later step:
\* what the device is about to answer is the command the delivered history is owed,
\* the right next activity with the right number and argument, or the right result.
THEOREM DecisionsAreOwed ==
  ASSUME Steady, Named
  PROVE  Spec => []DecisionIsOwed
<1>1. TypeInv /\ ResumeInv => DecisionIsOwed
  BY DecidesWhatIsOwed DEF DecisionIsOwed, Deciding
<1> QED
  BY <1>1, SpecResumes, PTL

-----------------------------------------------------------------------------
(* The abstract run is defined over the same reference: what it reads of a *)
(* history, and what it is owed, is what the module's own operators say.   *)

LEMMA OwedInOrder ==
  ASSUME NEW S, NEW n \in Nat
  PROVE  Owed!InOrder(S, n) = InOrder(S, n)
<1>1. PICK ids : IsIdList(ids, S, n) /\ InOrder(S, n) = ids[n]
  BY InOrderIsList
<1> DEFINE same == CHOOSE f : IsIdList(f, S, n)
<1>2. IsIdList(same, S, n)
  BY IdListExists
<1>3. Owed!InOrder(S, n) = same[n]
  BY DEF Owed!InOrder, IsIdList, IdsUpTo
<1> HIDE DEF same
<1>4. same[n] = ids[n]
  <2>1. \A k \in 0..n : same[k] = ids[k]
    BY <1>1, <1>2, IdListsAgree
  <2> QED
    BY <2>1
<1> QED
  BY <1>1, <1>3, <1>4

LEMMA OwedCardinality == \A S : Owed!Cardinality(S) = Cardinality(S)
  BY DEF Owed!Cardinality, Cardinality

LEMMA OwedMax == \A S : Owed!Max(S) = Max(S)
  BY DEF Owed!Max, Max

LEMMA OwedReads ==
  ASSUME NEW h, Len(h) \in Nat
  PROVE  /\ Owed!ScheduledIds(h) = ScheduledIds(h)
         /\ \A name : Owed!SignalsNamed(h, name) = SignalsNamed(h, name)
         /\ \A k : Owed!EndsOf(h, k) = EndsOf(h, k)
         /\ \A val : Owed!Payload(val) = Payload(val)
<1>1. Owed!ScheduledIds(h) = ScheduledIds(h)
  BY OwedInOrder DEF Owed!ScheduledIds, ScheduledIds
<1>2. \A name : Owed!SignalsNamed(h, name) = SignalsNamed(h, name)
  BY OwedInOrder DEF Owed!SignalsNamed, SignalsNamed, Owed!SignalIds, SignalIds
<1>3. \A k : Owed!EndsOf(h, k) = EndsOf(h, k)
  BY <1>1 DEF Owed!EndsOf, EndsOf, Owed!ActivityEnds, ActivityEnds
<1>4. \A val : Owed!Payload(val) = Payload(val)
  BY DEF Owed!Payload, Payload
<1> QED
  BY <1>1, <1>2, <1>3, <1>4

LEMMA OwedSteps ==
  ASSUME NEW sp, NEW h, Len(h) \in Nat, NEW run, NEW i
  PROVE  /\ \A j : Owed!IsBinding(sp[j]) <=> IsBinding(sp[j])
         /\ \A j, key : Owed!Binds(sp[j], key) <=> Binds(sp[j], key)
         /\ Owed!RankOf(sp, run, i) = RankOf(sp, run, i)
         /\ Owed!StepValue(sp, h, run, i) = StepValue(sp, h, run, i)
<1>1. \A j : Owed!IsBinding(sp[j]) <=> IsBinding(sp[j])
  BY DEF Owed!IsBinding, IsBinding
<1>2. \A j, key : Owed!Binds(sp[j], key) <=> Binds(sp[j], key)
  BY <1>1 DEF Owed!Binds, Binds
<1>3. Owed!RankOf(sp, run, i) = RankOf(sp, run, i)
  BY OwedCardinality DEF Owed!RankOf, RankOf
<1>4. Owed!StepValue(sp, h, run, i) = StepValue(sp, h, run, i)
  BY <1>3, OwedReads, OwedMax DEF Owed!StepValue, StepValue
<1> QED
  BY <1>1, <1>2, <1>3, <1>4

LEMMA OwedBindings ==
  ASSUME NEW sp, NEW h, Len(h) \in Nat, NEW run, NEW i
  PROVE  Owed!BindingsBefore(sp, h, run, i) = BindingsBefore(sp, h, run, i)
<1>1. \A j : Owed!IsBinding(sp[j]) <=> IsBinding(sp[j])
  BY OwedSteps
<1>2. \A j, key : Owed!Binds(sp[j], key) <=> Binds(sp[j], key)
  BY OwedSteps
<1>3. \A k : Owed!StepValue(sp, h, run, k) = StepValue(sp, h, run, k)
  BY OwedSteps
<1>4. \A S : Owed!Max(S) = Max(S)
  BY OwedMax
<1> QED
  BY <1>1, <1>2, <1>3, <1>4 DEF Owed!BindingsBefore, BindingsBefore

LEMMA OwedPredicates ==
  ASSUME NEW step, NEW bind
  PROVE  /\ Owed!PredicateFails(step, bind) <=> PredicateFails(step, bind)
         /\ Owed!PredicateHolds(step, bind) <=> PredicateHolds(step, bind)
         /\ \A src : Owed!ValueOf(bind, src) = ValueOf(bind, src)
<1>1. \A key : /\ Owed!Resolves(bind, key) <=> Resolves(bind, key)
               /\ Owed!Lookup(bind, key) = Lookup(bind, key)
  BY DEF Owed!Resolves, Resolves, Owed!Lookup, Lookup
<1>2. Owed!PredicateFails(step, bind) <=> PredicateFails(step, bind)
  BY <1>1 DEF Owed!PredicateFails, PredicateFails, Owed!Orderings, Orderings
<1>3. Owed!PredicateHolds(step, bind) <=> PredicateHolds(step, bind)
  BY DEF Owed!PredicateHolds, PredicateHolds, Owed!Resolves, Resolves, Owed!Lookup, Lookup
<1>4. \A src : Owed!ValueOf(bind, src) = ValueOf(bind, src)
  BY <1>1 DEF Owed!ValueOf, ValueOf
<1> QED
  BY <1>2, <1>3, <1>4

LEMMA OwedRuns ==
  ASSUME NEW sp, NEW h, Len(h) \in Nat
  PROVE  Owed!RunOf(sp, h) = RunOf(sp, h)
<1>1. \A run, i, j : Owed!LeadsTo(sp, h, run, i, j) <=> LeadsTo(sp, h, run, i, j)
  <2> TAKE run, i, j
  <2>1. Owed!IsBinding(sp[i]) <=> IsBinding(sp[i])
    BY OwedSteps
  <2>2. Owed!StepValue(sp, h, run, i) = StepValue(sp, h, run, i)
    BY OwedSteps
  <2>3. Owed!BindingsBefore(sp, h, run, i) = BindingsBefore(sp, h, run, i)
    BY OwedBindings
  <2>4. \A step, bind : /\ Owed!PredicateFails(step, bind) <=> PredicateFails(step, bind)
                        /\ Owed!PredicateHolds(step, bind) <=> PredicateHolds(step, bind)
    BY OwedPredicates
  <2>5. CASE IsBinding(sp[i])
    BY <2>1, <2>2, <2>5 DEF Owed!LeadsTo, LeadsTo, IsBinding
  <2>6. CASE sp[i].kind = "conditional"
    BY <2>1, <2>3, <2>4, <2>6 DEF Owed!LeadsTo, LeadsTo, IsBinding
  <2>7. CASE ~ IsBinding(sp[i]) /\ sp[i].kind # "conditional"
    BY <2>1, <2>7 DEF Owed!LeadsTo, LeadsTo
  <2> QED
    BY <2>5, <2>6, <2>7
<1>2. \A run : Owed!IsRun(sp, h, run) <=> IsRun(sp, h, run)
  BY <1>1 DEF Owed!IsRun, IsRun
<1> QED
  BY <1>2 DEF Owed!RunOf, RunOf

LEMMA OwedIsOwed ==
  ASSUME NEW sp, NEW h, Len(h) \in Nat
  PROVE  Owed!OwedCommands(sp, h) = OwedCommands(sp, h)
<1>1. Owed!RunOf(sp, h) = RunOf(sp, h)
  BY OwedRuns
<1>2. \A run, i : Owed!BindingsBefore(sp, h, run, i) = BindingsBefore(sp, h, run, i)
  BY OwedBindings
<1>3. \A run, i : Owed!RankOf(sp, run, i) = RankOf(sp, run, i)
  BY OwedSteps
<1>4. Owed!ScheduledIds(h) = ScheduledIds(h) /\ \A k : Owed!EndsOf(h, k) = EndsOf(h, k)
  BY OwedReads
<1>5. \A bind, src : Owed!ValueOf(bind, src) = ValueOf(bind, src)
  BY OwedPredicates
<1>6. /\ \A val : Owed!CompleteWorkflow(val) = CompleteWorkflow(val)
      /\ \A k, name, val : Owed!ScheduleActivity(k, name, val) = ScheduleActivity(k, name, val)
      /\ Owed!FailWorkflow = FailWorkflow
  BY DEF Owed!CompleteWorkflow, CompleteWorkflow, Owed!ScheduleActivity, ScheduleActivity,
         Owed!FailWorkflow, FailWorkflow, Owed!Command, Command
<1> QED
  BY <1>1, <1>2, <1>3, <1>4, <1>5, <1>6, OwedMax DEF Owed!OwedCommands, OwedCommands

LEMMA OwedEvents ==
  ASSUME NEW commands
  PROVE  Owed!CommandEvents(commands) = CommandEvents(commands)
<1>1. \A c : /\ Owed!IsTerminal(c) <=> IsTerminal(c)
             /\ Owed!TerminalEvent(c) = TerminalEvent(c)
             /\ Owed!ScheduledEvent(c) = ScheduledEvent(c)
  BY DEF Owed!IsTerminal, IsTerminal, Owed!TerminalEvent, TerminalEvent,
         Owed!ScheduledEvent, ScheduledEvent, Owed!Event, Event
<1> QED
  BY <1>1 DEF Owed!CommandEvents, CommandEvents

-----------------------------------------------------------------------------
(* The run implements the abstract one.                                    *)

LEMMA PrefixIsPrefix ==
  ASSUME NEW h, IsList(h), NEW k, IsList(k), HasPrefix(k, h)
  PROVE  Owed!IsPrefix(h, k)
<1>1. Len(h) \in 0..Len(h)
  BY DEF IsList
<1>2. SubSeq(k, 1, Len(h)) = SubSeq(h, 1, Len(h))
  BY <1>1, PrefixStays
<1> QED
  BY <1>2 DEF Owed!IsPrefix, HasPrefix

\* What the service records on its own is what happens to the abstract run.
LEMMA OutsideHappens ==
  ASSUME IsList(history), IsList(history'), HasPrefix(history', history),
         \A i \in (Len(history) + 1)..Len(history') : history'[i].type \in OutsideTypes
  PROVE  Owed!Happens
<1>1. history \o << >> = history
  BY ConcatEmpty
<1>2. Len(<< >>) = 0 /\ Len(history) \in Nat /\ Len(history) + 0 + 1 = Len(history) + 1
  BY DEF IsList
<1>3. Owed!IsPrefix(history, history')
  BY PrefixIsPrefix
<1> QED
  BY <1>1, <1>2, <1>3 DEF Owed!Happens, Owed!GoesOnWith, OutsideTypes

LEMMA RecordHappens ==
  ASSUME HistoryInv, NEW e, e.type \in OutsideTypes, Record(e)
  PROVE  history' = history \/ Owed!Happens
<1>1. IsList(history) /\ IsList(history') /\ HasPrefix(history', history) /\ Len(history) \in Nat
  BY RecordKeeps DEF HistoryInv, IsList
<1>2. CASE wft = "started"
  BY <1>2 DEF Record
<1>3. CASE wft # "started"
  <2>1. history' = Append(history, e)
    BY <1>3 DEF Record
  <2>2. Len(history') = Len(history) + 1 /\ history'[Len(history) + 1] = e
    BY <1>1, <2>1, ListAppend
  <2>3. \A i \in (Len(history) + 1)..Len(history') : history'[i].type \in OutsideTypes
    BY <1>1, <2>2
  <2> QED
    BY <1>1, <2>3, OutsideHappens
<1> QED
  BY <1>2, <1>3

LEMMA EmptyHappens ==
  ASSUME HistoryInv, TaskEndsEmpty
  PROVE  Owed!Happens
<1>1. IsList(history) /\ IsList(history') /\ HasPrefix(history', history)
      /\ IsList(buffered) /\ Len(history) \in Nat /\ Len(buffered) \in Nat
  BY TaskEndsEmptyKeeps DEF HistoryInv, IsList
<1>2. history' = history \o buffered
  BY DEF TaskEndsEmpty
<1>3. /\ Len(history') = Len(history) + Len(buffered)
      /\ \A i \in 1..Len(buffered) : history'[Len(history) + i] = buffered[i]
  BY <1>1, <1>2, ListConcat
<1>4. ASSUME NEW i \in (Len(history) + 1)..Len(history') PROVE history'[i].type \in OutsideTypes
  <2>1. PICK j \in 1..Len(buffered) : i = Len(history) + j
    BY <1>1, <1>3
  <2> QED
    BY <1>3, <2>1 DEF HistoryInv
<1> QED
  BY <1>1, <1>4, OutsideHappens

\* The service takes the device's answer, and what it buffered enters behind it.
LEMMA OwedIsAnswered ==
  ASSUME HistoryInv, NEW commands, IsList(commands), Len(commands) <= 1,
         TaskCompletes(commands), commands = OwedCommands(spec, history)
  PROVE  Owed!Answer
<1> DEFINE evs == CommandEvents(commands)
           h == history \o evs
<1>1. IsList(evs) /\ IsList(history) /\ IsList(buffered) /\ Len(history) \in Nat
      /\ Len(evs) \in Nat /\ Len(buffered) \in Nat
  BY CommandEventsAre DEF HistoryInv, IsList
<1>2. evs = Owed!CommandEvents(Owed!OwedCommands(spec, history))
  BY <1>1, OwedIsOwed, OwedEvents
<1>3. history' = h \o buffered
  BY DEF TaskCompletes
<1> HIDE DEF evs
<1>4. IsList(h) /\ Len(h) = Len(history) + Len(evs)
  BY <1>1, ListConcat
<1>5. /\ IsList(history') /\ Len(history') = Len(h) + Len(buffered)
      /\ \A i \in 1..Len(h) : history'[i] = h[i]
      /\ \A i \in 1..Len(buffered) : history'[Len(h) + i] = buffered[i]
  BY <1>1, <1>3, <1>4, ListConcat
<1>6. Owed!IsPrefix(h, history')
  <2>1. HasPrefix(history', h)
    BY <1>1, <1>4, <1>5 DEF HasPrefix
  <2> QED
    BY <1>4, <1>5, <2>1, PrefixIsPrefix
<1>7. ASSUME NEW i \in (Len(history) + Len(evs) + 1)..Len(history')
      PROVE history'[i].type \in AllFates \cup {"Signaled"}
  <2> DEFINE j == i - Len(h)
  <2>1. j \in 1..Len(buffered) /\ i = Len(h) + j
    <3>1. PICK n : n = Len(h)
      OBVIOUS
    <3>2. PICK m : m = Len(history')
      OBVIOUS
    <3>3. n = Len(history) + Len(evs) /\ m = n + Len(buffered)
      BY <1>4, <1>5, <3>1, <3>2
    <3>4. i \in (n + 1)..m
      BY <3>1, <3>2, <3>3
    <3> QED
      BY <1>1, <3>1, <3>3, <3>4
  <2> HIDE DEF j
  <2>2. history'[i] = buffered[j]
    BY <1>5, <2>1
  <2> QED
    BY <2>1, <2>2 DEF HistoryInv, OutsideTypes
<1>8. Owed!GoesOnWith(evs)
  BY <1>6, <1>7 DEF Owed!GoesOnWith, h
<1> QED
  BY <1>2, <1>8 DEF Owed!Answer

LEMMA AnswersWhatIsOwed ==
  ASSUME Steady, Named, NoSpec \notin Specs, TypeInv, ResumeInv,
         Answering, task.live, TaskCompletes(decision.commands)
  PROVE  Owed!Answer
<1>1. spec \in Specs /\ spec # NoSpec /\ HistoryInv
  BY DEF Steady, TypeInv, StateInv
<1>2. phase = "persisted"
  BY <1>1 DEF Answering, TypeInv, StateInv
<1>3. Delivered = history
  BY <1>1, WholeSub DEF Delivered, TypeInv, TaskInv, HistoryInv
<1>4. decision.commands = OwedCommands(spec, history)
  BY <1>2, <1>3, DecidesWhatIsOwed DEF Deciding
<1>5. IsList(decision.commands) /\ Len(decision.commands) <= 1
  BY AnswerIsList
<1> QED
  BY <1>1, <1>4, <1>5, OwedIsAnswered

LEMMA StartIsOwed ==
  ASSUME Init
  PROVE  Owed!Init
<1>1. \A v : Owed!StartedEvent(v) = StartedEvent(v)
  BY DEF Owed!StartedEvent, StartedEvent, Owed!Event, Event
<1> QED
  BY <1>1 DEF Init, RunInit, Owed!Init

LEMMA StepIsOwed ==
  ASSUME Steady, Named, NoSpec \notin Specs, TypeInv, ResumeInv, [Next]_vars
  PROVE  [Owed!Next]_<<spec, history>>
<1>1. spec' = spec /\ HistoryInv /\ ServerMoves
  BY SpecStays, ServiceMoves DEF TypeInv
<1>2. history' = history \/ (~ Closed /\ (Owed!Happens \/ Owed!Answer))
  <2>1. CASE UNCHANGED <<history, buffered>>
    BY <2>1
  <2>2. CASE TaskEndsEmpty
    <3>1. ~ Closed
      BY <1>1, <2>2 DEF TaskEndsEmpty, HistoryInv
    <3> QED
      BY <1>1, <2>2, <3>1, EmptyHappens
  <2>3. CASE Answering /\ task.live /\ TaskCompletes(decision.commands)
    <3>1. ~ Closed
      BY <1>1, <2>3 DEF TaskCompletes, HistoryInv
    <3> QED
      BY <2>3, <3>1, AnswersWhatIsOwed
  <2>4. CASE SomeSignalArrives \/ SomeActivityEnds
    <3>1. PICK e : e.type \in OutsideTypes /\ Record(e)
      BY <2>4, OutsideRecords
    <3>2. ~ Closed
      BY <3>1 DEF Record
    <3> QED
      BY <1>1, <3>1, <3>2, RecordHappens
  <2> QED
    BY <1>1, <2>1, <2>2, <2>3, <2>4 DEF ServerMoves
<1>3. ~ Closed => Owed!Open
  BY DEF Closed, Owed!Open, TerminalEvents, Owed!TerminalEvents
<1> QED
  BY <1>1, <1>2, <1>3 DEF Owed!Next

\* Under the same hypotheses, and the firmware knowing its workflow: whatever is
\* lost, torn, refused, late or done twice, the history the service keeps is one
\* that a worker without state, never late, could have made (replay_engine.h:28-34).
THEOREM LoopImplementsOwedRun ==
  ASSUME Steady, Named, NoSpec \notin Specs
  PROVE  Spec => ImplementsOwedRun
<1>1. Init => Owed!Init
  BY StartIsOwed
<1>2. TypeInv /\ ResumeInv /\ [Next]_vars => [Owed!Next]_<<spec, history>>
  BY StepIsOwed
<1> QED
  BY <1>1, <1>2, SpecResumes, PTL DEF Spec, Owed!Spec, ImplementsOwedRun

-----------------------------------------------------------------------------
(* The signals that are saved.                                             *)

LEMMA SavedBinds ==
  ASSUME Steady, Named, \A s \in Specs \ {NoSpec} : SoleIds(s), TypeInv, ResumeInv
  PROVE  SignalsBindInOrder
<1> DEFINE waits == {k \in 1..Len(store.spec) : store.spec[k].kind = "wait_signal"}
           passed(i) == WaitsPassed(store.spec, store.results, i)
           h == SubSeq(history, 1, store.watermark)
<1> SUFFICES ASSUME ~ Absent, NEW i \in waits
             PROVE  LET all == SignalsNamed(history, store.spec[i].name)
                    IN  /\ store.spec[i].id \in DOMAIN store.results =>
                             store.results[store.spec[i].id]
                               = Payload(history[all[Cardinality(passed(i))]].value)
                        /\ Count(store.consumed, store.spec[i].name) >= Cardinality(passed(i))
  BY DEF SignalsBindInOrder, WaitsPassed
<1>1. /\ spec # NoSpec /\ Len(spec) \in Nat
      /\ IsList(history) /\ store.watermark \in 1..Len(history)
      /\ GoodRun(spec, h) /\ Replay(spec, h).ok /\ store = Replay(spec, h).state
  BY SpecIsList DEF ResumeInv, DeviceInv, SavedFrom, TypeInv, HistoryInv
<1>2. store.spec = spec
  BY <1>1 DEF Replay, DecideFrom, Failure
<1>3. Accepted(spec) /\ WellNamed(spec) /\ WellScoped(spec) /\ SoleIds(spec) /\ Regular(h)
  BY <1>1, SpecsAssumption DEF Steady, Named, TypeInv, StateInv, GoodRun
<1>4. IsList(h) /\ Len(h) \in Nat /\ Len(history) \in Nat /\ HasPrefix(history, h)
  BY <1>1, ListSub DEF IsList, HasPrefix
<1> HIDE DEF h
<1> DEFINE signals == SignalsNamed(h, spec[i].name)
           all == SignalsNamed(history, spec[i].name)
           n == Cardinality(WaitsPassed(spec, store.results, i))
<1>5. /\ spec[i].id \in DOMAIN store.results =>
           n \in 1..Len(signals) /\ store.results[spec[i].id] = Payload(h[signals[n]].value)
      /\ Count(store.consumed, spec[i].name) >= n
  BY <1>1, <1>2, <1>3, SavedSignals
<1>6. \A k \in 1..Len(signals) : all[k] = signals[k] /\ signals[k] \in 1..Len(h)
  BY <1>4, SignalsGrow
<1>7. \A k \in 1..Len(signals) : history[all[k]] = h[signals[k]]
  BY <1>4, <1>6 DEF HasPrefix
<1> QED
  BY <1>2, <1>5, <1>7

\* Under the same hypotheses, and every wait binding under a name of its own: in every
\* state the device saves, the k-th wait for a signal that the run has passed is bound
\* to the k-th signal of that name, and that many are counted as consumed.
THEOREM SignalsStayInOrder ==
  ASSUME Steady, Named, \A s \in Specs \ {NoSpec} : SoleIds(s)
  PROVE  Spec => []SignalsBindInOrder
<1>1. TypeInv /\ ResumeInv => SignalsBindInOrder
  BY SavedBinds
<1> QED
  BY <1>1, SpecResumes, PTL
=============================================================================
