--------------------------- MODULE CookbookProofs ---------------------------
(***************************************************************************)
(* Any demonstration of the form the scripts have: what a printed stream,  *)
(* a pass and a failure mean, and that the run it names ends closed.       *)
(*                                                                         *)
(* The inductive invariant relates three things that no step changes       *)
(* together: how far the script has come with its clients, the runs the    *)
(* service keeps, and what the worker has counted and printed.             *)
(***************************************************************************)
EXTENDS Cookbook, FiniteSetTheorems, SequenceTheorems, WellFoundedInduction, TLAPS

-----------------------------------------------------------------------------
(* Types.                                                                  *)

Run == [status : {"RUNNING"} \cup kTerminal, input : Inputs, done : Nat, wft : BOOLEAN,
        act : BOOLEAN, failed : BOOLEAN, lost : BOOLEAN, news : BOOLEAN,
        inbox : SUBSET Signals, commands : Seq(Commands)]

Task == {NoTask} \cup [id : Nat \ {0}, seen : Run]
WorkerPc == {"resolve", "register", "exited"} \cup Running
Worker == [pc : WorkerPc, tls : BOOLEAN, stop : BOOLEAN, errors : Nat, completions : Nat,
           stream : Seq(Commands), streams : Seq(Seq(Commands)), task : Task,
           result : {"success", "failure"}, attempt : Nat, missed : BOOLEAN, rc : {0, 1}]

Starting == {"active", "execute"}
Watching == {"observe", "signal", "poll", "verdict"}
ClientPc == Starting \cup Watching \cup
            {"wait", "kill", "check", "terminate", "inactive", "archive", "join", "ended"}
Statuses == {"", "RUNNING"} \cup kTerminal
Script1 == [pc : ClientPc, k : Nat \ {0}, id : Nat, status : Statuses, rcs : Seq({0, 1}),
            named : Nat, sig : Nat, spared : BOOLEAN, timedOut : BOOLEAN, waited : BOOLEAN]

Deployment == [registered : BOOLEAN, active : BOOLEAN, archived : BOOLEAN,
               signals : {{}, collectSignals(demo.steps)}]

AtWork == {"wfAnswer", "invoke", "chat", "actAnswer"}

WorkerFits(w, n) ==
  /\ w \in Worker
  /\ w.errors <= MaxErrors /\ (w.pc \notin {"leaving", "exited"} => w.errors < MaxErrors)
  /\ w.completions = Len(w.streams)
  /\ w.task.id <= n /\ (w.pc \in AtWork => w.task # NoTask)

ClientFits(c, n) ==
  /\ c \in Script1
  /\ c.k <= Len(demo.clients) /\ c.id <= n /\ c.named <= n
  /\ c.pc \in Watching => c.id # 0
  /\ c.pc = "terminate" => c.named # 0

Types ==
  /\ demo \in Demos
  /\ runs \in Seq(Run) /\ workflow \in Deployment /\ faults \in 0 .. MaxFaults
  /\ WorkerFits(worker, Len(runs)) /\ ClientFits(client, Len(runs))
  /\ late \in SUBSET {"worker", "client"}

-----------------------------------------------------------------------------
(* The path of a run, and the signals declared for it.                     *)

LEMMA LeastNatural ==
  ASSUME NEW S, S \subseteq Nat, S # {}
  PROVE  \E n \in S : \A k \in S : n <= k
<1>1. PICK x \in S : \A y \in S : ~ (<<y, x>> \in OpToRel(<, Nat))
  BY NatLessThanWellFounded, WFMin
<1>2. \A y \in S : ~ (y < x)
  BY <1>1 DEF OpToRel
<1> QED
  BY <1>2

LEMMA UpwardInduction ==
  ASSUME NEW Good, NEW n \in Nat, 0 \in Good, \A k \in 0..n : k # n /\ k \in Good => k + 1 \in Good
  PROVE  \A k \in 0..n : k \in Good
<1> DEFINE Bad == {k \in 0..n : k \notin Good}
<1> SUFFICES ASSUME Bad # {} PROVE FALSE
  OBVIOUS
<1>1. Bad \subseteq Nat
  OBVIOUS
<1> HIDE DEF Bad
<1>2. PICK k \in Bad : \A j \in Bad : k <= j
  BY <1>1, LeastNatural
<1>3. k \in 0..n /\ k \notin Good
  BY <1>2 DEF Bad
<1>4. k # 0 /\ k - 1 \in 0..n /\ k - 1 # n /\ k - 1 \notin Bad
  BY <1>2, <1>3
<1>5. k - 1 \in Good
  BY <1>4 DEF Bad
<1>6. k - 1 + 1 \in Good
  BY <1>4, <1>5
<1> QED
  BY <1>3, <1>6

PieceOf(f, steps, input, i) == IF i = 0 THEN << >> ELSE f[i - 1] \o Inside(steps[i], input)
IsUpTo(f, steps, input, n) == f = [i \in 0..n |-> PieceOf(f, steps, input, i)]

LEMMA UpToExists ==
  ASSUME NEW steps, NEW input, NEW n \in Nat
  PROVE  \E f : IsUpTo(f, steps, input, n)
<1> DEFINE Good == {m \in Nat : \E f : IsUpTo(f, steps, input, m)}
<1>1. 0 \in Good
  <2> DEFINE f == [i \in 0..0 |-> << >>]
  <2>1. IsUpTo(f, steps, input, 0)
    BY DEF IsUpTo, PieceOf
  <2> QED
    BY <2>1
<1>2. ASSUME NEW m \in 0..n, m # n, m \in Good PROVE m + 1 \in Good
  <2>1. PICK f : IsUpTo(f, steps, input, m)
    BY <1>2
  <2> DEFINE g == [i \in 0..m + 1 |-> IF i <= m THEN f[i] ELSE f[m] \o Inside(steps[m + 1], input)]
  <2>2. ASSUME NEW i \in 0..m + 1 PROVE g[i] = PieceOf(g, steps, input, i)
    <3>1. CASE i = m + 1
      <4>1. g[i] = f[m] \o Inside(steps[m + 1], input) /\ g[m] = f[m] /\ i - 1 = m /\ i # 0
        BY <3>1
      <4> HIDE DEF g
      <4> QED
        BY <3>1, <4>1 DEF PieceOf
    <3>2. CASE i # m + 1
      <4>1. i \in 0..m /\ g[i] = f[i] /\ (i # 0 => i - 1 \in 0..m /\ g[i - 1] = f[i - 1])
        BY <3>2
      <4>2. f[i] = PieceOf(f, steps, input, i)
        BY <4>1, <2>1 DEF IsUpTo
      <4> HIDE DEF g
      <4> QED
        BY <4>1, <4>2 DEF PieceOf
    <3> QED
      BY <3>1, <3>2
  <2>3. g = [i \in 0..m + 1 |-> g[i]]
    OBVIOUS
  <2>4. IsUpTo(g, steps, input, m + 1)
    <3> HIDE DEF g
    <3> QED
      BY <2>2, <2>3 DEF IsUpTo
  <2> QED
    BY <2>4
<1> HIDE DEF Good
<1>3. n \in Good
  BY <1>1, <1>2, UpwardInduction
<1> QED
  BY <1>3 DEF Good

\* Steps that nest only steps; whatever stands in one of them stands below it.
Nests(S) == \A s \in S : /\ s.kind = "sequence" => s.steps \in Seq(S)
                         /\ s.kind = "conditional" => s.true_steps \in Seq(S) /\ s.false_steps \in Seq(S)

Under(S) == S \cup UNION {Below(s) : s \in S}

LEMMA ConcatOver ==
  ASSUME NEW S, NEW W, NEW a \in Seq(S), NEW b \in Seq(S), StepsOf(a) \subseteq W, StepsOf(b) \subseteq W
  PROVE  a \o b \in Seq(S) /\ StepsOf(a \o b) \subseteq W
<1>1. a \o b \in Seq(S) /\ Len(a \o b) = Len(a) + Len(b)
      /\ \A i \in 1..Len(a) + Len(b) : (a \o b)[i] = IF i <= Len(a) THEN a[i] ELSE b[i - Len(a)]
  BY ConcatProperties
<1>2. DOMAIN (a \o b) = 1..Len(a) + Len(b) /\ DOMAIN a = 1..Len(a) /\ DOMAIN b = 1..Len(b)
  BY <1>1, LenProperties
<1>3. ASSUME NEW i \in 1..Len(a) + Len(b) PROVE (a \o b)[i] \in W
  <2>1. CASE i <= Len(a)
    BY <2>1, <1>1, <1>2 DEF StepsOf
  <2>2. CASE ~ (i <= Len(a))
    <3>1. i - Len(a) \in 1..Len(b)
      BY <2>2, LenProperties
    <3> QED
      BY <3>1, <2>2, <1>1, <1>2 DEF StepsOf
  <2> QED
    BY <2>1, <2>2
<1> QED
  BY <1>1, <1>2, <1>3 DEF StepsOf

LEMMA InsideIsUnder ==
  ASSUME NEW S, Nests(S), NEW W, NEW s \in S, s \in W, NEW input
  PROVE  Inside(s, input) \in Seq(S) /\ StepsOf(Inside(s, input)) \subseteq Under(W)
<1>1. Below(s) \subseteq Under(W) /\ s \in Under(W)
  BY DEF Under
<1>2. CASE s.kind = "sequence"
  BY <1>1, <1>2 DEF Nests, Inside, Below
<1>3. CASE s.kind = "conditional"
  <2>1. Below(s) = StepsOf(s.true_steps) \cup StepsOf(s.false_steps)
    BY <1>3 DEF Below
  <2>2. Inside(s, input) = IF input = "big" THEN s.true_steps ELSE s.false_steps
    BY <1>3 DEF Inside
  <2> QED
    BY <1>1, <1>3, <2>1, <2>2 DEF Nests
<1>4. CASE s.kind # "sequence" /\ s.kind # "conditional"
  <2>1. Inside(s, input) = << s >>
    BY <1>4 DEF Inside
  <2>2. << s >> \in Seq(S) /\ StepsOf(<< s >>) = {s}
    BY DEF StepsOf
  <2> QED
    BY <1>1, <2>1, <2>2
<1> QED
  BY <1>2, <1>3, <1>4

LEMMA UnnestedIsUnder ==
  ASSUME NEW S, Nests(S), NEW W, NEW steps \in Seq(S), StepsOf(steps) \subseteq W, NEW input
  PROVE  Unnested(steps, input) \in Seq(S) /\ StepsOf(Unnested(steps, input)) \subseteq Under(W)
<1> DEFINE f == CHOOSE f : IsUpTo(f, steps, input, Len(steps))
<1>0. Len(steps) \in Nat /\ DOMAIN steps = 1..Len(steps)
  BY LenProperties
<1>1. IsUpTo(f, steps, input, Len(steps))
  BY <1>0, UpToExists
<1>2. Unnested(steps, input) = f[Len(steps)]
  BY DEF Unnested, IsUpTo, PieceOf
<1> HIDE DEF f
<1> DEFINE Good == {i \in Nat : f[i] \in Seq(S) /\ StepsOf(f[i]) \subseteq Under(W)}
<1>3. 0 \in Good
  <2>1. f[0] = << >>
    BY <1>0, <1>1 DEF IsUpTo, PieceOf
  <2>2. << >> \in Seq(S) /\ StepsOf(<< >>) = {}
    BY DEF StepsOf
  <2> QED
    BY <2>1, <2>2
<1>4. ASSUME NEW i \in 0..Len(steps), i # Len(steps), i \in Good PROVE i + 1 \in Good
  <2>1. i + 1 \in 1..Len(steps) /\ i + 1 # 0 /\ i + 1 - 1 = i
    BY <1>0, <1>4
  <2>2. f[i + 1] = f[i] \o Inside(steps[i + 1], input)
    BY <1>0, <1>1, <2>1 DEF IsUpTo, PieceOf
  <2>3. steps[i + 1] \in S /\ steps[i + 1] \in W
    BY <1>0, <2>1, ElementOfSeq DEF StepsOf
  <2>4. Inside(steps[i + 1], input) \in Seq(S) /\ StepsOf(Inside(steps[i + 1], input)) \subseteq Under(W)
    BY <2>3, InsideIsUnder
  <2>5. f[i] \in Seq(S) /\ StepsOf(f[i]) \subseteq Under(W)
    BY <1>4
  <2> DEFINE a == f[i]
             b == Inside(steps[i + 1], input)
  <2> HIDE DEF a, b
  <2>6. a \o b \in Seq(S) /\ StepsOf(a \o b) \subseteq Under(W)
    <3>1. a \in Seq(S) /\ StepsOf(a) \subseteq Under(W)
      BY <2>5 DEF a
    <3>2. b \in Seq(S) /\ StepsOf(b) \subseteq Under(W)
      BY <2>4 DEF b
    <3> QED
      BY <3>1, <3>2, ConcatOver
  <2>7. f[i + 1] = a \o b
    BY <2>2 DEF a, b
  <2>8. f[i + 1] \in Seq(S) /\ StepsOf(f[i + 1]) \subseteq Under(W)
    BY <2>6, <2>7, Zenon
  <2> QED
    BY <2>1, <2>8
<1> HIDE DEF Good
<1>5. Len(steps) \in Good
  <2>1. PICK n \in Nat : n = Len(steps)
    BY <1>0
  <2>2. \A i \in 0..n : i # n /\ i \in Good => i + 1 \in Good
    BY <1>4, <2>1
  <2>3. \A i \in 0..n : i \in Good
    BY <1>3, <2>2, UpwardInduction
  <2> QED
    BY <2>1, <2>3
<1> QED
  BY <1>2, <1>5 DEF Good

LevelAt(f, steps, input, d) == IF d = 0 THEN steps ELSE Unnested(f[d - 1], input)
IsLevel(f, steps, input, n) == f = [d \in 0..n |-> LevelAt(f, steps, input, d)]

LEMMA LevelExists ==
  ASSUME NEW steps, NEW input, NEW n \in Nat
  PROVE  \E f : IsLevel(f, steps, input, n)
<1> DEFINE Good == {m \in Nat : \E f : IsLevel(f, steps, input, m)}
<1>1. 0 \in Good
  <2> DEFINE f == [d \in 0..0 |-> steps]
  <2>1. IsLevel(f, steps, input, 0)
    BY DEF IsLevel, LevelAt
  <2> QED
    BY <2>1
<1>2. ASSUME NEW m \in 0..n, m # n, m \in Good PROVE m + 1 \in Good
  <2>1. PICK f : IsLevel(f, steps, input, m)
    BY <1>2
  <2> DEFINE g == [d \in 0..m + 1 |-> IF d <= m THEN f[d] ELSE Unnested(f[m], input)]
  <2>2. ASSUME NEW d \in 0..m + 1 PROVE g[d] = LevelAt(g, steps, input, d)
    <3>1. CASE d = m + 1
      <4>1. g[d] = Unnested(f[m], input) /\ g[m] = f[m] /\ d - 1 = m /\ d # 0
        BY <3>1
      <4> HIDE DEF g
      <4> QED
        BY <3>1, <4>1 DEF LevelAt
    <3>2. CASE d # m + 1
      <4>1. d \in 0..m /\ g[d] = f[d] /\ (d # 0 => d - 1 \in 0..m /\ g[d - 1] = f[d - 1])
        BY <3>2
      <4>2. f[d] = LevelAt(f, steps, input, d)
        BY <4>1, <2>1 DEF IsLevel
      <4> HIDE DEF g
      <4> QED
        BY <4>1, <4>2 DEF LevelAt
    <3> QED
      BY <3>1, <3>2
  <2>3. g = [d \in 0..m + 1 |-> g[d]]
    OBVIOUS
  <2>4. IsLevel(g, steps, input, m + 1)
    <3> HIDE DEF g
    <3> QED
      BY <2>2, <2>3 DEF IsLevel
  <2> QED
    BY <2>4
<1> HIDE DEF Good
<1>3. n \in Good
  BY <1>1, <1>2, UpwardInduction
<1> QED
  BY <1>3 DEF Good

WithinAt(f, steps, d) == IF d = 0 THEN StepsOf(steps) ELSE Under(f[d - 1])
IsWithin(f, steps, n) == f = [d \in 0..n |-> WithinAt(f, steps, d)]

LEMMA WithinExists ==
  ASSUME NEW steps, NEW n \in Nat
  PROVE  \E f : IsWithin(f, steps, n)
<1> DEFINE Good == {m \in Nat : \E f : IsWithin(f, steps, m)}
<1>1. 0 \in Good
  <2> DEFINE f == [d \in 0..0 |-> StepsOf(steps)]
  <2>1. IsWithin(f, steps, 0)
    BY DEF IsWithin, WithinAt
  <2> QED
    BY <2>1
<1>2. ASSUME NEW m \in 0..n, m # n, m \in Good PROVE m + 1 \in Good
  <2>1. PICK f : IsWithin(f, steps, m)
    BY <1>2
  <2> DEFINE g == [d \in 0..m + 1 |-> IF d <= m THEN f[d] ELSE Under(f[m])]
  <2>2. ASSUME NEW d \in 0..m + 1 PROVE g[d] = WithinAt(g, steps, d)
    <3>1. CASE d = m + 1
      <4>1. g[d] = Under(f[m]) /\ g[m] = f[m] /\ d - 1 = m /\ d # 0
        BY <3>1
      <4> HIDE DEF g
      <4> QED
        BY <3>1, <4>1 DEF WithinAt
    <3>2. CASE d # m + 1
      <4>1. d \in 0..m /\ g[d] = f[d] /\ (d # 0 => d - 1 \in 0..m /\ g[d - 1] = f[d - 1])
        BY <3>2
      <4>2. f[d] = WithinAt(f, steps, d)
        BY <4>1, <2>1 DEF IsWithin
      <4> HIDE DEF g
      <4> QED
        BY <4>1, <4>2 DEF WithinAt
    <3> QED
      BY <3>1, <3>2
  <2>3. g = [d \in 0..m + 1 |-> g[d]]
    OBVIOUS
  <2>4. IsWithin(g, steps, m + 1)
    <3> HIDE DEF g
    <3> QED
      BY <2>2, <2>3 DEF IsWithin
  <2> QED
    BY <2>4
<1> HIDE DEF Good
<1>3. n \in Good
  BY <1>1, <1>2, UpwardInduction
<1> QED
  BY <1>3 DEF Good

\* What a run comes to is among the steps that collectSignals visits.
LEMMA PathIsCollected ==
  ASSUME NEW S, Nests(S), NEW steps \in Seq(S), NEW input
  PROVE  /\ Path(steps, input) \in Seq(S)
         /\ \A s \in StepsOf(Path(steps, input)) :
               s.kind = "wait_signal" => s.signal \in collectSignals(steps)
<1> DEFINE f == CHOOSE f : IsLevel(f, steps, input, MaxNesting)
           w == CHOOSE w : IsWithin(w, steps, MaxNesting)
<1>0. MaxNesting \in Nat
  BY CookbookAssumption
<1>1. IsLevel(f, steps, input, MaxNesting)
  BY <1>0, LevelExists
<1>2. IsWithin(w, steps, MaxNesting)
  BY <1>0, WithinExists
<1>3. Path(steps, input) = f[MaxNesting]
  BY DEF Path, IsLevel, LevelAt
<1>4. collectSignals(steps) = {s.signal : s \in {x \in w[MaxNesting] : x.kind = "wait_signal"}}
  BY DEF collectSignals, IsWithin, WithinAt, Under
<1> HIDE DEF f, w
<1> DEFINE Good == {d \in Nat : f[d] \in Seq(S) /\ StepsOf(f[d]) \subseteq w[d]}
<1>5. 0 \in Good
  <2>1. f[0] = steps /\ w[0] = StepsOf(steps)
    BY <1>0, <1>1, <1>2 DEF IsLevel, LevelAt, IsWithin, WithinAt
  <2> QED
    BY <2>1
<1>6. ASSUME NEW d \in 0..MaxNesting, d # MaxNesting, d \in Good PROVE d + 1 \in Good
  <2>1. d + 1 \in 0..MaxNesting /\ d + 1 # 0 /\ d + 1 - 1 = d
    BY <1>0, <1>6
  <2>2. f[d + 1] = Unnested(f[d], input)
    BY <1>1, <2>1 DEF IsLevel, LevelAt
  <2>3. w[d + 1] = Under(w[d])
    BY <1>2, <2>1 DEF IsWithin, WithinAt
  <2> DEFINE a == f[d]
             v == w[d]
  <2>4. a \in Seq(S) /\ StepsOf(a) \subseteq v
    BY <1>6
  <2> HIDE DEF a, v
  <2>5. Unnested(a, input) \in Seq(S) /\ StepsOf(Unnested(a, input)) \subseteq Under(v)
    BY <2>4, UnnestedIsUnder
  <2>6. f[d + 1] \in Seq(S) /\ StepsOf(f[d + 1]) \subseteq w[d + 1]
    BY <2>2, <2>3, <2>5, Zenon DEF a, v
  <2> QED
    BY <2>1, <2>6
<1> HIDE DEF Good
<1>7. MaxNesting \in Good
  <2>1. \A d \in 0..MaxNesting : d # MaxNesting /\ d \in Good => d + 1 \in Good
    BY <1>6
  <2>2. \A d \in 0..MaxNesting : d \in Good
    BY <1>0, <1>5, <2>1, UpwardInduction
  <2> QED
    BY <1>0, <2>2
<1> QED
  BY <1>3, <1>4, <1>7 DEF Good

-----------------------------------------------------------------------------
(* What an exchange and a unary call tell.                                 *)

LEMMA ExchangeTells ==
  ASSUME faults \in Nat, NEW refusal \in {0, 401, 404, 409, 422}, NEW http \in Exchange(refusal)
  PROVE  /\ http.done \in BOOLEAN /\ http.status \in {0, 200, 503, refusal}
         /\ Succeeds(http) \in BOOLEAN /\ Disturbed(http) \in BOOLEAN
         /\ http.done => refusal = 0
         /\ Succeeds(http) => refusal = 0 /\ http.done /\ http.status = 200 /\ ~Disturbed(http)
         /\ http.status = 200 => Succeeds(http)
         /\ Disturbed(http) => faults > 0
         /\ ~Disturbed(http) => IF refusal = 0 THEN Succeeds(http) ELSE http.status = refusal
<1> DEFINE quiet == [transport_ok |-> TRUE, status |-> IF refusal = 0 THEN 200 ELSE refusal, done |-> refusal = 0]
           unsent == [transport_ok |-> FALSE, status |-> 0, done |-> FALSE]
           unread == [transport_ok |-> FALSE, status |-> 0, done |-> refusal = 0]
           busy == [transport_ok |-> TRUE, status |-> 503, done |-> FALSE]
<1>1. http = quiet \/ (faults # 0 /\ http \in {unsent, unread, busy})
  BY DEF Exchange
<1>2. CASE http = quiet
  <2>1. http.transport_ok = TRUE /\ http.status = IF refusal = 0 THEN 200 ELSE refusal
    BY <1>2
  <2>2. http.done = (refusal = 0)
    BY <1>2, Zenon
  <2>3. http.done \in BOOLEAN /\ (http.done <=> refusal = 0)
    BY <2>2, Zenon
  <2> HIDE DEF quiet, unsent, unread, busy
  <2> QED
    BY <2>1, <2>3 DEF Succeeds, Disturbed
<1>3. CASE faults # 0 /\ http = unsent
  BY <1>3 DEF Succeeds, Disturbed
<1>4. CASE faults # 0 /\ http = unread
  <2>1. http.transport_ok = FALSE /\ http.status = 0
    BY <1>4
  <2>2. http.done = (refusal = 0)
    BY <1>4, Zenon
  <2>3. http.done \in BOOLEAN /\ (http.done <=> refusal = 0)
    BY <2>2, Zenon
  <2> HIDE DEF quiet, unsent, unread, busy
  <2> QED
    BY <1>4, <2>1, <2>3 DEF Succeeds, Disturbed
<1>5. CASE faults # 0 /\ http = busy
  BY <1>5 DEF Succeeds, Disturbed
<1> QED
  BY <1>1, <1>2, <1>3, <1>4, <1>5

LEMMA CallTells ==
  ASSUME faults \in Nat, NEW accepted \in BOOLEAN, NEW c \in call(accepted)
  PROVE  /\ c.done \in BOOLEAN /\ (c.done => accepted)
         /\ c.grpc_status = "OK" => c.done /\ worker.tls
         /\ c.grpc_status = "UNAVAILABLE" => faults > 0
         /\ worker.tls /\ c.grpc_status # "UNAVAILABLE" /\ accepted => c.grpc_status = "OK"
<1>1. CASE ~worker.tls
  <2>1. c = [grpc_status |-> "FAILED_PRECONDITION", done |-> FALSE]
    BY <1>1 DEF call
  <2>2. c.grpc_status = "FAILED_PRECONDITION" /\ c.done = FALSE
    BY <2>1
  <2> QED
    BY <1>1, <2>2
<1>2. CASE worker.tls
  <2>1. \/ c = [grpc_status |-> IF accepted THEN "OK" ELSE "NOT_FOUND", done |-> accepted]
        \/ faults # 0 /\ \E d \in {FALSE, accepted} : c = [grpc_status |-> "UNAVAILABLE", done |-> d]
    BY <1>2 DEF call
  <2>2. CASE c = [grpc_status |-> IF accepted THEN "OK" ELSE "NOT_FOUND", done |-> accepted]
    BY <1>2, <2>2
  <2>3. CASE faults # 0 /\ \E d \in {FALSE, accepted} : c = [grpc_status |-> "UNAVAILABLE", done |-> d]
    <3>1. PICK d \in {FALSE, accepted} : c = [grpc_status |-> "UNAVAILABLE", done |-> d]
      BY <2>3
    <3>2. c.grpc_status = "UNAVAILABLE" /\ c.done = d
      BY <3>1
    <3>3. c.done \in BOOLEAN /\ (c.done => accepted)
      BY <3>2, Zenon
    <3> QED
      BY <2>3, <3>2, <3>3
  <2> QED
    BY <2>1, <2>2, <2>3
<1> QED
  BY <1>1, <1>2

Pays == faults' \in 0 .. faults

LEMMA SpendPays ==
  ASSUME faults \in Nat, NEW refusal \in {0, 401, 404, 409, 422}, NEW http \in Exchange(refusal),
         Spend(http)
  PROVE  Pays /\ (Disturbed(http) => faults' < faults)
  BY ExchangeTells DEF Spend, Pays

LEMMA ChargePays ==
  ASSUME faults \in Nat, NEW accepted \in BOOLEAN, NEW c \in call(accepted), Charge(c)
  PROVE  Pays /\ (c.grpc_status = "UNAVAILABLE" => faults' < faults)
  BY CallTells DEF Charge, Pays

-----------------------------------------------------------------------------
(* The steps of the worker that leave its account and the runs' as they    *)
(* are: all but the answer of a workflow tick.                             *)

Kept(s) ==
  /\ s \in Seq(Run) /\ Len(s) = Len(runs)
  /\ \A r \in 1 .. Len(runs) : s[r].status = runs[r].status /\ s[r].commands = runs[r].commands

SameAccount(w) ==
  /\ w.completions = worker.completions /\ w.streams = worker.streams
  /\ w.stream = worker.stream /\ w.missed = worker.missed
  /\ w.pc = "exited" /\ w.rc = 0 => w.completions >= demo.max_completions
  /\ w.pc \notin {"leaving", "exited"} => worker.pc \notin {"leaving", "exited"}

WorkerTicks ==
  /\ demo' = demo /\ client' = client /\ late' = late
  /\ worker.pc # "exited"
  /\ WorkerFits(worker', Len(runs)) /\ SameAccount(worker')
  /\ Kept(runs') /\ Pays

LEMMA Basics ==
  ASSUME Types
  PROVE  /\ runs \in Seq(Run) /\ Len(runs) \in Nat /\ DOMAIN runs = 1 .. Len(runs)
         /\ faults \in 0 .. MaxFaults /\ faults \in Nat
         /\ WorkerFits(worker, Len(runs)) /\ worker \in Worker
         /\ ClientFits(client, Len(runs)) /\ client \in Script1
         /\ workflow \in Deployment
<1>1. runs \in Seq(Run)
  BY DEF Types
<1>2. Len(runs) \in Nat /\ DOMAIN runs = 1 .. Len(runs)
  BY <1>1, LenProperties
<1>3. faults \in 0 .. MaxFaults /\ MaxFaults \in Nat
  BY ControlPlaneAssumption DEF Types
<1> QED
  BY <1>1, <1>2, <1>3 DEF Types, WorkerFits, ClientFits

LEMMA RunReplaced ==
  ASSUME runs \in Seq(Run), NEW r \in DOMAIN runs, NEW new \in Run
  PROVE  /\ [runs EXCEPT ![r] = new] \in Seq(Run)
         /\ Len([runs EXCEPT ![r] = new]) = Len(runs)
         /\ r \in 1 .. Len(runs)
         /\ \A j \in 1 .. Len(runs) : [runs EXCEPT ![r] = new][j] = IF j = r THEN new ELSE runs[j]
<1>1. DOMAIN runs = 1 .. Len(runs)
  BY LenProperties
<1> QED
  BY <1>1, ExceptSeq

LEMMA RunTouched ==
  ASSUME runs \in Seq(Run), NEW r \in DOMAIN runs, NEW new \in Run,
         new.status = runs[r].status, new.commands = runs[r].commands
  PROVE  Kept([runs EXCEPT ![r] = new])
<1> DEFINE s == [runs EXCEPT ![r] = new]
<1>1. s \in Seq(Run) /\ Len(s) = Len(runs)
      /\ \A j \in 1 .. Len(runs) : s[j] = IF j = r THEN new ELSE runs[j]
  BY RunReplaced
<1> HIDE DEF s
<1>2. Kept(s)
  BY <1>1 DEF Kept
<1> QED
  BY <1>2 DEF s

LEMMA RunsUntouched ==
  ASSUME runs \in Seq(Run)
  PROVE  Kept(runs)
  BY DEF Kept

LEMMA CountErrorFits ==
  ASSUME runs \in Seq(Run), WorkerFits(worker, Len(runs)), worker.pc \notin {"leaving", "exited"},
         NEW next \in {"act", "loop"}
  PROVE  WorkerFits(CountError(worker, next), Len(runs)) /\ SameAccount(CountError(worker, next))
<1>1. worker \in Worker /\ worker.errors + 1 <= MaxErrors /\ MaxErrors \in Nat /\ NoTask \in Task
  BY CookbookAssumption DEF WorkerFits, Worker, Task
<1> DEFINE w == CountError(worker, next)
<1>2. PICK pc \in {"leaving", "act", "loop"} :
        /\ w = [worker EXCEPT !.errors = worker.errors + 1, !.task = NoTask, !.pc = pc]
        /\ pc = IF worker.errors + 1 >= MaxErrors THEN "leaving" ELSE next
  BY DEF CountError
<1>3. pc \in WorkerPc /\ worker.errors \in Nat /\ worker.errors + 1 \in Nat
  BY <1>1 DEF WorkerPc, Running, Worker
<1> HIDE DEF w
<1>4. w \in Worker
  BY <1>1, <1>2, <1>3 DEF Worker
<1>5. WorkerFits(w, Len(runs))
  <2>1. w.errors = worker.errors + 1 /\ w.task = NoTask /\ w.pc = pc
        /\ w.completions = worker.completions /\ w.streams = worker.streams
    BY <1>1, <1>2 DEF Worker
  <2>2. NoTask.id = 0
    BY DEF NoTask
  <2>3. Len(runs) \in Nat
    BY LenProperties
  <2>4. w.pc \notin {"leaving", "exited"} => w.errors < MaxErrors
    BY <1>1, <1>2, <1>3, <2>1
  <2> QED
    BY <1>1, <1>2, <1>3, <1>4, <2>1, <2>2, <2>3, <2>4 DEF WorkerFits, AtWork
<1>6. SameAccount(w)
  BY <1>1, <1>2 DEF SameAccount, Worker, Running
<1> QED
  BY <1>5, <1>6 DEF w

LEMMA RestFits ==
  ASSUME runs \in Seq(Run), WorkerFits(worker, Len(runs)), worker.pc \notin {"leaving", "exited"},
         NEW next \in {"act", "loop"}, NEW w,
         w = [worker EXCEPT !.errors = 0, !.task = NoTask, !.pc = next]
  PROVE  WorkerFits(w, Len(runs)) /\ SameAccount(w)
<1>1. worker \in Worker /\ MaxErrors \in Nat /\ MaxErrors > 0 /\ NoTask \in Task
  BY CookbookAssumption DEF WorkerFits, Task
<1>2. next \in WorkerPc
  BY DEF WorkerPc, Running
<1>3. w \in Worker
  BY <1>1, <1>2 DEF Worker
<1>4. w.errors = 0 /\ w.task = NoTask /\ w.pc = next
      /\ w.completions = worker.completions /\ w.streams = worker.streams
      /\ w.stream = worker.stream /\ w.missed = worker.missed
  BY <1>1 DEF Worker
<1>5. Len(runs) \in Nat /\ NoTask.id = 0
  BY LenProperties DEF NoTask
<1>6. WorkerFits(w, Len(runs))
  BY <1>1, <1>3, <1>4, <1>5 DEF WorkerFits, AtWork
<1> QED
  BY <1>4, <1>6 DEF SameAccount, Running

LEMMA AfterWfRests ==
  ASSUME runs \in Seq(Run), WorkerFits(worker, Len(runs)), worker.pc \notin {"leaving", "exited"},
         NEW outcome \in {"Idle", "TransportError", "Await", "Wait"}
  PROVE  /\ WorkerFits(AfterWf(worker, outcome), Len(runs))
         /\ SameAccount(AfterWf(worker, outcome))
<1>1. CASE outcome = "TransportError"
  <2>1. AfterWf(worker, outcome) = CountError(worker, "act")
    BY <1>1 DEF AfterWf, soleAfterWf, afterWf
  <2> QED
    BY <2>1, CountErrorFits
<1>2. CASE outcome # "TransportError"
  <2>1. AfterWf(worker, outcome) = [worker EXCEPT !.errors = 0, !.task = NoTask, !.pc = "act"]
    BY <1>2 DEF AfterWf, soleAfterWf, afterWf
  <2> QED
    BY <2>1, RestFits
<1> QED
  BY <1>1, <1>2

LEMMA AfterActRests ==
  ASSUME runs \in Seq(Run), WorkerFits(worker, Len(runs)), worker.pc \notin {"leaving", "exited"},
         NEW outcome
  PROVE  WorkerFits(AfterAct(worker, outcome), Len(runs)) /\ SameAccount(AfterAct(worker, outcome))
<1>1. CASE outcome = "TransportError"
  <2>1. AfterAct(worker, outcome) = CountError(worker, "loop")
    BY <1>1 DEF AfterAct
  <2> QED
    BY <2>1, CountErrorFits
<1>2. CASE outcome # "TransportError"
  <2>1. AfterAct(worker, outcome) = [worker EXCEPT !.errors = 0, !.task = NoTask, !.pc = "loop"]
    BY <1>2 DEF AfterAct
  <2> QED
    BY <2>1, RestFits
<1> QED
  BY <1>1, <1>2

\* A step that moves the worker on and counts no error.
LEMMA MovesOnFits ==
  ASSUME runs \in Seq(Run), WorkerFits(worker, Len(runs)), worker.pc # "exited",
         NEW w \in Worker, w.errors = worker.errors, w.completions = worker.completions,
         w.streams = worker.streams, w.stream = worker.stream, w.missed = worker.missed,
         worker.pc = "leaving" => w.pc = "exited",
         w.task.id <= Len(runs), w.pc \in AtWork => w.task # NoTask,
         w.pc = "exited" => w.rc = 1 \/ worker.completions >= demo.max_completions
  PROVE  WorkerFits(w, Len(runs)) /\ SameAccount(w)
<1>1. w.pc \notin {"leaving", "exited"} => worker.pc \notin {"leaving", "exited"}
  OBVIOUS
<1>2. WorkerFits(w, Len(runs))
  BY <1>1 DEF WorkerFits
<1>3. SameAccount(w)
  BY <1>1 DEF SameAccount
<1> QED
  BY <1>2, <1>3

LEMMA ResolveTicks ==
  ASSUME Types, resolveEndpoint
  PROVE  WorkerTicks /\ workflow' = workflow /\ runs' = runs
<1>1. PICK ok, tls \in BOOLEAN :
        /\ whoami(ok, tls)
        /\ worker' = IF ok THEN [worker EXCEPT !.pc = "register", !.tls = tls]
                     ELSE [worker EXCEPT !.pc = "exited", !.rc = 1]
  BY DEF resolveEndpoint
<1>2. PICK http \in get(0) : Spend(http) /\ UNCHANGED <<workflow, runs>>
  BY <1>1 DEF whoami
<1>3. Pays
  BY <1>2, SpendPays DEF Types, get
<1>4. worker \in Worker /\ worker.pc = "resolve"
  BY DEF Types, WorkerFits, resolveEndpoint
<1>5. WorkerFits(worker', Len(runs)) /\ SameAccount(worker')
  <2>1. /\ worker'.errors = worker.errors /\ worker'.completions = worker.completions
        /\ worker'.streams = worker.streams /\ worker'.stream = worker.stream
        /\ worker'.missed = worker.missed /\ worker'.task = worker.task
        /\ worker'.pc \in {"register", "exited"} /\ (worker'.pc = "exited" => worker'.rc = 1)
    BY <1>1, <1>4 DEF Worker
  <2>2. worker' \in Worker
    BY <1>1, <1>4 DEF Worker, WorkerPc
  <2> QED
    BY <1>4, <2>1, <2>2, MovesOnFits DEF Types, WorkerFits, AtWork
<1>6. Kept(runs')
  BY <1>2, RunsUntouched DEF Types
<1> QED
  BY <1>2, <1>3, <1>4, <1>5, <1>6 DEF WorkerTicks, resolveEndpoint

SameDeclaration ==
  /\ workflow' \in Deployment
  /\ workflow'.registered = workflow.registered /\ workflow'.signals = workflow.signals

Declares ==
  \/ SameDeclaration
  \/ /\ workflow' \in Deployment
     /\ workflow'.registered /\ workflow'.signals = collectSignals(demo.steps)

LEMMA RegisterTicks ==
  ASSUME Types, register
  PROVE  WorkerTicks /\ runs' = runs /\ Declares
<1>1. PICK ok \in BOOLEAN :
        /\ registerWorkflow(collectSignals(demo.steps), ok)
        /\ worker' = IF ok THEN [worker EXCEPT !.pc = "loop"]
                     ELSE [worker EXCEPT !.pc = "exited", !.rc = 1]
  BY DEF register
<1>2. PICK http \in post(0) :
        /\ Spend(http) /\ UNCHANGED runs
        /\ workflow' = IF http.done
                       THEN [workflow EXCEPT !.registered = TRUE, !.archived = FALSE,
                                             !.signals = collectSignals(demo.steps)]
                       ELSE workflow
  BY <1>1 DEF registerWorkflow
<1>3. Pays
  BY <1>2, SpendPays DEF Types, post
<1>4. worker \in Worker /\ worker.pc = "register"
  BY DEF Types, WorkerFits, register
<1>5. WorkerFits(worker', Len(runs)) /\ SameAccount(worker')
  <2>1. /\ worker'.errors = worker.errors /\ worker'.completions = worker.completions
        /\ worker'.streams = worker.streams /\ worker'.stream = worker.stream
        /\ worker'.missed = worker.missed /\ worker'.task = worker.task
        /\ worker'.pc \in {"loop", "exited"} /\ (worker'.pc = "exited" => worker'.rc = 1)
    BY <1>1, <1>4 DEF Worker
  <2>2. worker' \in Worker
    BY <1>1, <1>4 DEF Worker, WorkerPc, Running
  <2> QED
    BY <1>4, <2>1, <2>2, MovesOnFits DEF Types, WorkerFits, AtWork
<1>6. Kept(runs')
  BY <1>2, RunsUntouched DEF Types
<1>7. workflow \in Deployment
  BY DEF Types
<1>8. Declares
  <2>1. CASE workflow' = workflow
    BY <1>7, <2>1 DEF Declares, SameDeclaration
  <2>2. CASE workflow' = [workflow EXCEPT !.registered = TRUE, !.archived = FALSE,
                                          !.signals = collectSignals(demo.steps)]
    BY <1>7, <2>2 DEF Declares, Deployment
  <2> QED
    BY <1>2, <2>1, <2>2
<1> QED
  BY <1>2, <1>3, <1>4, <1>5, <1>6, <1>8 DEF WorkerTicks, register

LEMMA RoundStartsTicks ==
  ASSUME Types, roundStarts
  PROVE  WorkerTicks /\ workflow' = workflow /\ runs' = runs
<1>1. PICK pc \in {"leaving", "wf"} : worker' = [worker EXCEPT !.pc = pc]
  BY DEF roundStarts
<1>2. worker \in Worker /\ worker.pc = "loop"
  BY DEF Types, WorkerFits, roundStarts
<1>3. WorkerFits(worker', Len(runs)) /\ SameAccount(worker')
  <2>1. /\ worker'.errors = worker.errors /\ worker'.completions = worker.completions
        /\ worker'.streams = worker.streams /\ worker'.stream = worker.stream
        /\ worker'.missed = worker.missed /\ worker'.task = worker.task /\ worker'.pc = pc
    BY <1>1, <1>2 DEF Worker
  <2>2. worker' \in Worker
    BY <1>1, <1>2 DEF Worker, WorkerPc, Running
  <2> QED
    BY <1>2, <2>1, <2>2, MovesOnFits DEF Types, WorkerFits, AtWork
<1>4. runs' = runs /\ workflow' = workflow /\ faults' = faults
  BY DEF roundStarts, controlVars
<1>5. Kept(runs') /\ Pays
  BY <1>4, RunsUntouched DEF Types, Pays
<1> QED
  BY <1>2, <1>3, <1>4, <1>5 DEF WorkerTicks, roundStarts

LEMMA TaskTaken ==
  ASSUME runs \in Seq(Run), WorkerFits(worker, Len(runs)), worker.pc \notin {"leaving", "exited"},
         NEW r \in 1 .. Len(runs), NEW seen \in Run, NEW pc \in {"wfAnswer", "invoke"}, NEW w,
         w = [worker EXCEPT !.pc = pc, !.task = [id |-> r, seen |-> seen]]
  PROVE  WorkerFits(w, Len(runs)) /\ SameAccount(w)
<1> DEFINE task == [id |-> r, seen |-> seen]
<1>1. task \in [id : Nat \ {0}, seen : Run] /\ task.id = r /\ NoTask.id = 0 /\ r # 0
  BY DEF NoTask
<1>2. task # NoTask /\ task \in Task
  BY <1>1 DEF Task
<1> HIDE DEF task
<1>3. w = [worker EXCEPT !.pc = pc, !.task = task]
  BY DEF task
<1>4. worker \in Worker /\ pc \in WorkerPc
  BY DEF WorkerFits, WorkerPc, Running
<1>5. /\ w.errors = worker.errors /\ w.completions = worker.completions
      /\ w.streams = worker.streams /\ w.stream = worker.stream
      /\ w.missed = worker.missed /\ w.task = task /\ w.pc = pc
  BY <1>3, <1>4 DEF Worker
<1>6. w \in Worker
  BY <1>2, <1>3, <1>4 DEF Worker
<1>7. w.task.id <= Len(runs)
  BY <1>1, <1>5, LenProperties
<1> QED
  BY <1>1, <1>2, <1>5, <1>6, <1>7, MovesOnFits

LEMMA WfPollTicks ==
  ASSUME Types, wfPoll
  PROVE  WorkerTicks /\ workflow' = workflow
<1>0. runs \in Seq(Run) /\ faults \in 0 .. MaxFaults /\ faults \in Nat /\ WorkerFits(worker, Len(runs))
      /\ worker.pc = "wf" /\ DOMAIN runs = 1 .. Len(runs)
  BY Basics DEF wfPoll
<1> SUFFICES WorkerFits(worker', Len(runs)) /\ SameAccount(worker') /\ Kept(runs') /\ Pays
  BY <1>0 DEF wfPoll, WorkerTicks
<1>1. CASE \E r \in DOMAIN runs, c \in call(TRUE) :
             /\ runs[r].wft /\ ~isTerminal(runs[r].status) /\ c.grpc_status = "OK"
             /\ runs' = [runs EXCEPT ![r].news = FALSE]
             /\ worker' = [worker EXCEPT !.pc = "wfAnswer", !.task = [id |-> r, seen |-> runs'[r]]]
             /\ UNCHANGED faults
  <2>1. PICK r \in DOMAIN runs :
             /\ runs' = [runs EXCEPT ![r].news = FALSE]
             /\ worker' = [worker EXCEPT !.pc = "wfAnswer", !.task = [id |-> r, seen |-> runs'[r]]]
             /\ UNCHANGED faults
    BY <1>1
  <2>2. PICK new : new = [runs[r] EXCEPT !.news = FALSE]
    OBVIOUS
  <2>3. runs[r] \in Run /\ r \in 1 .. Len(runs)
    BY <1>0, ElementOfSeq
  <2>4. new \in Run /\ new.status = runs[r].status /\ new.commands = runs[r].commands
    BY <2>2, <2>3 DEF Run
  <2>5. runs' = [runs EXCEPT ![r] = new]
    BY <2>1, <2>2
  <2>6. Kept(runs') /\ runs'[r] = new
    BY <1>0, <2>4, <2>5, RunTouched
  <2>7. WorkerFits(worker', Len(runs)) /\ SameAccount(worker')
    BY <1>0, <2>1, <2>3, <2>4, <2>6, TaskTaken
  <2> QED
    BY <1>0, <2>1, <2>6, <2>7 DEF Pays
<1>2. CASE worker' = AfterWf(worker, "Idle") /\ UNCHANGED <<runs, faults>>
  BY <1>0, <1>2, AfterWfRests, RunsUntouched DEF Pays
<1>3. CASE \E c \in call(TRUE) : /\ Charge(c) /\ worker' = AfterWf(worker, "TransportError")
                                 /\ UNCHANGED runs
  BY <1>0, <1>3, AfterWfRests, RunsUntouched, ChargePays
<1> QED
  BY <1>1, <1>2, <1>3 DEF wfPoll

LEMMA ActPollTicks ==
  ASSUME Types, actPoll
  PROVE  WorkerTicks /\ workflow' = workflow /\ runs' = runs
<1>0. runs \in Seq(Run) /\ faults \in 0 .. MaxFaults /\ faults \in Nat /\ WorkerFits(worker, Len(runs))
      /\ worker.pc = "act" /\ DOMAIN runs = 1 .. Len(runs)
  BY Basics DEF actPoll
<1>4. runs' = runs /\ Kept(runs')
  BY <1>0, RunsUntouched DEF actPoll
<1> SUFFICES WorkerFits(worker', Len(runs)) /\ SameAccount(worker') /\ Pays
  BY <1>0, <1>4 DEF actPoll, WorkerTicks
<1>1. CASE \E r \in DOMAIN runs :
             /\ worker' = [worker EXCEPT !.pc = "invoke", !.task = [id |-> r, seen |-> runs[r]]]
             /\ UNCHANGED faults
  <2>1. PICK r \in DOMAIN runs :
             /\ worker' = [worker EXCEPT !.pc = "invoke", !.task = [id |-> r, seen |-> runs[r]]]
             /\ UNCHANGED faults
    BY <1>1
  <2>2. runs[r] \in Run /\ r \in 1 .. Len(runs)
    BY <1>0, ElementOfSeq
  <2>3. WorkerFits(worker', Len(runs)) /\ SameAccount(worker')
    BY <1>0, <2>1, <2>2, TaskTaken
  <2> QED
    BY <1>0, <2>1, <2>3 DEF Pays
<1>2. CASE worker' = AfterAct(worker, "Idle") /\ UNCHANGED faults
  BY <1>0, <1>2, AfterActRests DEF Pays
<1>3. CASE \E c \in call(TRUE) : Charge(c) /\ worker' = AfterAct(worker, "TransportError")
  BY <1>0, <1>3, AfterActRests, ChargePays
<1> QED
  BY <1>1, <1>2, <1>3 DEF actPoll

LEMMA InvokeTicks ==
  ASSUME Types, invoke
  PROVE  WorkerTicks /\ workflow' = workflow /\ runs' = runs
<1>0. worker \in Worker /\ worker.pc = "invoke" /\ WorkerFits(worker, Len(runs))
  BY Basics DEF invoke
<1>1. runs' = runs /\ workflow' = workflow /\ faults' = faults
  BY DEF invoke, controlVars
<1>2. \/ worker' = [worker EXCEPT !.pc = "actAnswer", !.result = "success"]
      \/ worker' = [worker EXCEPT !.pc = "chat", !.attempt = 0]
  BY DEF invoke
<1>3. /\ worker'.errors = worker.errors /\ worker'.completions = worker.completions
      /\ worker'.streams = worker.streams /\ worker'.stream = worker.stream
      /\ worker'.missed = worker.missed /\ worker'.task = worker.task
      /\ worker'.pc \in {"actAnswer", "chat"}
  BY <1>0, <1>2 DEF Worker
<1>4. worker' \in Worker
  <2>1. CASE worker' = [worker EXCEPT !.pc = "actAnswer", !.result = "success"]
    BY <1>0, <2>1 DEF Worker, WorkerPc, Running
  <2>2. CASE worker' = [worker EXCEPT !.pc = "chat", !.attempt = 0]
    BY <1>0, <2>2 DEF Worker, WorkerPc, Running
  <2> QED
    BY <1>2, <2>1, <2>2
<1>5. WorkerFits(worker', Len(runs)) /\ SameAccount(worker')
  BY <1>0, <1>3, <1>4, MovesOnFits, Basics DEF WorkerFits, AtWork
<1> QED
  BY <1>0, <1>1, <1>5, Basics, RunsUntouched DEF WorkerTicks, Pays, invoke

LEMMA UpdatedWorker ==
  ASSUME NEW w \in Worker, NEW n \in Nat, NEW result \in {"success", "failure"}
  PROVE  /\ [w EXCEPT !.attempt = n] \in Worker
         /\ [w EXCEPT !.pc = "actAnswer", !.result = result] \in Worker
<1>1. [w EXCEPT !.attempt = n] \in Worker
  BY DEF Worker
<1>2. "actAnswer" \in WorkerPc
  BY DEF WorkerPc, Running
<1>3. [w EXCEPT !.pc = "actAnswer", !.result = result] \in Worker
  BY <1>2 DEF Worker
<1> QED
  BY <1>1, <1>3

LEMMA ChatTicks ==
  ASSUME Types, mistralChat
  PROVE  WorkerTicks /\ workflow' = workflow /\ runs' = runs
<1>0. worker \in Worker /\ worker.pc = "chat" /\ WorkerFits(worker, Len(runs))
  BY Basics DEF mistralChat
<1>1. runs' = runs /\ workflow' = workflow
  BY DEF mistralChat
<1>2. PICK http \in post(0) \cup (IF faults = 0 THEN {} ELSE post(401)) :
        /\ faults' = IF Succeeds(http) THEN faults ELSE faults - 1
        /\ worker' = IF Succeeds(http)
                     THEN [worker EXCEPT !.pc = "actAnswer", !.result = "success"]
                     ELSE IF Disturbed(http) /\ worker.attempt + 1 < ChatAttempts
                     THEN [worker EXCEPT !.attempt = @ + 1]
                     ELSE [worker EXCEPT !.pc = "actAnswer", !.result = "failure"]
  BY DEF mistralChat
<1>3. Pays
  <2>1. CASE Succeeds(http)
    BY <1>2, <2>1, Basics DEF Pays
  <2>2. CASE ~Succeeds(http) /\ faults = 0
    <3>1. http \in Exchange(0)
      BY <1>2, <2>2 DEF post
    <3>2. ~Disturbed(http) => Succeeds(http)
      BY <3>1, Basics, ExchangeTells
    <3>3. Disturbed(http) => faults > 0
      BY <3>1, Basics, ExchangeTells
    <3> QED
      BY <2>2, <3>2, <3>3
  <2>3. CASE ~Succeeds(http) /\ faults # 0
    BY <1>2, <2>3, Basics DEF Pays
  <2> QED
    BY <2>1, <2>2, <2>3
<1>4. \/ worker' = [worker EXCEPT !.pc = "actAnswer", !.result = "success"]
      \/ worker' = [worker EXCEPT !.attempt = worker.attempt + 1]
      \/ worker' = [worker EXCEPT !.pc = "actAnswer", !.result = "failure"]
  BY <1>2
<1>5. worker.attempt + 1 \in Nat
  BY <1>0 DEF Worker
<1> DEFINE Chats(w) ==
             /\ w \in Worker /\ w.errors = worker.errors /\ w.completions = worker.completions
             /\ w.streams = worker.streams /\ w.stream = worker.stream
             /\ w.missed = worker.missed /\ w.task = worker.task /\ w.pc \in {"actAnswer", "chat"}
<1>6. ASSUME worker' = [worker EXCEPT !.attempt = worker.attempt + 1] PROVE Chats(worker')
  <2>1. /\ worker'.errors = worker.errors /\ worker'.completions = worker.completions
        /\ worker'.streams = worker.streams /\ worker'.stream = worker.stream
        /\ worker'.missed = worker.missed /\ worker'.task = worker.task
        /\ worker'.pc = worker.pc
    BY <1>0, <1>6 DEF Worker
  <2>2. PICK n \in Nat : worker' = [worker EXCEPT !.attempt = n]
    BY <1>5, <1>6
  <2>3. worker' \in Worker
    BY <1>0, <2>2, UpdatedWorker
  <2> QED
    BY <1>0, <2>1, <2>3
<1>7. ASSUME NEW result \in {"success", "failure"},
             worker' = [worker EXCEPT !.pc = "actAnswer", !.result = result]
      PROVE  Chats(worker')
  <2>1. /\ worker'.errors = worker.errors /\ worker'.completions = worker.completions
        /\ worker'.streams = worker.streams /\ worker'.stream = worker.stream
        /\ worker'.missed = worker.missed /\ worker'.task = worker.task
        /\ worker'.pc = "actAnswer"
    BY <1>0, <1>7 DEF Worker
  <2>2. worker' \in Worker
    BY <1>0, <1>7, UpdatedWorker
  <2> QED
    BY <2>1, <2>2
<1>9. Chats(worker')
  BY <1>4, <1>6, <1>7
<1>8. WorkerFits(worker', Len(runs)) /\ SameAccount(worker')
  BY <1>0, <1>9, MovesOnFits, Basics DEF WorkerFits, AtWork
<1> QED
  BY <1>0, <1>1, <1>3, <1>8, Basics, RunsUntouched DEF WorkerTicks, mistralChat

\* What an answer in time makes of the run.
Recorded(run, result) ==
  [run EXCEPT !.act = FALSE, !.wft = TRUE, !.news = TRUE,
              !.done = IF result = "success" THEN run.done + 1 ELSE run.done,
              !.failed = result = "failure"]

LEMMA RecordedRun ==
  ASSUME NEW run \in Run, NEW result \in {"success", "failure"}
  PROVE  /\ Recorded(run, result) \in Run
         /\ Recorded(run, result).status = run.status /\ Recorded(run, result).commands = run.commands
         /\ Recorded(run, result).input = run.input /\ Recorded(run, result).inbox = run.inbox
         /\ Recorded(run, result).lost = run.lost /\ ~Recorded(run, result).act
<1>1. PICK done \in Nat : done = IF result = "success" THEN run.done + 1 ELSE run.done
  BY DEF Run
<1>2. PICK failed \in BOOLEAN : failed = (result = "failure")
  OBVIOUS
<1>3. Recorded(run, result) = [run EXCEPT !.act = FALSE, !.wft = TRUE, !.news = TRUE,
                                          !.done = done, !.failed = failed]
  BY <1>1, <1>2, Zenon DEF Recorded
<1> QED
  BY <1>3 DEF Run

LEMMA ActAnswerTicks ==
  ASSUME Types, actAnswer
  PROVE  WorkerTicks /\ workflow' = workflow
<1>0. worker \in Worker /\ worker.pc = "actAnswer" /\ WorkerFits(worker, Len(runs))
      /\ runs \in Seq(Run) /\ DOMAIN runs = 1 .. Len(runs) /\ Len(runs) \in Nat
      /\ workflow' = workflow
  BY Basics DEF actAnswer
<1> DEFINE id == worker.task.id
<1>1. id \in 1 .. Len(runs)
  <2>1. worker.task # NoTask /\ worker.task \in Task /\ worker.task.id <= Len(runs)
    BY <1>0 DEF WorkerFits, AtWork, Worker
  <2> QED
    BY <1>0, <2>1 DEF Task
<1>2. PICK c \in call(~isTerminal(runs[id].status) /\ runs[id].act), again \in BOOLEAN :
        /\ Charge(c)
        /\ runs' = IF ~c.done \/ again THEN runs ELSE
                     [runs EXCEPT ![id].act = FALSE, ![id].wft = TRUE, ![id].news = TRUE,
                                  ![id].done = IF worker.result = "success" THEN @ + 1 ELSE @,
                                  ![id].failed = worker.result = "failure"]
        /\ worker' = AfterAct(worker, IF c.grpc_status = "OK" THEN worker.result
                                      ELSE "TransportError")
  BY DEF actAnswer
<1>3. Pays
  <2>1. PICK accepted : accepted = (~isTerminal(runs[id].status) /\ runs[id].act)
    OBVIOUS
  <2>2. accepted \in BOOLEAN /\ c \in call(accepted)
    BY <1>2, <2>1, Zenon
  <2> QED
    BY <1>2, <2>2, ChargePays, Basics
<1>4. Kept(runs')
  <2>1. CASE ~c.done \/ again
    BY <1>0, <1>2, <2>1, RunsUntouched
  <2>2. CASE ~(~c.done \/ again)
    <3>1. PICK new : new = Recorded(runs[id], worker.result)
      OBVIOUS
    <3>2. runs[id] \in Run /\ worker.result \in {"success", "failure"}
      BY <1>0, <1>1, ElementOfSeq DEF Worker
    <3>3. new \in Run /\ new.status = runs[id].status /\ new.commands = runs[id].commands
      BY <3>1, <3>2, RecordedRun
    <3>4. runs' = [runs EXCEPT ![id] = new]
      BY <1>2, <2>2, <3>1 DEF Recorded
    <3> QED
      BY <1>0, <1>1, <3>3, <3>4, RunTouched
  <2> QED
    BY <2>1, <2>2
<1>5. WorkerFits(worker', Len(runs)) /\ SameAccount(worker')
  BY <1>0, <1>2, AfterActRests
<1> QED
  BY <1>0, <1>3, <1>4, <1>5 DEF WorkerTicks, actAnswer

LEMMA LeaveTicks ==
  ASSUME Types, leave
  PROVE  WorkerTicks /\ workflow' = workflow /\ runs' = runs
<1>0. worker \in Worker /\ worker.pc = "leaving" /\ WorkerFits(worker, Len(runs))
  BY Basics DEF leave
<1>1. runs' = runs /\ workflow' = workflow /\ faults' = faults
  BY DEF leave, controlVars
<1>2. PICK rc \in {0, 1} : /\ worker' = [worker EXCEPT !.pc = "exited", !.rc = rc]
                           /\ rc = 1 \/ worker.completions >= demo.max_completions
  BY DEF leave
<1>3. /\ worker'.errors = worker.errors /\ worker'.completions = worker.completions
      /\ worker'.streams = worker.streams /\ worker'.stream = worker.stream
      /\ worker'.missed = worker.missed /\ worker'.task = worker.task
      /\ worker'.pc = "exited" /\ worker'.rc = rc
  BY <1>0, <1>2 DEF Worker
<1>4. worker' \in Worker
  BY <1>0, <1>2 DEF Worker, WorkerPc
<1>5. WorkerFits(worker', Len(runs)) /\ SameAccount(worker')
  BY <1>0, <1>2, <1>3, <1>4, MovesOnFits, Basics DEF WorkerFits, AtWork
<1> QED
  BY <1>0, <1>1, <1>5, Basics, RunsUntouched DEF WorkerTicks, Pays, leave

-----------------------------------------------------------------------------
(* The answer of a workflow tick.                                          *)

PathOf(input) == Path(demo.steps, input)

LEMMA DemoFits ==
  ASSUME demo \in Demos
  PROVE  /\ demo \in Demonstration
         /\ Nests(Steps) /\ demo.steps \in Seq(Steps) /\ demo.clients \in Seq(Client)
         /\ Len(demo.clients) \in Nat \ {0} /\ demo.max_completions = Len(demo.clients)
         /\ demo.program = "sole" => Len(demo.clients) = 1
<1>1. demo \in Demonstration
  BY CookbookAssumption
<1>2. Nests(Steps)
  BY CookbookAssumption DEF Nests
<1>3. demo.steps \in Seq(Steps) /\ demo.clients \in Seq(Client)
  BY <1>1 DEF Demonstration
<1>4. Len(demo.clients) \in 1 .. MaxRuns /\ demo.max_completions = Len(demo.clients)
      /\ (demo.program = "sole" => Len(demo.clients) = 1)
  BY ScriptsAssumption
<1>5. Len(demo.clients) \in Nat \ {0}
  BY <1>4, ControlPlaneAssumption
<1> QED
  BY <1>1, <1>2, <1>3, <1>4, <1>5

LEMMA PathIsSeq ==
  ASSUME demo \in Demos, NEW input
  PROVE  PathOf(input) \in Seq(Steps) /\ Len(PathOf(input)) \in Nat
<1>1. PathOf(input) \in Seq(Steps)
  BY DemoFits, PathIsCollected DEF PathOf
<1> QED
  BY <1>1, LenProperties

OpenSteps(run) ==
  {i \in run.done + 1 .. Len(PathOf(run.input)) :
     PathOf(run.input)[i].kind = "activity" \/ PathOf(run.input)[i].signal \notin run.inbox}

LEMMA PositionIs ==
  ASSUME demo \in Demos, NEW run \in Run
  PROVE  /\ Position(run) \in Nat \ {0}
         /\ Position(run) <= Len(PathOf(run.input)) =>
              Position(run) \in OpenSteps(run) /\ \A i \in OpenSteps(run) : Position(run) <= i
         /\ Position(run) > Len(PathOf(run.input)) => OpenSteps(run) = {}
<1> DEFINE path == PathOf(run.input)
           open == OpenSteps(run)
<1>1. Len(path) \in Nat /\ run.done \in Nat
  BY PathIsSeq DEF Run
<1>2. open \subseteq Nat \ {0} /\ \A i \in open : i <= Len(path)
  BY <1>1 DEF OpenSteps
<1>3. Position(run) = IF open = {} THEN Len(path) + 1
                      ELSE CHOOSE i \in open : \A j \in open : i <= j
  BY DEF Position, PathOf, OpenSteps
<1> HIDE DEF path, open
<1>4. CASE open = {}
  <2>1. Position(run) = Len(path) + 1
    BY <1>3, <1>4
  <2> QED
    BY <1>1, <1>4, <2>1 DEF path, open
<1>5. CASE open # {}
  <2>1. \E i \in open : \A j \in open : i <= j
    BY <1>2, <1>5, LeastNatural
  <2>2. Position(run) = CHOOSE i \in open : \A j \in open : i <= j
    BY <1>3, <1>5
  <2>3. Position(run) \in open /\ \A j \in open : Position(run) <= j
    BY <2>1, <2>2
  <2> QED
    BY <1>1, <1>2, <2>3 DEF path, open
<1> QED
  BY <1>4, <1>5

Decisions == {"Fail", "Await", "Complete", "Schedule", "Wait"}

StatusAfter(run, decision) ==
  IF decision = "Complete" THEN "COMPLETED" ELSE IF decision = "Fail" THEN "FAILED" ELSE run.status

Longer(commands, decision) ==
  IF decision = "Schedule" THEN Append(commands, "SCHEDULE")
  ELSE IF decision = "Complete" THEN Append(commands, "COMPLETE") ELSE commands

LEMMA AnsweredRun ==
  ASSUME demo \in Demos, NEW run \in Run, NEW decision \in Decisions
  PROVE  /\ Answered(run, decision) \in Run
         /\ Answered(run, decision).status = StatusAfter(run, decision)
         /\ Answered(run, decision).commands = Longer(run.commands, decision)
<1> DEFINE next == [run EXCEPT !.wft = run.news]
<1>1. next \in Run /\ next.status = run.status /\ next.commands = run.commands
  BY DEF Run
<1> HIDE DEF next
<1>2. CASE decision = "Schedule"
  <2>1. PICK n \in Nat : n = Position(run) - 1
    BY PositionIs
  <2>2. PICK more \in Seq(Commands) : more = Append(run.commands, "SCHEDULE")
    BY AppendProperties DEF Run, Commands
  <2>3. Answered(run, decision) = [next EXCEPT !.done = n, !.act = TRUE, !.commands = more]
    BY <1>1, <1>2, <2>1, <2>2 DEF Answered, next
  <2> QED
    BY <1>1, <1>2, <2>2, <2>3 DEF Run, StatusAfter, Longer
<1>3. CASE decision = "Complete"
  <2>2. PICK more \in Seq(Commands) : more = Append(run.commands, "COMPLETE")
    BY AppendProperties DEF Run, Commands
  <2>3. Answered(run, decision) = [next EXCEPT !.status = "COMPLETED", !.commands = more]
    BY <1>1, <1>3, <2>2 DEF Answered, next
  <2> QED
    BY <1>1, <1>3, <2>2, <2>3 DEF Run, StatusAfter, Longer, kTerminal
<1>4. CASE decision = "Fail"
  <2>1. Answered(run, decision) = [next EXCEPT !.status = "FAILED"]
    BY <1>4 DEF Answered, next
  <2> QED
    BY <1>1, <1>4, <2>1 DEF Run, StatusAfter, Longer, kTerminal
<1>5. CASE decision \notin {"Schedule", "Complete", "Fail"}
  <2>1. Answered(run, decision) = next
    BY <1>5 DEF Answered, next
  <2> QED
    BY <1>1, <1>5, <2>1 DEF StatusAfter, Longer
<1> QED
  BY <1>2, <1>3, <1>4, <1>5

LEMMA DecisionIs ==
  ASSUME NEW run
  PROVE  decide(run) \in Decisions
  BY DEF decide, Decisions

SoleStart == demo.program = "sole" /\ worker.pc \notin {"leaving", "exited"} => worker.completions = 0

\* The account of the worker after a tick with that outcome.
Account(w, outcome) ==
  /\ w.completions = IF outcome = "Complete" THEN worker.completions + 1 ELSE worker.completions
  /\ w.streams = IF outcome = "Complete" THEN Append(worker.streams, Append(worker.stream, "COMPLETE"))
                 ELSE worker.streams
  /\ w.stream = IF outcome = "Complete" THEN << >> ELSE Longer(worker.stream, outcome)
  /\ w.missed = worker.missed
  /\ w.pc # "exited"
  /\ demo.program = "sole" /\ outcome = "Complete" => w.pc = "leaving"

LEMMA ServedFits ==
  ASSUME Types, worker.pc = "wfAnswer", SoleStart
  PROVE  /\ WorkerFits(AfterWf(worker, "Complete"), Len(runs))
         /\ Account(AfterWf(worker, "Complete"), "Complete")
<1>0. worker \in Worker /\ Len(runs) \in Nat /\ WorkerFits(worker, Len(runs))
  BY Basics
<1>1. PICK longer \in Seq(Commands) : longer = Append(worker.stream, "COMPLETE")
  BY <1>0, AppendProperties DEF Worker, Commands
<1>2. worker.streams \in Seq(Seq(Commands)) /\ worker.completions = Len(worker.streams)
      /\ worker.completions \in Nat
  BY <1>0 DEF Worker, WorkerFits
<1>3. PICK streams : streams = Append(worker.streams, longer)
  OBVIOUS
<1>4. streams \in Seq(Seq(Commands)) /\ Len(streams) = worker.completions + 1
  BY <1>2, <1>3, AppendProperties
<1>5. PICK n \in Nat : n = worker.completions + 1
  BY <1>2
<1> DEFINE empty == << >>
<1>6. empty \in Seq(Commands)
  OBVIOUS
<1>7. NoTask \in Task /\ NoTask.id = 0
  BY DEF Task, NoTask
<1>8. worker.errors \in Nat /\ worker.errors <= MaxErrors /\ 0 < MaxErrors /\ MaxErrors \in Nat
  BY <1>0, CookbookAssumption DEF WorkerFits, Worker
<1> DEFINE w == AfterWf(worker, "Complete")
<1>9. CASE demo.program = "sole"
  <2>1. worker.completions = 0 /\ n = 1
    BY <1>5, <1>9 DEF SoleStart
  <2>2. worker.streams = << >>
    BY <1>2, <2>1, EmptySeq, LenProperties
  <2>3. streams = << longer >>
    BY <1>1, <1>3, <2>2
  <2>4. w = [worker EXCEPT !.streams = streams, !.stream = empty, !.completions = n,
                           !.task = NoTask, !.pc = "leaving"]
    BY <1>1, <1>9, <2>1, <2>3 DEF AfterWf, soleAfterWf
  <2> HIDE DEF w, empty
  <2>5. w \in Worker
    BY <1>0, <1>4, <1>6, <1>7, <2>4 DEF Worker, WorkerPc, Running
  <2>6. /\ w.streams = streams /\ w.stream = empty /\ w.completions = n /\ w.task = NoTask
        /\ w.pc = "leaving" /\ w.errors = worker.errors /\ w.missed = worker.missed
    BY <1>0, <2>4 DEF Worker
  <2>7. WorkerFits(w, Len(runs))
    BY <1>0, <1>4, <1>5, <1>7, <1>8, <2>5, <2>6 DEF WorkerFits, AtWork
  <2>8. Account(w, "Complete")
    BY <1>1, <1>3, <1>5, <2>6 DEF Account, empty
  <2> QED
    BY <2>7, <2>8 DEF w
<1>10. CASE demo.program # "sole"
  <2>4. w = [worker EXCEPT !.errors = 0, !.streams = streams, !.stream = empty, !.completions = n,
                           !.task = NoTask, !.pc = "loop"]
    BY <1>0, <1>1, <1>3, <1>5, <1>10 DEF AfterWf, afterWf, Worker
  <2> HIDE DEF w, empty
  <2>5. w \in Worker
    BY <1>0, <1>4, <1>6, <1>7, <2>4 DEF Worker, WorkerPc, Running
  <2>6. /\ w.streams = streams /\ w.stream = empty /\ w.completions = n /\ w.task = NoTask
        /\ w.pc = "loop" /\ w.errors = 0 /\ w.missed = worker.missed
    BY <1>0, <2>4 DEF Worker
  <2>7. WorkerFits(w, Len(runs))
    BY <1>0, <1>4, <1>5, <1>7, <1>8, <2>5, <2>6 DEF WorkerFits, AtWork
  <2>8. Account(w, "Complete")
    BY <1>1, <1>3, <1>5, <1>10, <2>6 DEF Account, empty
  <2> QED
    BY <2>7, <2>8 DEF w
<1> QED
  BY <1>9, <1>10

LEMMA AfterWfFits ==
  ASSUME Types, worker.pc = "wfAnswer", SoleStart, NEW decision \in Decisions
  PROVE  /\ WorkerFits(AfterWf(worker, decision), Len(runs))
         /\ Account(AfterWf(worker, decision), decision)
<1>0. worker \in Worker /\ Len(runs) \in Nat /\ WorkerFits(worker, Len(runs)) /\ runs \in Seq(Run)
  BY Basics
<1> DEFINE w == AfterWf(worker, decision)
<1>1. CASE decision = "Complete"
  BY <1>1, ServedFits
<1>2. CASE decision = "Schedule"
  <2>1. PICK longer \in Seq(Commands) : longer = Append(worker.stream, "SCHEDULE")
    BY <1>0, AppendProperties DEF Worker, Commands
  <2> DEFINE calm == [worker EXCEPT !.errors = 0, !.task = NoTask, !.pc = "act"]
  <2>2. WorkerFits(calm, Len(runs)) /\ SameAccount(calm) /\ calm.pc = "act"
    BY <1>0, RestFits DEF Worker
  <2>3. w = [calm EXCEPT !.stream = longer]
    BY <1>0, <1>2, <2>1 DEF AfterWf, soleAfterWf, afterWf, Worker
  <2> HIDE DEF w, calm
  <2>4. calm \in Worker
    BY <2>2 DEF WorkerFits
  <2>5. w \in Worker
    BY <2>1, <2>3, <2>4 DEF Worker
  <2>6. /\ w.errors = calm.errors /\ w.completions = calm.completions /\ w.streams = calm.streams
        /\ w.task = calm.task /\ w.pc = calm.pc /\ w.missed = calm.missed /\ w.stream = longer
    BY <2>3, <2>4 DEF Worker
  <2>7. WorkerFits(w, Len(runs))
    BY <2>2, <2>5, <2>6 DEF WorkerFits
  <2>8. Account(w, decision)
    BY <1>2, <2>1, <2>2, <2>6 DEF Account, SameAccount, Longer
  <2> QED
    BY <2>7, <2>8 DEF w
<1>3. CASE decision = "Fail"
  <2>1. w = [worker EXCEPT !.pc = "leaving", !.task = NoTask]
    BY <1>3 DEF AfterWf, soleAfterWf, afterWf
  <2> HIDE DEF w
  <2>2. NoTask \in Task /\ NoTask.id = 0
    BY DEF Task, NoTask
  <2>3. w \in Worker
    BY <1>0, <2>1, <2>2 DEF Worker, WorkerPc, Running
  <2>4. /\ w.errors = worker.errors /\ w.completions = worker.completions
        /\ w.streams = worker.streams /\ w.task = NoTask /\ w.pc = "leaving"
        /\ w.missed = worker.missed /\ w.stream = worker.stream
    BY <1>0, <2>1 DEF Worker
  <2>5. WorkerFits(w, Len(runs))
    BY <1>0, <2>2, <2>3, <2>4 DEF WorkerFits, AtWork
  <2>6. Account(w, decision)
    BY <1>3, <2>4 DEF Account, Longer
  <2> QED
    BY <2>5, <2>6 DEF w
<1>4. CASE decision \in {"Await", "Wait"}
  <2>1. w = [worker EXCEPT !.errors = 0, !.task = NoTask, !.pc = "act"]
    BY <1>4 DEF AfterWf, soleAfterWf, afterWf
  <2>2. WorkerFits(w, Len(runs)) /\ SameAccount(w)
    BY <1>0, <1>4, AfterWfRests
  <2>3. w.pc = "act"
    BY <1>0, <2>1 DEF Worker
  <2> HIDE DEF w
  <2>4. Account(w, decision)
    BY <1>4, <2>2, <2>3 DEF Account, SameAccount, Longer
  <2> QED
    BY <2>2, <2>4 DEF w
<1> QED
  BY <1>1, <1>2, <1>3, <1>4 DEF Decisions

Moved(s, id, decision) ==
  /\ s \in Seq(Run) /\ Len(s) = Len(runs)
  /\ \A r \in 1 .. Len(runs) :
       /\ s[r].status = IF r = id THEN StatusAfter(runs[id], decision) ELSE runs[r].status
       /\ s[r].commands = IF r = id THEN Longer(runs[id].commands, decision) ELSE runs[r].commands

Unheard(w) ==
  /\ w.missed /\ w.completions = worker.completions /\ w.streams = worker.streams
  /\ w.pc # "exited"

Accepted(id, decision) ==
  /\ ~isTerminal(runs[id].status)
  /\ Moved(runs', id, decision)
  /\ Account(worker', decision) \/ Unheard(worker')

WorkerAnswers ==
  /\ demo' = demo /\ client' = client /\ late' = late /\ workflow' = workflow
  /\ worker.pc = "wfAnswer" /\ Pays /\ WorkerFits(worker', Len(runs))
  /\ \/ Kept(runs') /\ SameAccount(worker') /\ worker'.pc # "exited"
     \/ \E id \in 1 .. Len(runs), decision \in Decisions : Accepted(id, decision)

LEMMA MissedFits ==
  ASSUME NEW v, NEW n, WorkerFits(v, n), NEW missed \in BOOLEAN, NEW w,
         w = [v EXCEPT !.missed = missed]
  PROVE  /\ WorkerFits(w, n) /\ w.missed = missed
         /\ w.completions = v.completions /\ w.streams = v.streams /\ w.stream = v.stream
         /\ w.pc = v.pc /\ w.rc = v.rc
<1>1. v \in Worker
  BY DEF WorkerFits
<1>2. w \in Worker
  BY <1>1 DEF Worker
<1>3. /\ w.missed = missed /\ w.completions = v.completions /\ w.streams = v.streams
      /\ w.stream = v.stream /\ w.pc = v.pc /\ w.rc = v.rc /\ w.errors = v.errors /\ w.task = v.task
  BY <1>1 DEF Worker
<1> QED
  BY <1>2, <1>3 DEF WorkerFits

LEMMA WfAnswerAnswers ==
  ASSUME Types, SoleStart, wfAnswer
  PROVE  WorkerAnswers
<1>0. worker \in Worker /\ worker.pc = "wfAnswer" /\ WorkerFits(worker, Len(runs))
      /\ runs \in Seq(Run) /\ DOMAIN runs = 1 .. Len(runs) /\ Len(runs) \in Nat
  BY Basics DEF wfAnswer
<1>d. demo \in Demos
  BY DEF Types
<1> DEFINE id == worker.task.id
<1>1. id \in 1 .. Len(runs)
  <2>1. worker.task # NoTask /\ worker.task \in Task /\ worker.task.id <= Len(runs)
    BY <1>0 DEF WorkerFits, AtWork, Worker
  <2> QED
    BY <1>0, <2>1 DEF Task
<1>2. PICK decision \in Decisions : decision = decide(worker.task.seen)
  BY DecisionIs
<1>3. PICK accepted \in BOOLEAN : accepted = Acceptable(runs[id], decision)
  BY Zenon DEF Acceptable
<1>4. PICK c \in call(accepted) :
        /\ Charge(c)
        /\ runs' = IF c.done THEN [runs EXCEPT ![id] = Answered(runs[id], decision)] ELSE runs
        /\ worker' = [AfterWf(worker, IF c.grpc_status = "OK" THEN decision ELSE "TransportError")
                      EXCEPT !.missed = @ \/ (c.done /\ c.grpc_status # "OK")]
  BY <1>2, <1>3 DEF wfAnswer
<1>5. Pays
  BY <1>4, ChargePays, Basics
<1>6. c.done \in BOOLEAN /\ (c.done => accepted) /\ (c.grpc_status = "OK" => c.done)
  BY CallTells, Basics
<1>7. PICK v : v = AfterWf(worker, IF c.grpc_status = "OK" THEN decision ELSE "TransportError")
  OBVIOUS
<1>8. PICK missed : missed = (v.missed \/ (c.done /\ c.grpc_status # "OK"))
  OBVIOUS
<1>9. worker' = [v EXCEPT !.missed = missed]
  BY <1>4, <1>7, <1>8
<1>10. WorkerFits(v, Len(runs)) /\ v \in Worker
       /\ (c.grpc_status = "OK" => Account(v, decision))
       /\ (c.grpc_status # "OK" => SameAccount(v) /\ v.pc # "exited")
  <2>1. CASE c.grpc_status = "OK"
    BY <1>0, <1>7, <2>1, AfterWfFits DEF WorkerFits
  <2>2. CASE c.grpc_status # "OK"
    <3>1. v = CountError(worker, "act")
      BY <1>7, <2>2 DEF AfterWf, soleAfterWf, afterWf
    <3>2. WorkerFits(v, Len(runs)) /\ SameAccount(v)
      BY <1>0, <3>1, CountErrorFits
    <3>3. v.pc # "exited"
      BY <1>0, <3>1 DEF CountError, Worker
    <3> QED
      BY <2>2, <3>2, <3>3 DEF WorkerFits
  <2> QED
    BY <2>1, <2>2
<1>11. missed \in BOOLEAN
  BY <1>8, Zenon
<1>12. /\ WorkerFits(worker', Len(runs)) /\ worker'.missed = missed
       /\ worker'.completions = v.completions /\ worker'.streams = v.streams
       /\ worker'.stream = v.stream /\ worker'.pc = v.pc /\ worker'.rc = v.rc
  BY <1>9, <1>10, <1>11, MissedFits
<1>13. v.missed \in BOOLEAN
  BY <1>10 DEF Worker
<1>14. CASE ~c.done
  <2>1. missed = v.missed
    BY <1>6, <1>8, <1>13, <1>14, Zenon
  <2>2. Kept(runs')
    BY <1>0, <1>4, <1>14, RunsUntouched
  <2>3. c.grpc_status # "OK"
    BY <1>6, <1>14
  <2>4. SameAccount(worker') /\ worker'.pc # "exited"
    BY <1>10, <1>12, <2>1, <2>3 DEF SameAccount
  <2> QED
    BY <1>0, <1>5, <1>12, <2>2, <2>4 DEF WorkerAnswers, wfAnswer
<1>15. CASE c.done
  <2>1. ~isTerminal(runs[id].status)
    BY <1>3, <1>6, <1>15 DEF Acceptable
  <2>2. PICK new : new = Answered(runs[id], decision)
    OBVIOUS
  <2>3. runs[id] \in Run
    BY <1>0, <1>1, ElementOfSeq
  <2>4. new \in Run /\ new.status = StatusAfter(runs[id], decision)
        /\ new.commands = Longer(runs[id].commands, decision)
    BY <1>d, <2>2, <2>3, AnsweredRun
  <2>5. runs' = [runs EXCEPT ![id] = new]
    BY <1>4, <1>15, <2>2
  <2>6. runs' \in Seq(Run) /\ Len(runs') = Len(runs)
        /\ \A j \in 1 .. Len(runs) : runs'[j] = IF j = id THEN new ELSE runs[j]
    BY <1>0, <1>1, <2>4, <2>5, RunReplaced
  <2>7. Moved(runs', id, decision)
    BY <2>4, <2>6 DEF Moved
  <2>8. CASE c.grpc_status = "OK"
    <3>1. missed = v.missed
      BY <1>8, <1>13, <2>8, Zenon
    <3>2. Account(worker', decision)
      BY <1>10, <1>12, <2>8, <3>1 DEF Account
    <3>3. Accepted(id, decision)
      BY <2>1, <2>7, <3>2 DEF Accepted
    <3> QED
      BY <1>0, <1>1, <1>5, <1>12, <3>3 DEF WorkerAnswers, wfAnswer
  <2>9. CASE c.grpc_status # "OK"
    <3>1. missed
      BY <1>8, <1>15, <2>9, Zenon
    <3>2. Unheard(worker')
      BY <1>10, <1>12, <2>9, <3>1 DEF Unheard, SameAccount
    <3>3. Accepted(id, decision)
      BY <2>1, <2>7, <3>2 DEF Accepted
    <3> QED
      BY <1>0, <1>1, <1>5, <1>12, <3>3 DEF WorkerAnswers, wfAnswer
  <2> QED
    BY <2>8, <2>9
<1> QED
  BY <1>6, <1>14, <1>15

-----------------------------------------------------------------------------
(* The steps of the script.                                                *)

Returned(c, rc, d) ==
  /\ d.rcs = Append(c.rcs, rc) /\ d.id = c.id /\ d.status = c.status /\ d.named = c.named
  /\ d.sig = c.sig /\ d.spared = c.spared /\ d.timedOut = c.timedOut /\ d.waited = c.waited
  /\ \/ /\ d.pc = "active" /\ d.k = c.k + 1 /\ c.k < Len(demo.clients)
        /\ rc = 1 => ~demo.errexit
     \/ /\ d.pc \in {"kill", "wait"} /\ d.k = c.k
        /\ d.pc = "wait" => c.k = Len(demo.clients)
        /\ d.pc = "kill" /\ rc = 0 => demo.program = "sole" /\ c.named = 0

LEMMA ReturnFits ==
  ASSUME demo \in Demos, NEW n, NEW c, ClientFits(c, n), NEW rc \in {0, 1}
  PROVE  ClientFits(Return(c, rc), n) /\ Returned(c, rc, Return(c, rc))
<1>0. c \in Script1 /\ c.k <= Len(demo.clients) /\ Len(demo.clients) \in Nat /\ c.k \in Nat \ {0}
      /\ demo.errexit \in BOOLEAN
  BY DemoFits DEF ClientFits, Script1, Demonstration
<1>1. PICK rcs \in Seq({0, 1}) : rcs = Append(c.rcs, rc)
  BY <1>0, AppendProperties DEF Script1
<1> DEFINE aborts == (rc = 1 /\ demo.errexit) \/ (demo.program = "sole" /\ c.named = 0)
           more == c.k < Len(demo.clients)
           d == Return(c, rc)
<1>2. d = [c EXCEPT !.rcs = rcs, !.k = IF more /\ ~aborts THEN @ + 1 ELSE @,
                    !.pc = IF aborts THEN "kill" ELSE IF more THEN "active" ELSE "wait"]
  BY <1>1 DEF Return
<1>3. PICK k \in Nat \ {0} : k = IF more /\ ~aborts THEN c.k + 1 ELSE c.k
  BY <1>0
<1>4. PICK pc \in {"kill", "active", "wait"} :
        pc = IF aborts THEN "kill" ELSE IF more THEN "active" ELSE "wait"
  OBVIOUS
<1>5. d = [c EXCEPT !.rcs = rcs, !.k = k, !.pc = pc]
  BY <1>0, <1>2, <1>3, <1>4 DEF Script1
<1> HIDE DEF d
<1>6. d \in Script1
  <2>1. pc \in ClientPc
    BY <1>4 DEF ClientPc, Starting
  <2>2. [c EXCEPT !.rcs = rcs, !.k = k, !.pc = pc] \in Script1
    BY ONLY <1>0, <1>1, <1>3, <2>1 DEF Script1
  <2> QED
    BY <1>5, <2>2
<1>7. /\ d.rcs = rcs /\ d.k = k /\ d.pc = pc /\ d.id = c.id /\ d.status = c.status /\ d.named = c.named
      /\ d.sig = c.sig /\ d.spared = c.spared /\ d.timedOut = c.timedOut /\ d.waited = c.waited
  BY <1>0, <1>5 DEF Script1
<1>8. k <= Len(demo.clients)
  BY <1>0, <1>3
<1>9. ClientFits(d, n)
  BY <1>0, <1>4, <1>6, <1>7, <1>8 DEF ClientFits, Watching
<1>10. CASE pc = "active"
  <2>1. ~aborts /\ more /\ k = c.k + 1
    BY <1>3, <1>4, <1>10
  <2> QED
    BY <1>1, <1>7, <1>9, <1>10, <2>1 DEF Returned, d
<1>11. CASE pc # "active"
  <2>1. k = c.k /\ (pc = "wait" => ~more) /\ (pc = "kill" => aborts)
    BY <1>3, <1>4, <1>11
  <2>2. pc = "wait" => c.k = Len(demo.clients)
    BY <1>0, <2>1
  <2> QED
    BY <1>1, <1>4, <1>7, <1>9, <1>11, <2>1, <2>2 DEF Returned, d
<1> QED
  BY <1>10, <1>11

Turns(rc) ==
  /\ client'.rcs = Append(client.rcs, rc)
  /\ client'.spared = client.spared /\ client'.waited = client.waited
  /\ \/ /\ client'.pc = "active" /\ client'.k = client.k + 1 /\ client.k < Len(demo.clients)
        /\ rc = 1 => ~demo.errexit
     \/ /\ client'.pc \in {"kill", "wait"} /\ client'.k = client.k
        /\ client'.pc = "wait" => client.k = Len(demo.clients)
        /\ client'.pc = "kill" /\ rc = 0 => demo.program = "sole" /\ client'.named = 0

Stays ==
  /\ client'.k = client.k /\ client'.rcs = client.rcs /\ client'.id = client.id
  /\ client'.named = client.named /\ client'.spared = client.spared
  /\ client'.waited = client.waited /\ client'.sig = client.sig

LEMMA ActiveTells ==
  ASSUME faults \in Nat, NEW result, workflowActive(result)
  PROVE  Pays /\ workflow' = workflow /\ runs' = runs
<1>1. PICK http \in get(IF workflow.registered THEN 0 ELSE 404) :
        Spend(http) /\ UNCHANGED <<workflow, runs>>
  BY DEF workflowActive
<1>2. PICK refusal \in {0, 404} : refusal = IF workflow.registered THEN 0 ELSE 404
  OBVIOUS
<1>3. http \in Exchange(refusal)
  BY <1>1, <1>2 DEF get
<1> QED
  BY <1>1, <1>3, SpendPays

LEMMA ExecutionTells ==
  ASSUME faults \in Nat, NEW id, NEW result, getExecution(id, result)
  PROVE  /\ Pays /\ workflow' = workflow /\ runs' = runs
         /\ result # "failure" => result = runs[id].status
         /\ result = "failure" => runs[id].status = "failure" \/ faults' < faults
<1>1. PICK http \in get(0) : /\ Spend(http) /\ UNCHANGED <<workflow, runs>>
                             /\ result = IF Succeeds(http) THEN runs[id].status ELSE "failure"
  BY DEF getExecution
<1>2. http \in Exchange(0)
  BY <1>1 DEF get
<1>3. ~Succeeds(http) => Disturbed(http)
  BY <1>2, ExchangeTells
<1> QED
  BY <1>1, <1>2, <1>3, SpendPays

LEMMA AwaitActiveDoes ==
  ASSUME Types, awaitActive
  PROVE  /\ client.pc = "active" /\ Pays /\ workflow' = workflow /\ runs' = runs
         /\ ClientFits(client', Len(runs)) /\ late' \in SUBSET {"worker", "client"}
         /\ client'.named = client.named /\ client'.sig = client.sig
         /\ \/ Turns(1) /\ client'.timedOut
            \/ Stays /\ client'.pc \in Starting /\ client'.timedOut = client.timedOut
<1>0. client \in Script1 /\ client.pc = "active" /\ ClientFits(client, Len(runs)) /\ demo \in Demos
      /\ late \in SUBSET {"worker", "client"}
  BY Basics DEF awaitActive, Types
<1>1. CASE /\ client' = Return([client EXCEPT !.timedOut = TRUE], 1)
           /\ FreshDeadline /\ UNCHANGED controlVars
  <2>1. PICK c : c = [client EXCEPT !.timedOut = TRUE]
    OBVIOUS
  <2>2. c \in Script1
    BY <1>0, <2>1 DEF Script1
  <2>3. /\ c.k = client.k /\ c.id = client.id /\ c.named = client.named /\ c.pc = client.pc
        /\ c.rcs = client.rcs /\ c.spared = client.spared /\ c.waited = client.waited
        /\ c.sig = client.sig /\ c.timedOut
    BY <1>0, <2>1 DEF Script1
  <2>4. ClientFits(c, Len(runs))
    BY <1>0, <2>2, <2>3 DEF ClientFits
  <2>5. ClientFits(client', Len(runs)) /\ Returned(c, 1, client')
    BY <1>0, <1>1, <2>1, <2>4, ReturnFits
  <2>6. Turns(1) /\ client'.timedOut /\ client'.named = client.named /\ client'.sig = client.sig
    BY <2>3, <2>5 DEF Returned, Turns
  <2> QED
    BY <1>0, <1>1, <2>5, <2>6, Basics DEF FreshDeadline, controlVars, Pays
<1>2. CASE /\ \E result \in {"active", "inactive", "failure"} :
                /\ workflowActive(result)
                /\ client' = IF result = "active" THEN [client EXCEPT !.pc = "execute"] ELSE client
           /\ UNCHANGED late
  <2>1. PICK pc \in Starting : client' = [client EXCEPT !.pc = pc]
    <3>1. client = [client EXCEPT !.pc = "active"]
      BY <1>0 DEF Script1
    <3> QED
      BY <1>2, <3>1 DEF Starting
  <2>2. client' \in Script1
    BY <1>0, <2>1 DEF Script1, ClientPc
  <2>3. Stays /\ client'.pc = pc /\ client'.timedOut = client.timedOut
    BY <1>0, <2>1 DEF Script1, Stays
  <2>4. ClientFits(client', Len(runs))
    BY <1>0, <2>1, <2>2, <2>3 DEF ClientFits, Stays, Starting, Watching
  <2> QED
    BY <1>0, <1>2, <2>1, <2>3, <2>4, ActiveTells, Basics DEF Stays
<1> QED
  BY <1>1, <1>2 DEF awaitActive

Input == demo.clients[client.k].input

LEMMA ClientIs ==
  ASSUME Types
  PROVE  /\ client.k \in 1 .. Len(demo.clients) /\ demo.clients[client.k] \in Client
         /\ Input \in Inputs /\ demo.clients[client.k].signal \in Signals
         /\ Mode \in {"trigger", "hitl"} /\ Len(demo.clients) \in Nat /\ client.k \in Nat
<1>1. client.k \in Nat \ {0} /\ client.k <= Len(demo.clients)
  BY Basics DEF ClientFits, Script1
<1>2. demo.clients \in Seq(Client) /\ Len(demo.clients) \in Nat
  BY DemoFits DEF Types
<1>3. demo.clients[client.k] \in Client
  BY <1>1, <1>2, ElementOfSeq
<1> QED
  BY <1>1, <1>2, <1>3 DEF Client, Input, Mode

LEMMA NewRunFits ==
  ASSUME NEW input \in Inputs
  PROVE  /\ NewRun(input) \in Run /\ NewRun(input).status = "RUNNING"
         /\ NewRun(input).commands = << >>
<1> DEFINE none == << >>
<1>1. none \in Seq(Commands)
  OBVIOUS
<1> HIDE DEF none
<1>2. NewRun(input) = [status |-> "RUNNING", input |-> input, done |-> 0, wft |-> TRUE, act |-> FALSE,
                       failed |-> FALSE, lost |-> FALSE, news |-> FALSE, inbox |-> {}, commands |-> none]
  BY DEF NewRun, none
<1>3. NewRun(input) \in Run /\ NewRun(input).status = "RUNNING" /\ NewRun(input).commands = none
  BY <1>1, <1>2 DEF Run
<1> QED
  BY <1>3 DEF none

Started == runs' = Append(runs, NewRun(Input))

LEMMA StartedRuns ==
  ASSUME Types, Started
  PROVE  /\ runs' \in Seq(Run) /\ Len(runs') = Len(runs) + 1
         /\ \A r \in 1 .. Len(runs) : runs'[r] = runs[r]
         /\ runs'[Len(runs) + 1] = NewRun(Input)
  BY Basics, ClientIs, NewRunFits, AppendProperties DEF Started

LEMMA ExecuteDoes ==
  ASSUME Types, execute
  PROVE  /\ client.pc = "execute" /\ Pays /\ workflow' = workflow
         /\ runs' = runs \/ Started
         /\ ClientFits(client', Len(runs')) /\ late' \in SUBSET {"worker", "client"}
         /\ client'.named = client.named /\ client'.sig = client.sig
         /\ client'.timedOut = client.timedOut
         /\ \/ /\ Turns(1)
               /\ faults' < faults \/ ~workflow.registered \/ Len(runs) >= MaxRuns
            \/ /\ Started /\ workflow.registered /\ client'.id = Len(runs')
               /\ client'.k = client.k /\ client'.rcs = client.rcs
               /\ client'.spared = client.spared /\ client'.waited = client.waited
               /\ client'.status = ""
               /\ client'.pc = IF Mode = "hitl" THEN "observe" ELSE "poll"
<1>0. client \in Script1 /\ client.pc = "execute" /\ ClientFits(client, Len(runs)) /\ demo \in Demos
      /\ late \in SUBSET {"worker", "client"} /\ Len(runs) \in Nat
  BY Basics DEF execute, Types
<1>1. PICK id \in 0 .. MaxRuns :
        /\ executeWorkflow(Input, id)
        /\ client' = IF id = 0 THEN Return(client, 1)
                     ELSE [client EXCEPT !.id = id, !.status = "",
                                         !.pc = IF Mode = "hitl" THEN "observe" ELSE "poll"]
  BY DEF execute, Input
<1>2. PICK refusal \in {0, 404} :
        refusal = IF workflow.registered /\ Len(runs) < MaxRuns THEN 0 ELSE 404
  OBVIOUS
<1>3. PICK http \in Exchange(refusal) :
        /\ Spend(http)
        /\ runs' = IF http.done THEN Append(runs, NewRun(Input)) ELSE runs
        /\ id = IF Succeeds(http) THEN Len(runs) + 1 ELSE 0
        /\ workflow' = workflow
  BY <1>1, <1>2 DEF executeWorkflow, post
<1>4. Pays /\ (runs' = runs \/ Started)
  BY <1>3, SpendPays, Basics DEF Started
<1>5. late' \in SUBSET {"worker", "client"}
  BY <1>0 DEF execute, FreshDeadline
<1>6. CASE id = 0
  <2>1. ~Succeeds(http)
    BY <1>0, <1>3, <1>6
  <2>2. Disturbed(http) \/ refusal # 0
    BY <2>1, ExchangeTells, Basics
  <2>3. faults' < faults \/ ~workflow.registered \/ Len(runs) >= MaxRuns
    BY <1>0, <1>2, <1>3, <2>2, SpendPays, Basics, ControlPlaneAssumption
  <2>4. ClientFits(client', Len(runs)) /\ Returned(client, 1, client')
    BY <1>0, <1>1, <1>6, ReturnFits
  <2>5. ClientFits(client', Len(runs'))
    <3>1. CASE runs' = runs
      BY <2>4, <3>1
    <3>2. CASE Started
      <4>1. Len(runs') = Len(runs) + 1
        BY <3>2, StartedRuns
      <4>2. client'.id \in Nat /\ client'.named \in Nat
        BY <2>4 DEF ClientFits, Script1
      <4> QED
        BY <1>0, <2>4, <4>1, <4>2 DEF ClientFits
    <3> QED
      BY <1>4, <3>1, <3>2
  <2>6. Turns(1) /\ client'.named = client.named /\ client'.sig = client.sig
        /\ client'.timedOut = client.timedOut
    BY <2>4 DEF Returned, Turns
  <2> QED
    BY <1>0, <1>3, <1>4, <1>5, <2>3, <2>5, <2>6
<1>7. CASE id # 0
  <2>1. Succeeds(http)
    BY <1>3, <1>7
  <2>2. refusal = 0 /\ http.done
    BY <2>1, ExchangeTells, Basics
  <2>3. Started /\ workflow.registered /\ id = Len(runs) + 1
    BY <1>2, <1>3, <2>1, <2>2 DEF Started
  <2>4. Len(runs') = id /\ id \in Nat \ {0}
    BY <1>0, <2>3, StartedRuns
  <2>5. PICK pc \in {"observe", "poll"} : pc = IF Mode = "hitl" THEN "observe" ELSE "poll"
    OBVIOUS
  <2>6. client' = [client EXCEPT !.id = id, !.status = "", !.pc = pc]
    BY <1>1, <1>7, <2>5
  <2>7. client' \in Script1
    BY <1>0, <2>4, <2>5, <2>6 DEF Script1, ClientPc, Watching, Statuses
  <2>8. /\ client'.k = client.k /\ client'.rcs = client.rcs /\ client'.id = id /\ client'.status = ""
        /\ client'.pc = pc /\ client'.named = client.named /\ client'.sig = client.sig
        /\ client'.spared = client.spared /\ client'.waited = client.waited
        /\ client'.timedOut = client.timedOut
    BY <1>0, <2>6 DEF Script1
  <2>9. client.named \in Nat /\ client.named <= Len(runs)
    BY <1>0 DEF ClientFits, Script1
  <2>10. ClientFits(client', Len(runs'))
    <3>1. client'.k <= Len(demo.clients)
      BY <1>0, <2>8 DEF ClientFits
    <3>2. id <= id /\ id # 0
      BY <2>4
    <3>3. client.named <= id
      <4>1. PICK named \in Nat : named = client.named
        BY <2>9
      <4>2. PICK n \in Nat : n = Len(runs)
        BY <1>0
      <4>3. named <= n + 1
        BY <2>9, <4>1, <4>2
      <4> QED
        BY <2>3, <4>1, <4>2, <4>3
    <3>4. client'.pc # "terminate"
      BY <2>5, <2>8
    <3>5. client'.id = Len(runs') /\ client'.named = client.named
      BY <2>4, <2>8
    <3> QED
      BY ONLY <2>4, <2>7, <3>1, <3>2, <3>3, <3>4, <3>5 DEF ClientFits
  <2>11. client'.id = Len(runs') /\ client'.pc = IF Mode = "hitl" THEN "observe" ELSE "poll"
    BY <2>4, <2>5, <2>8
  <2>12. workflow' = workflow
    BY <1>3
  <2> QED
    BY <1>0, <1>4, <1>5, <2>3, <2>8, <2>10, <2>11, <2>12
<1> QED
  BY <1>6, <1>7

\* A client that keeps its place, its run and what it named.
LEMMA KeepsPlace ==
  ASSUME NEW n, ClientFits(client, n), NEW c \in Script1,
         c.k = client.k, c.id = client.id, c.named = client.named,
         c.pc \in Watching => client.pc \in Watching, c.pc = "terminate" => client.named # 0
  PROVE  ClientFits(c, n)
  BY DEF ClientFits

\* A step of the script that only moves it on.
MovesTo(pc) == client' = [client EXCEPT !.pc = pc]

LEMMA MovesToFits ==
  ASSUME NEW n, ClientFits(client, n), NEW pc \in ClientPc, MovesTo(pc),
         pc \in Watching => client.pc \in Watching, pc = "terminate" => client.named # 0
  PROVE  /\ ClientFits(client', n) /\ Stays /\ client'.pc = pc
         /\ client'.timedOut = client.timedOut /\ client'.status = client.status
<1>1. client \in Script1
  BY DEF ClientFits
<1>2. client' \in Script1
  BY <1>1 DEF MovesTo, Script1
<1>3. /\ client'.pc = pc /\ client'.k = client.k /\ client'.id = client.id
      /\ client'.status = client.status /\ client'.rcs = client.rcs /\ client'.named = client.named
      /\ client'.sig = client.sig /\ client'.spared = client.spared
      /\ client'.timedOut = client.timedOut /\ client'.waited = client.waited
  BY <1>1 DEF MovesTo, Script1
<1>4. ClientFits(client', n)
  BY <1>2, <1>3, KeepsPlace
<1> QED
  BY <1>3, <1>4 DEF Stays

\* A status as getExecution reports it.
Reported == {"RUNNING", "failure"} \cup kTerminal

LEMMA ObservePauseDoes ==
  ASSUME Types, observePause
  PROVE  /\ client.pc = "observe" /\ Pays /\ workflow' = workflow /\ runs' = runs
         /\ ClientFits(client', Len(runs)) /\ late' \in SUBSET {"worker", "client"}
         /\ client'.named = client.named /\ client'.sig = client.sig
         /\ client'.timedOut = client.timedOut /\ client'.status = client.status
         /\ \/ Turns(1) /\ isTerminal(runs[client.id].status)
            \/ Stays /\ client'.pc \in {"observe", "signal"}
<1>0. client \in Script1 /\ client.pc = "observe" /\ ClientFits(client, Len(runs)) /\ demo \in Demos
      /\ late \in SUBSET {"worker", "client"}
  BY Basics DEF observePause, Types
<1>1. client = [client EXCEPT !.pc = "observe"]
  BY <1>0 DEF Script1
<1>2. CASE /\ client' = [client EXCEPT !.pc = "signal"]
           /\ FreshDeadline /\ UNCHANGED controlVars
  <2>1. /\ ClientFits(client', Len(runs)) /\ Stays /\ client'.pc = "signal"
        /\ client'.timedOut = client.timedOut /\ client'.status = client.status
    BY <1>0, <1>2, MovesToFits DEF MovesTo, ClientPc, Watching
  <2> QED
    BY <1>0, <1>2, <2>1, Basics DEF FreshDeadline, controlVars, Pays, Stays
<1>3. CASE /\ \E status \in Reported :
                /\ getExecution(client.id, status)
                /\ client' = IF isTerminal(status) THEN Return(client, 1) ELSE client
           /\ UNCHANGED late
  <2>1. PICK status \in Reported :
          /\ getExecution(client.id, status)
          /\ client' = IF isTerminal(status) THEN Return(client, 1) ELSE client
    BY <1>3
  <2>2. Pays /\ workflow' = workflow /\ runs' = runs
    BY <2>1, ExecutionTells, Basics
  <2>3. CASE isTerminal(status)
    <3>1. isTerminal(runs[client.id].status)
      BY <2>1, <2>3, ExecutionTells, Basics DEF isTerminal, kTerminal
    <3>2. ClientFits(client', Len(runs)) /\ Returned(client, 1, client')
      BY <1>0, <2>1, <2>3, ReturnFits
    <3>3. Turns(1) /\ client'.named = client.named /\ client'.sig = client.sig
          /\ client'.timedOut = client.timedOut /\ client'.status = client.status
      BY <3>2 DEF Returned, Turns
    <3> QED
      BY <1>0, <1>3, <2>2, <3>1, <3>2, <3>3
  <2>4. CASE ~isTerminal(status)
    <3>1. client' = client
      BY <2>1, <2>4
    <3> QED
      BY <1>0, <1>3, <2>2, <3>1 DEF Stays
  <2> QED
    BY <2>3, <2>4
<1> QED
  BY <1>2, <1>3 DEF observePause, Reported

LEMMA SignalDoes ==
  ASSUME Types, signal
  PROVE  /\ client.pc = "signal" /\ Pays /\ workflow' = workflow /\ Kept(runs')
         /\ ClientFits(client', Len(runs)) /\ late' \in SUBSET {"worker", "client"}
         /\ client'.named = client.named /\ client'.timedOut = client.timedOut
         /\ client'.status = client.status
         /\ client'.sig = 422 => demo.clients[client.k].signal \notin workflow.signals
         /\ \/ Turns(1)
            \/ /\ client'.pc = "poll" /\ client'.k = client.k /\ client'.rcs = client.rcs
               /\ client'.id = client.id /\ client'.spared = client.spared
               /\ client'.waited = client.waited
<1>0. client \in Script1 /\ client.pc = "signal" /\ ClientFits(client, Len(runs)) /\ demo \in Demos
      /\ late \in SUBSET {"worker", "client"} /\ runs \in Seq(Run)
  BY Basics DEF signal, Types
<1> DEFINE name == demo.clients[client.k].signal
<1>1. PICK sig \in {0, 200, 409, 422, 503} :
        /\ signalExecution(client.id, name, sig)
        /\ client' = LET told == [client EXCEPT !.sig = sig] IN
                     IF sig = 200 THEN [told EXCEPT !.pc = "poll"] ELSE Return(told, 1)
  BY DEF signal
<1>2. PICK refusal \in {0, 409, 422} :
        refusal = IF name \notin workflow.signals THEN 422
                  ELSE IF isTerminal(runs[client.id].status) THEN 409 ELSE 0
  OBVIOUS
<1>3. PICK http \in Exchange(refusal) :
        /\ Spend(http) /\ sig = http.status
        /\ runs' = IF http.done
                   THEN [runs EXCEPT ![client.id].inbox = @ \cup {name}, ![client.id].wft = TRUE,
                                     ![client.id].news = TRUE]
                   ELSE runs
        /\ workflow' = workflow
  BY <1>1, <1>2 DEF signalExecution, post
<1>4. Pays
  BY <1>3, SpendPays, Basics
<1>5. sig = 422 => name \notin workflow.signals
  <2>1. refusal \in {0, 401, 404, 409, 422}
    OBVIOUS
  <2>2. sig \in {0, 200, 503, refusal}
    BY <1>3, <2>1, ExchangeTells, Basics
  <2>3. sig = 422 => refusal = 422
    BY <2>2
  <2>4. refusal = 422 => name \notin workflow.signals
    BY <1>2
  <2> QED
    BY <2>3, <2>4
<1>6. Kept(runs')
  <2>1. client.id \in DOMAIN runs
    BY <1>0, Basics DEF ClientFits, Script1, Watching
  <2>2. runs[client.id] \in Run
    BY <1>0, <2>1, ElementOfSeq, Basics
  <2>3. name \in Signals
    BY ClientIs
  <2>4. PICK new : new = [runs[client.id] EXCEPT !.inbox = @ \cup {name}, !.wft = TRUE, !.news = TRUE]
    OBVIOUS
  <2>5. new \in Run /\ new.status = runs[client.id].status /\ new.commands = runs[client.id].commands
    <3>1. PICK run \in Run : run = runs[client.id]
      BY <2>2
    <3>2. PICK inbox \in SUBSET Signals : inbox = run.inbox \cup {name}
      <4>1. run.inbox \in SUBSET Signals
        BY DEF Run
      <4>2. run.inbox \cup {name} \in SUBSET Signals
        <5> HIDE DEF name
        <5> QED
          BY <2>3, <4>1
      <4> QED
        BY <4>2, Zenon
    <3>3. new = [run EXCEPT !.inbox = inbox, !.wft = TRUE, !.news = TRUE]
      BY <2>4, <3>1, <3>2
    <3>4. new \in Run /\ new.status = run.status /\ new.commands = run.commands
      BY <3>3 DEF Run
    <3> QED
      BY <3>1, <3>4
  <2>6. runs' = IF http.done THEN [runs EXCEPT ![client.id] = new] ELSE runs
    <3>1. CASE http.done
      <4>1. runs' = [runs EXCEPT ![client.id].inbox = @ \cup {name}, ![client.id].wft = TRUE,
                                 ![client.id].news = TRUE]
        BY <1>3, <3>1
      <4> HIDE DEF name
      <4> QED
        BY <1>0, <2>1, <2>2, <2>4, <3>1, <4>1 DEF Run
    <3>2. CASE ~http.done
      BY <1>3, <3>2
    <3> QED
      BY <3>1, <3>2
  <2> QED
    BY <1>0, <2>1, <2>5, <2>6, RunTouched, RunsUntouched
<1>7. PICK told : told = [client EXCEPT !.sig = sig]
  OBVIOUS
<1>8. told \in Script1
  <2>1. sig \in Nat
    OBVIOUS
  <2>2. client \in Script1
    BY <1>0
  <2>3. [client EXCEPT !.sig = sig] \in Script1
    <3> HIDE DEF name
    <3> QED
      BY ONLY <2>1, <2>2 DEF Script1
  <2> QED
    BY <1>7, <2>3
<1>9. /\ told.k = client.k /\ told.id = client.id /\ told.named = client.named /\ told.pc = client.pc
      /\ told.rcs = client.rcs /\ told.spared = client.spared /\ told.waited = client.waited
      /\ told.sig = sig /\ told.timedOut = client.timedOut /\ told.status = client.status
  BY <1>0, <1>7 DEF Script1
<1>10. ClientFits(told, Len(runs))
  BY <1>0, <1>8, <1>9, KeepsPlace DEF Watching
<1>13. late' \in SUBSET {"worker", "client"}
  BY <1>0 DEF signal, FreshDeadline
<1>14. workflow' = workflow
  BY <1>3
<1>11. CASE sig = 200
  <2>1. client' = [told EXCEPT !.pc = "poll"]
    BY <1>1, <1>7, <1>11
  <2>2. client' \in Script1
    BY <1>8, <2>1 DEF Script1, ClientPc, Watching
  <2>3. /\ client'.k = client.k /\ client'.id = client.id /\ client'.named = client.named
        /\ client'.rcs = client.rcs /\ client'.spared = client.spared /\ client'.waited = client.waited
        /\ client'.sig = sig /\ client'.timedOut = client.timedOut /\ client'.status = client.status
        /\ client'.pc = "poll"
    BY <1>8, <1>9, <2>1 DEF Script1
  <2>4. ClientFits(client', Len(runs))
    BY <1>0, <2>2, <2>3, KeepsPlace DEF Watching
  <2> QED
    BY <1>0, <1>4, <1>5, <1>6, <1>11, <1>13, <1>14, <2>3, <2>4
<1>12. CASE sig # 200
  <2>1. client' = Return(told, 1)
    BY <1>1, <1>7, <1>12
  <2>2. ClientFits(client', Len(runs)) /\ Returned(told, 1, client')
    BY <1>0, <1>10, <2>1, ReturnFits
  <2>3. /\ Turns(1) /\ client'.named = client.named /\ client'.sig = sig
        /\ client'.timedOut = client.timedOut /\ client'.status = client.status
    BY <1>9, <2>2 DEF Returned, Turns
  <2> QED
    BY <1>0, <1>4, <1>5, <1>6, <1>12, <1>13, <1>14, <2>2, <2>3
<1> QED
  BY <1>11, <1>12

LEMMA PollTerminalDoes ==
  ASSUME Types, pollTerminal
  PROVE  /\ client.pc = "poll" /\ Pays /\ workflow' = workflow /\ runs' = runs
         /\ ClientFits(client', Len(runs)) /\ late' \in SUBSET {"worker", "client"}
         /\ Stays /\ client'.pc \in {"poll", "verdict"}
         /\ client'.status = client.status \/ client'.status = runs[client.id].status
         /\ client.timedOut => client'.timedOut
         /\ client'.pc = "verdict" => client'.timedOut \/ isTerminal(client'.status)
<1>0. client \in Script1 /\ client.pc = "poll" /\ ClientFits(client, Len(runs))
      /\ late \in SUBSET {"worker", "client"}
  BY Basics DEF pollTerminal, Types
<1>1. CASE /\ client' = [client EXCEPT !.pc = "verdict", !.timedOut = TRUE]
           /\ UNCHANGED <<controlVars, late>>
  <2>1. client' \in Script1
    BY <1>0, <1>1 DEF Script1, ClientPc, Watching
  <2>2. /\ client'.k = client.k /\ client'.id = client.id /\ client'.named = client.named
        /\ client'.rcs = client.rcs /\ client'.spared = client.spared /\ client'.waited = client.waited
        /\ client'.sig = client.sig /\ client'.timedOut /\ client'.status = client.status
        /\ client'.pc = "verdict"
    BY <1>0, <1>1 DEF Script1
  <2>3. ClientFits(client', Len(runs))
    BY <1>0, <2>1, <2>2, KeepsPlace DEF Watching
  <2> QED
    BY <1>0, <1>1, <2>2, <2>3, Basics DEF controlVars, Pays, Stays
<1>2. CASE /\ \E status \in Reported :
                /\ getExecution(client.id, status)
                /\ client' = IF status = "failure" THEN client
                             ELSE [client EXCEPT !.status = status,
                                                 !.pc = IF isTerminal(status) THEN "verdict" ELSE @]
           /\ UNCHANGED late
  <2>1. PICK status \in Reported :
          /\ getExecution(client.id, status)
          /\ client' = IF status = "failure" THEN client
                       ELSE [client EXCEPT !.status = status,
                                           !.pc = IF isTerminal(status) THEN "verdict" ELSE @]
    BY <1>2
  <2>2. Pays /\ workflow' = workflow /\ runs' = runs
    BY <2>1, ExecutionTells, Basics
  <2>3. CASE status = "failure"
    <3>1. client' = client
      BY <2>1, <2>3
    <3> QED
      BY <1>0, <1>2, <2>2, <3>1 DEF Stays
  <2>4. CASE status # "failure"
    <3>1. status = runs[client.id].status
      BY <2>1, <2>4, ExecutionTells, Basics
    <3>2. PICK pc \in {"poll", "verdict"} : pc = IF isTerminal(status) THEN "verdict" ELSE "poll"
      OBVIOUS
    <3>3. client' = [client EXCEPT !.status = status, !.pc = pc]
      BY <1>0, <2>1, <2>4, <3>2 DEF Script1
    <3>4. client' \in Script1
      BY <1>0, <2>4, <3>2, <3>3 DEF Script1, ClientPc, Watching, Statuses, Reported
    <3>5. /\ client'.k = client.k /\ client'.id = client.id /\ client'.named = client.named
          /\ client'.rcs = client.rcs /\ client'.spared = client.spared
          /\ client'.waited = client.waited /\ client'.sig = client.sig
          /\ client'.timedOut = client.timedOut /\ client'.status = status /\ client'.pc = pc
      BY <1>0, <3>3 DEF Script1
    <3>6. ClientFits(client', Len(runs))
      BY <1>0, <3>2, <3>4, <3>5, KeepsPlace DEF Watching
    <3>7. client'.pc = "verdict" => isTerminal(client'.status)
      BY <3>2, <3>5
    <3> QED
      BY <1>0, <1>2, <2>2, <3>1, <3>2, <3>5, <3>6, <3>7 DEF Stays
  <2> QED
    BY <2>3, <2>4
<1> QED
  BY <1>1, <1>2 DEF pollTerminal, Reported

LEMMA VerdictDoes ==
  ASSUME Types, verdict
  PROVE  /\ client.pc = "verdict" /\ Pays /\ workflow' = workflow /\ runs' = runs
         /\ ClientFits(client', Len(runs)) /\ late' \in SUBSET {"worker", "client"}
         /\ client'.sig = client.sig /\ client'.timedOut = client.timedOut
         /\ Turns(IF client.status = "COMPLETED" THEN 0 ELSE 1)
         /\ client'.named = IF client.k = 1 THEN client.id ELSE client.named
<1>0. client \in Script1 /\ client.pc = "verdict" /\ ClientFits(client, Len(runs)) /\ demo \in Demos
      /\ late \in SUBSET {"worker", "client"}
  BY Basics DEF verdict, Types
<1>1. PICK rc \in {0, 1} : rc = IF client.status = "COMPLETED" THEN 0 ELSE 1
  OBVIOUS
<1>2. PICK named \in Nat : named = IF client.k = 1 THEN client.id ELSE client.named
  BY <1>0 DEF Script1
<1>3. PICK c : c = [client EXCEPT !.named = named]
  OBVIOUS
<1>4. client' = Return(c, rc) /\ FreshDeadline /\ UNCHANGED controlVars
  BY <1>0, <1>1, <1>2, <1>3 DEF verdict, Script1
<1>5. c \in Script1
  BY <1>0, <1>2, <1>3 DEF Script1
<1>6. /\ c.k = client.k /\ c.id = client.id /\ c.named = named /\ c.pc = client.pc
      /\ c.rcs = client.rcs /\ c.spared = client.spared /\ c.waited = client.waited
      /\ c.sig = client.sig /\ c.timedOut = client.timedOut
  BY <1>0, <1>3 DEF Script1
<1>7. ClientFits(c, Len(runs))
  BY <1>0, <1>2, <1>5, <1>6 DEF ClientFits
<1>8. ClientFits(client', Len(runs)) /\ Returned(c, rc, client')
  BY <1>0, <1>4, <1>7, ReturnFits
<1>9. Turns(rc) /\ client'.sig = client.sig /\ client'.timedOut = client.timedOut
      /\ client'.named = named
  BY <1>6, <1>8 DEF Returned, Turns
<1>10. late' \in SUBSET {"worker", "client"} /\ Pays /\ workflow' = workflow /\ runs' = runs
  BY <1>0, <1>4, Basics DEF FreshDeadline, controlVars, Pays
<1> QED
  BY <1>0, <1>1, <1>2, <1>8, <1>9, <1>10

LEMMA AwaitWorkerDoes ==
  ASSUME Types, awaitWorker
  PROVE  /\ client.pc = "wait" /\ worker.pc = "exited" /\ Pays /\ workflow' = workflow
         /\ runs' = runs /\ worker' = worker /\ late' = late
         /\ ClientFits(client', Len(runs)) /\ client'.pc = "check" /\ client'.waited
         /\ client'.k = client.k /\ client'.rcs = client.rcs /\ client'.id = client.id
         /\ client'.named = client.named /\ client'.spared = client.spared
         /\ client'.sig = client.sig /\ client'.timedOut = client.timedOut
<1>0. client \in Script1 /\ ClientFits(client, Len(runs))
  BY Basics
<1>1. client' = [client EXCEPT !.pc = "check", !.waited = TRUE]
  BY DEF awaitWorker
<1>2. client' \in Script1
  BY <1>0, <1>1 DEF Script1, ClientPc
<1>3. /\ client'.k = client.k /\ client'.id = client.id /\ client'.named = client.named
      /\ client'.rcs = client.rcs /\ client'.spared = client.spared /\ client'.waited
      /\ client'.sig = client.sig /\ client'.timedOut = client.timedOut /\ client'.pc = "check"
  BY <1>0, <1>1 DEF Script1
<1>4. ClientFits(client', Len(runs))
  BY <1>0, <1>2, <1>3, KeepsPlace DEF Watching
<1> QED
  BY <1>3, <1>4, Basics DEF awaitWorker, controlVars, Pays

LEMMA KillWorkerDoes ==
  ASSUME Types, killWorker
  PROVE  /\ client.pc = "kill" /\ Pays /\ workflow' = workflow /\ runs' = runs /\ late' = late
         /\ ClientFits(client', Len(runs)) /\ Stays /\ client'.pc = "check"
         /\ client'.timedOut = client.timedOut
         /\ WorkerFits(worker', Len(runs))
         /\ worker.pc = "exited" => worker' = worker
         /\ worker.pc # "exited" => SameAccount(worker')
<1>0. client \in Script1 /\ ClientFits(client, Len(runs)) /\ WorkerFits(worker, Len(runs))
      /\ worker \in Worker /\ client.pc = "kill" /\ runs \in Seq(Run)
  BY Basics DEF killWorker
<1>1. /\ ClientFits(client', Len(runs)) /\ Stays /\ client'.pc = "check"
      /\ client'.timedOut = client.timedOut
  BY <1>0, MovesToFits DEF killWorker, MovesTo, ClientPc, Watching
<1>5. Pays /\ workflow' = workflow /\ runs' = runs /\ late' = late
  BY Basics DEF killWorker, controlVars, Pays
<1>2. CASE worker.pc = "exited"
  <2>1. worker' = worker
    BY <1>2 DEF killWorker, Running
  <2>2. WorkerFits(worker', Len(runs))
    BY <1>0, <2>1
  <2> QED
    BY <1>0, <1>1, <1>2, <1>5, <2>1, <2>2
<1>3. CASE worker.pc \in Running
  <2>1. worker' = [worker EXCEPT !.stop = TRUE]
    BY <1>3 DEF killWorker
  <2>2. worker' \in Worker
    BY <1>0, <2>1 DEF Worker
  <2>3. /\ worker'.pc = worker.pc /\ worker'.errors = worker.errors /\ worker'.task = worker.task
        /\ worker'.completions = worker.completions /\ worker'.streams = worker.streams
        /\ worker'.stream = worker.stream /\ worker'.missed = worker.missed
    BY <1>0, <2>1 DEF Worker
  <2>4. WorkerFits(worker', Len(runs))
    BY <1>0, <2>2, <2>3 DEF WorkerFits
  <2>5. worker'.pc # "exited"
    BY <1>3, <2>3 DEF Running
  <2>6. SameAccount(worker')
    BY <2>3, <2>5 DEF SameAccount
  <2> QED
    BY <1>0, <1>1, <1>3, <2>3, <2>4, <2>5, <2>6, <1>5
<1>4. CASE worker.pc \notin Running /\ worker.pc # "exited"
  <2>1. worker' = [worker EXCEPT !.pc = "exited", !.rc = 1]
    BY <1>4 DEF killWorker
  <2>2. worker' \in Worker
    BY <1>0, <2>1 DEF Worker, WorkerPc
  <2>3. /\ worker'.pc = "exited" /\ worker'.rc = 1
        /\ worker'.errors = worker.errors /\ worker'.task = worker.task
        /\ worker'.completions = worker.completions /\ worker'.streams = worker.streams
        /\ worker'.stream = worker.stream /\ worker'.missed = worker.missed
    BY <1>0, <2>1 DEF Worker
  <2>4. WorkerFits(worker', Len(runs))
    BY <1>0, <2>2, <2>3 DEF WorkerFits, AtWork
  <2>5. SameAccount(worker')
    BY <2>3 DEF SameAccount
  <2> QED
    BY <1>0, <1>1, <1>4, <2>4, <2>5, <1>5
<1> QED
  BY <1>2, <1>3, <1>4

LEMMA CheckRunDoes ==
  ASSUME Types, checkRun
  PROVE  /\ client.pc = "check" /\ Pays /\ workflow' = workflow /\ runs' = runs
         /\ late' \in SUBSET {"worker", "client"}
         /\ ClientFits(client', Len(runs)) /\ Stays /\ client'.pc \in {"terminate", "inactive"}
         /\ client'.timedOut = client.timedOut
         /\ client'.pc = "inactive" /\ client.named # 0 => isTerminal(runs[client.named].status)
<1>0. client.pc = "check" /\ ClientFits(client, Len(runs)) /\ late \in SUBSET {"worker", "client"}
  BY Basics DEF checkRun, Types
<1>1. late' \in SUBSET {"worker", "client"}
  BY <1>0 DEF checkRun, FreshDeadline
<1>2. CASE client.named = 0
  <2>1. /\ ClientFits(client', Len(runs)) /\ Stays /\ client'.pc = "inactive"
        /\ client'.timedOut = client.timedOut
    BY <1>0, <1>2, MovesToFits DEF checkRun, MovesTo, ClientPc, Watching
  <2> QED
    BY <1>0, <1>1, <1>2, <2>1, Basics DEF checkRun, controlVars, Pays
<1>3. CASE client.named # 0
  <2>1. PICK status \in Reported :
          /\ getExecution(client.named, status)
          /\ client' = [client EXCEPT !.pc = IF isTerminal(status) THEN "inactive" ELSE "terminate"]
    BY <1>3 DEF checkRun, Reported
  <2>2. Pays /\ workflow' = workflow /\ runs' = runs
    BY <2>1, ExecutionTells, Basics
  <2>3. isTerminal(status) => isTerminal(runs[client.named].status)
    BY <2>1, ExecutionTells, Basics DEF isTerminal, kTerminal
  <2>4. PICK pc \in {"inactive", "terminate"} :
          pc = IF isTerminal(status) THEN "inactive" ELSE "terminate"
    OBVIOUS
  <2>5. MovesTo(pc) /\ pc \in ClientPc /\ pc \notin Watching
    BY <2>1, <2>4 DEF MovesTo, ClientPc, Watching
  <2>6. /\ ClientFits(client', Len(runs)) /\ Stays /\ client'.pc = pc
        /\ client'.timedOut = client.timedOut
    BY <1>0, <1>3, <2>5, MovesToFits
  <2> QED
    BY <1>0, <1>1, <2>2, <2>3, <2>4, <2>6
<1> QED
  BY <1>2, <1>3

\* The named run terminated, or left as it is.
Ended(id) ==
  /\ runs' \in Seq(Run) /\ Len(runs') = Len(runs)
  /\ \A r \in 1 .. Len(runs) :
       /\ runs'[r].status = IF r = id THEN "TERMINATED" ELSE runs[r].status
       /\ runs'[r].commands = runs[r].commands

LEMMA TerminateDoes ==
  ASSUME Types, terminateRun
  PROVE  /\ client.pc = "terminate" /\ Pays /\ workflow' = workflow /\ late' = late
         /\ ClientFits(client', Len(runs)) /\ client'.pc = "inactive"
         /\ client'.k = client.k /\ client'.rcs = client.rcs /\ client'.id = client.id
         /\ client'.named = client.named /\ client'.waited = client.waited
         /\ client'.sig = client.sig /\ client'.timedOut = client.timedOut
         /\ \/ runs' = runs
            \/ ~isTerminal(runs[client.named].status) /\ Ended(client.named)
         /\ ~client'.spared => isTerminal(runs'[client.named].status)
<1>0. /\ client \in Script1 /\ client.pc = "terminate" /\ ClientFits(client, Len(runs))
      /\ runs \in Seq(Run) /\ client.named \in 1 .. Len(runs)
  BY Basics DEF terminateRun, ClientFits, Script1
<1>1. PICK disturbed \in BOOLEAN :
        /\ terminateExecution(client.named, disturbed)
        /\ client' = [client EXCEPT !.pc = "inactive", !.spared = disturbed]
        /\ late' = late
  BY DEF terminateRun
<1>2. client' \in Script1
  BY <1>0, <1>1 DEF Script1, ClientPc
<1>3. /\ client'.k = client.k /\ client'.id = client.id /\ client'.named = client.named
      /\ client'.rcs = client.rcs /\ client'.spared = disturbed /\ client'.waited = client.waited
      /\ client'.sig = client.sig /\ client'.timedOut = client.timedOut /\ client'.pc = "inactive"
  BY <1>0, <1>1 DEF Script1
<1>4. ClientFits(client', Len(runs))
  BY <1>0, <1>2, <1>3, KeepsPlace DEF Watching
<1>5. PICK refusal \in {0, 409} : refusal = IF isTerminal(runs[client.named].status) THEN 409 ELSE 0
  OBVIOUS
<1>6. PICK http \in Exchange(refusal) :
        /\ Spend(http) /\ disturbed = Disturbed(http) /\ workflow' = workflow
        /\ runs' = IF http.done THEN [runs EXCEPT ![client.named].status = "TERMINATED"] ELSE runs
  BY <1>1, <1>5 DEF terminateExecution, post
<1>7. Pays
  BY <1>6, SpendPays, Basics
<1>8. http.done => refusal = 0
  BY <1>6, ExchangeTells, Basics
<1>9. ~disturbed /\ refusal = 0 => http.done
  BY <1>6, ExchangeTells, Basics
<1>10. CASE http.done
  <2>1. PICK run \in Run : run = runs[client.named]
    BY <1>0, ElementOfSeq
  <2>2. PICK new : new = [run EXCEPT !.status = "TERMINATED"]
    OBVIOUS
  <2>3. new \in Run /\ new.status = "TERMINATED" /\ new.commands = run.commands
    BY <2>2 DEF Run, kTerminal
  <2>4. runs' = [runs EXCEPT ![client.named] = new]
    BY <1>0, <1>6, <1>10, <2>1, <2>2
  <2>5. client.named \in DOMAIN runs
    BY <1>0
  <2>6. /\ runs' \in Seq(Run) /\ Len(runs') = Len(runs)
        /\ \A j \in 1 .. Len(runs) : runs'[j] = IF j = client.named THEN new ELSE runs[j]
    BY <1>0, <2>3, <2>4, <2>5, RunReplaced
  <2>7. Ended(client.named)
    BY <2>1, <2>3, <2>6 DEF Ended
  <2>8. isTerminal(runs'[client.named].status)
    BY <1>0, <2>3, <2>6 DEF isTerminal, kTerminal
  <2>9. ~isTerminal(runs[client.named].status)
    BY <1>5, <1>8, <1>10
  <2> QED
    BY <1>0, <1>1, <1>3, <1>4, <1>6, <1>7, <2>7, <2>8, <2>9
<1>11. CASE ~http.done
  <2>1. runs' = runs
    BY <1>6, <1>11
  <2>2. ~disturbed => isTerminal(runs[client.named].status)
    BY <1>5, <1>9, <1>11
  <2> QED
    BY <1>0, <1>1, <1>3, <1>4, <1>6, <1>7, <2>1, <2>2
<1> QED
  BY <1>10, <1>11

LEMMA AwaitInactiveDoes ==
  ASSUME Types, awaitInactive
  PROVE  /\ client.pc = "inactive" /\ Pays /\ workflow' = workflow /\ runs' = runs /\ late' = late
         /\ ClientFits(client', Len(runs)) /\ Stays
         /\ client'.pc \in {"inactive", "archive", "join"} /\ client'.timedOut = client.timedOut
<1>0. /\ client \in Script1 /\ client.pc = "inactive" /\ ClientFits(client, Len(runs))
      /\ late' = late
  BY Basics DEF awaitInactive
<1>1. CASE client' = [client EXCEPT !.pc = "join"] /\ UNCHANGED controlVars
  <2>1. /\ ClientFits(client', Len(runs)) /\ Stays /\ client'.pc = "join"
        /\ client'.timedOut = client.timedOut
    BY <1>0, <1>1, MovesToFits DEF MovesTo, ClientPc, Watching
  <2> QED
    BY <1>0, <1>1, <2>1, Basics DEF controlVars, Pays
<1>2. CASE \E result \in {"active", "inactive", "failure"} :
             /\ workflowActive(result)
             /\ client' = IF result = "inactive" THEN [client EXCEPT !.pc = "archive"] ELSE client
  <2>1. PICK pc \in {"inactive", "archive"} : MovesTo(pc)
    <3>1. client = [client EXCEPT !.pc = "inactive"]
      BY <1>0 DEF Script1
    <3> QED
      BY <1>2, <3>1 DEF MovesTo
  <2>2. /\ ClientFits(client', Len(runs)) /\ Stays /\ client'.pc = pc
        /\ client'.timedOut = client.timedOut
    BY <1>0, <2>1, MovesToFits DEF ClientPc, Watching
  <2> QED
    BY <1>0, <1>2, <2>1, <2>2, ActiveTells, Basics
<1> QED
  BY <1>1, <1>2 DEF awaitInactive

LEMMA ArchiveDoes ==
  ASSUME Types, archive
  PROVE  /\ client.pc = "archive" /\ Pays /\ SameDeclaration /\ runs' = runs /\ late' = late
         /\ ClientFits(client', Len(runs)) /\ Stays
         /\ client'.pc = "join" /\ client'.timedOut = client.timedOut
<1>0. client.pc = "archive" /\ ClientFits(client, Len(runs)) /\ late' = late
      /\ workflow \in Deployment
  BY Basics DEF archive
<1>1. /\ ClientFits(client', Len(runs)) /\ Stays /\ client'.pc = "join"
      /\ client'.timedOut = client.timedOut
  BY <1>0, MovesToFits DEF archive, MovesTo, ClientPc, Watching
<1>2. PICK refusal \in {0, 409} : refusal = IF workflow.active THEN 409 ELSE 0
  OBVIOUS
<1>3. PICK http \in Exchange(refusal) :
        /\ Spend(http) /\ runs' = runs
        /\ workflow' = IF http.done THEN [workflow EXCEPT !.archived = TRUE] ELSE workflow
  BY <1>2 DEF archive, archiveWorkflow, put
<1>4. Pays
  BY <1>3, SpendPays, Basics
<1>5. SameDeclaration
  BY <1>0, <1>3 DEF SameDeclaration, Deployment
<1> QED
  BY <1>0, <1>1, <1>3, <1>4, <1>5

LEMMA JoinDoes ==
  ASSUME Types, join
  PROVE  /\ client.pc = "join" /\ worker.pc = "exited" /\ Pays /\ workflow' = workflow
         /\ runs' = runs /\ late' = late
         /\ ClientFits(client', Len(runs)) /\ Stays
         /\ client'.pc = "ended" /\ client'.timedOut = client.timedOut
<1>1. /\ ClientFits(client', Len(runs)) /\ Stays /\ client'.pc = "ended"
      /\ client'.timedOut = client.timedOut
  BY Basics, MovesToFits DEF join, MovesTo, ClientPc, Watching
<1> QED
  BY <1>1, Basics DEF join, controlVars, Pays

-----------------------------------------------------------------------------
(* The service and the clock.                                              *)

\* A step that is neither the worker's nor the script's.
Aside ==
  /\ demo' = demo /\ worker' = worker /\ client' = client
  /\ late' \in SUBSET {"worker", "client"}
  /\ Kept(runs') /\ Pays /\ SameDeclaration

LEMMA ServiceIsAside ==
  ASSUME Types,
         Activate \/ Lapse \/ ActivityTimesOut \/ \E who \in {"worker", "client"} : Expire(who)
  PROVE  Aside
<1>0. /\ runs \in Seq(Run) /\ Kept(runs) /\ faults \in Nat /\ workflow \in Deployment
      /\ late \in SUBSET {"worker", "client"} /\ demo \in Demos
  BY Basics, RunsUntouched DEF Types
<1>1. CASE Activate \/ Lapse
  <2>1. PICK active \in BOOLEAN : workflow' = [workflow EXCEPT !.active = active]
    BY <1>1 DEF Activate, Lapse
  <2>2. SameDeclaration
    <3>1. demo' = demo
      BY <1>1 DEF Activate, Lapse
    <3> QED
      BY <1>0, <2>1, <3>1 DEF SameDeclaration, Deployment
  <2> QED
    BY <1>0, <1>1, <2>2 DEF Activate, Lapse, Aside, Pays
<1>2. CASE ActivityTimesOut
  <2>1. PICK r \in DOMAIN runs :
          runs' = [runs EXCEPT ![r].act = FALSE, ![r].lost = TRUE, ![r].wft = TRUE, ![r].news = TRUE]
    BY <1>2 DEF ActivityTimesOut
  <2>2. PICK run \in Run : run = runs[r]
    BY <1>0, <2>1, ElementOfSeq
  <2>3. PICK new : new = [run EXCEPT !.act = FALSE, !.lost = TRUE, !.wft = TRUE, !.news = TRUE]
    OBVIOUS
  <2>4. new \in Run /\ new.status = run.status /\ new.commands = run.commands
    BY <2>3 DEF Run
  <2>5. runs' = [runs EXCEPT ![r] = new]
    BY <1>0, <2>1, <2>2, <2>3 DEF Run
  <2>6. Kept(runs')
    <3>1. new.status = runs[r].status /\ new.commands = runs[r].commands
      BY <2>2, <2>4
    <3>2. Kept([runs EXCEPT ![r] = new])
      BY <1>0, <2>4, <3>1, RunTouched
    <3> QED
      BY <2>5, <3>2
  <2>7. Pays
    <3>1. faults > 0 /\ faults' = faults - 1
      BY <1>2 DEF ActivityTimesOut
    <3> QED
      BY <1>0, <3>1 DEF Pays
  <2>8. SameDeclaration
    BY <1>0, <1>2 DEF ActivityTimesOut, SameDeclaration
  <2> QED
    BY <1>0, <1>2, <2>6, <2>7, <2>8 DEF ActivityTimesOut, Aside
<1>3. CASE \E who \in {"worker", "client"} : Expire(who)
  <2>1. PICK who \in {"worker", "client"} : Expire(who)
    BY <1>3
  <2>2. SameDeclaration /\ Pays /\ runs' = runs
    BY <1>0, <2>1 DEF Expire, controlVars, SameDeclaration, Pays
  <2>3. late' \in SUBSET {"worker", "client"}
    BY <1>0, <2>1 DEF Expire
  <2> QED
    BY <1>0, <2>1, <2>2, <2>3 DEF Expire, Aside
<1> QED
  BY <1>1, <1>2, <1>3

-----------------------------------------------------------------------------
(* A step is one of five kinds.  No kind reopens a run, and none but a     *)
(* worker's answer completes one.                                          *)

Eroded(s) ==
  /\ s \in Seq(Run) /\ Len(s) = Len(runs)
  /\ \A r \in 1 .. Len(runs) :
       /\ s[r].commands = runs[r].commands
       /\ \/ s[r].status = runs[r].status
          \/ ~isTerminal(runs[r].status) /\ s[r].status = "TERMINATED"

WorkerHolds == worker' = worker \/ (worker.pc # "exited" /\ SameAccount(worker'))

Closing == {"inactive", "archive", "join", "ended"}

Quiet ==
  /\ Eroded(runs') /\ WorkerHolds
  /\ client'.k = client.k /\ client'.rcs = client.rcs /\ client'.id = client.id
  /\ client'.named = client.named
  /\ client'.pc \in Starting <=> client.pc \in Starting
  /\ client'.pc \in Watching <=> client.pc \in Watching
  /\ client'.pc \in Watching =>
       client'.status = client.status \/ client'.status = runs'[client.id].status
  /\ client'.pc \in {"observe", "signal"} => client.pc \in {"observe", "signal"}
  /\ client'.waited => client.waited \/ worker.pc = "exited"
  /\ client'.pc \in Closing /\ client.named # 0 /\ ~client'.spared =>
       \/ client.pc \in Closing /\ ~client.spared
       \/ isTerminal(runs'[client.named].status)

TurnedOver(rc) ==
  /\ Turns(rc) /\ worker' = worker
  /\ client.pc \in Starting \cup Watching
  /\ rc = 0 => client.pc \in Watching /\ client.status = "COMPLETED"
  /\ Kept(runs') \/ (rc = 1 /\ client.pc = "execute" /\ Started)

Launched ==
  /\ Started /\ worker' = worker /\ workflow.registered /\ SameDeclaration
  /\ client.pc = "execute" /\ client'.pc \in {"observe", "poll"}
  /\ client'.pc = "observe" => Mode = "hitl"
  /\ client'.id = Len(runs') /\ client'.status = ""
  /\ client'.k = client.k /\ client'.rcs = client.rcs /\ client'.waited = client.waited

Common ==
  /\ demo' = demo /\ Pays /\ Declares /\ Types'
  /\ client'.sig = 422 => \/ client.sig = 422
                          \/ /\ client.pc = "signal"
                             /\ demo.clients[client.k].signal \notin workflow.signals

LEMMA TypesHold ==
  ASSUME Types, demo' = demo, runs' \in Seq(Run), Declares, Pays,
         WorkerFits(worker', Len(runs')), ClientFits(client', Len(runs')),
         late' \in SUBSET {"worker", "client"}
  PROVE  Types'
<1>1. faults' \in 0 .. MaxFaults
  BY Basics, ControlPlaneAssumption DEF Pays
<1>2. workflow' \in Deployment'
  BY DEF Declares, SameDeclaration, Deployment
<1>3. WorkerFits(worker, Len(runs))'
  BY DEF WorkerFits
<1>4. ClientFits(client, Len(runs))'
  BY DEF ClientFits
<1> QED
  BY <1>1, <1>2, <1>3, <1>4 DEF Types

LEMMA MoreRunsFit ==
  ASSUME NEW n \in Nat, NEW m \in Nat, n <= m, NEW w, WorkerFits(w, n)
  PROVE  WorkerFits(w, m)
<1>1. w.task = NoTask \/ w.task.id \in Nat \ {0}
  BY DEF WorkerFits, Worker, Task
<1>2. w.task.id \in Nat
  BY <1>1 DEF NoTask
<1>3. w.task.id <= m
  BY <1>2 DEF WorkerFits
<1> QED
  BY <1>3 DEF WorkerFits

LEMMA KeptIsEroded ==
  ASSUME NEW s, Kept(s)
  PROVE  Eroded(s)
  BY DEF Kept, Eroded

LEMMA EndedIsEroded ==
  ASSUME Types, client.named \in Nat, ~isTerminal(runs[client.named].status), Ended(client.named)
  PROVE  Eroded(runs')
  BY DEF Ended, Eroded

LEMMA TicksAreQuiet ==
  ASSUME Types, WorkerTicks, Declares
  PROVE  Common /\ Quiet
<1>1. /\ runs' \in Seq(Run) /\ Len(runs') = Len(runs) /\ Eroded(runs')
      /\ WorkerFits(worker', Len(runs')) /\ ClientFits(client', Len(runs'))
      /\ late' \in SUBSET {"worker", "client"} /\ demo' = demo /\ Pays /\ client' = client
  BY KeptIsEroded, Basics DEF WorkerTicks, Kept, Types
<1>2. Types'
  BY <1>1, TypesHold
<1>3. WorkerHolds
  BY DEF WorkerTicks, WorkerHolds
<1>4. Common
  BY <1>1, <1>2 DEF Common
<1> QED
  BY <1>1, <1>3, <1>4 DEF Quiet

LEMMA AnswersAreCommon ==
  ASSUME Types, WorkerAnswers
  PROVE  Common
<1>1. /\ demo' = demo /\ Pays /\ client' = client /\ late' = late /\ workflow' = workflow
      /\ WorkerFits(worker', Len(runs)) /\ runs' \in Seq(Run) /\ Len(runs') = Len(runs)
  BY DEF WorkerAnswers, Accepted, Moved, Kept
<1>2. Declares
  BY <1>1, Basics DEF Declares, SameDeclaration
<1>3. Types'
  BY <1>1, <1>2, TypesHold, Basics DEF Types
<1> QED
  BY <1>1, <1>2, <1>3 DEF Common

LEMMA AsideIsQuiet ==
  ASSUME Types, Aside
  PROVE  Common /\ Quiet
<1>1. /\ runs' \in Seq(Run) /\ Len(runs') = Len(runs) /\ Eroded(runs')
      /\ worker' = worker /\ client' = client
      /\ late' \in SUBSET {"worker", "client"} /\ demo' = demo /\ Pays
  BY KeptIsEroded, Basics DEF Aside, Kept
<1>2. Declares
  BY DEF Aside, Declares
<1>3. Types'
  BY <1>1, <1>2, TypesHold, Basics
<1>4. Common
  BY <1>1, <1>2, <1>3 DEF Common
<1> QED
  BY <1>1, <1>4 DEF Quiet, WorkerHolds

LEMMA TickKinds ==
  ASSUME Types, SoleStart, BothLoops
  PROVE  Common /\ (Quiet \/ WorkerAnswers)
<1>1. workflow' = workflow => Declares
  BY Basics DEF Declares, SameDeclaration
<1>2. CASE resolveEndpoint
  BY <1>1, <1>2, ResolveTicks, TicksAreQuiet
<1>3. CASE register
  BY <1>3, RegisterTicks, TicksAreQuiet
<1>4. CASE roundStarts
  BY <1>1, <1>4, RoundStartsTicks, TicksAreQuiet
<1>5. CASE wfPoll
  BY <1>1, <1>5, WfPollTicks, TicksAreQuiet
<1>6. CASE wfAnswer
  BY <1>6, WfAnswerAnswers, AnswersAreCommon
<1>7. CASE actPoll
  BY <1>1, <1>7, ActPollTicks, TicksAreQuiet
<1>8. CASE invoke
  BY <1>1, <1>8, InvokeTicks, TicksAreQuiet
<1>9. CASE mistralChat
  BY <1>1, <1>9, ChatTicks, TicksAreQuiet
<1>10. CASE actAnswer
  BY <1>1, <1>10, ActAnswerTicks, TicksAreQuiet
<1>11. CASE leave
  BY <1>1, <1>11, LeaveTicks, TicksAreQuiet
<1> QED
  BY <1>2, <1>3, <1>4, <1>5, <1>6, <1>7, <1>8, <1>9, <1>10, <1>11 DEF BothLoops

\* What every step of the script that leaves the worker alone has in common.
LEMMA ScriptIsCommon ==
  ASSUME Types, demo' = demo, worker' = worker, Pays, Declares, runs' \in Seq(Run),
         Len(runs) <= Len(runs'), ClientFits(client', Len(runs')), late' \in SUBSET {"worker", "client"},
         client'.sig = client.sig
           \/ (client.pc = "signal"
                /\ (client'.sig = 422 => demo.clients[client.k].signal \notin workflow.signals))
  PROVE  Common
<1>1. WorkerFits(worker', Len(runs'))
  BY MoreRunsFit, Basics
<1>2. Types'
  BY <1>1, TypesHold
<1> QED
  BY <1>2 DEF Common

\* A step of the script that stays at its client, and leaves runs and worker alone.
LEMMA StayingIsQuiet ==
  ASSUME Types, demo' = demo, worker' = worker, Pays, SameDeclaration, runs' = runs,
         ClientFits(client', Len(runs)), late' \in SUBSET {"worker", "client"}, Stays,
         client'.pc \in Starting <=> client.pc \in Starting,
         client'.pc \in Watching <=> client.pc \in Watching,
         client'.pc \in Watching =>
           client'.status = client.status \/ client'.status = runs[client.id].status,
         client'.pc \in {"observe", "signal"} => client.pc \in {"observe", "signal"},
         client'.pc \in Closing /\ client.named # 0 =>
           client.pc \in Closing \/ isTerminal(runs[client.named].status)
  PROVE  Common /\ Quiet
<1>1. Eroded(runs') /\ runs' \in Seq(Run)
  BY KeptIsEroded, RunsUntouched, Basics
<1>2. Declares
  BY DEF Declares
<1>3. Common
  BY <1>1, <1>2, ScriptIsCommon, Basics DEF Stays
<1>4. Quiet
  BY <1>1 DEF Quiet, Stays, WorkerHolds
<1> QED
  BY <1>3, <1>4

Kinds == Quiet \/ WorkerAnswers \/ Launched \/ \E rc \in {0, 1} : TurnedOver(rc)

\* A client that returns with the runs as they were.
LEMMA ReturningTurns ==
  ASSUME Types, demo' = demo, worker' = worker, Pays, SameDeclaration, Kept(runs'),
         ClientFits(client', Len(runs)), late' \in SUBSET {"worker", "client"},
         client.pc \in Starting \cup Watching, NEW rc \in {0, 1}, Turns(rc),
         rc = 0 => client.pc \in Watching /\ client.status = "COMPLETED",
         client'.sig = client.sig
           \/ (client.pc = "signal"
                /\ (client'.sig = 422 => demo.clients[client.k].signal \notin workflow.signals))
  PROVE  Common /\ Kinds
<1>1. runs' \in Seq(Run) /\ Len(runs') = Len(runs)
  BY DEF Kept
<1>2. Declares
  BY DEF Declares
<1>3. Common
  BY <1>1, <1>2, ScriptIsCommon, Basics
<1>4. TurnedOver(rc)
  BY DEF TurnedOver
<1> QED
  BY <1>3, <1>4 DEF Kinds

LEMMA UndeclaredHolds ==
  ASSUME Types, workflow' = workflow
  PROVE  SameDeclaration
  BY Basics DEF SameDeclaration

LEMMA ClientKinds ==
  ASSUME Types, demo' = demo, worker' = worker,
         awaitActive \/ execute \/ observePause \/ signal \/ pollTerminal \/ verdict
  PROVE  Common /\ Kinds
<1>0. runs \in Seq(Run) /\ Kept(runs)
  BY Basics, RunsUntouched
<1>1. CASE awaitActive
  <2>0. /\ client.pc = "active" /\ Pays /\ workflow' = workflow /\ runs' = runs
        /\ ClientFits(client', Len(runs)) /\ late' \in SUBSET {"worker", "client"}
        /\ client'.named = client.named /\ client'.sig = client.sig
        /\ Turns(1) \/ (Stays /\ client'.pc \in Starting)
    BY <1>1, AwaitActiveDoes
  <2>1. SameDeclaration
    BY <2>0, UndeclaredHolds
  <2>2. CASE Turns(1)
    BY <1>0, <2>0, <2>1, <2>2, ReturningTurns DEF Starting
  <2>3. CASE Stays /\ client'.pc \in Starting
    BY <2>0, <2>1, <2>3, StayingIsQuiet DEF Starting, Watching, Closing, Kinds
  <2> QED
    BY <2>0, <2>2, <2>3
<1>2. CASE execute
  <2>0. /\ client.pc = "execute" /\ Pays /\ workflow' = workflow
        /\ runs' = runs \/ Started
        /\ ClientFits(client', Len(runs')) /\ late' \in SUBSET {"worker", "client"}
        /\ client'.sig = client.sig
    BY <1>2, ExecuteDoes
  <2>1. SameDeclaration /\ Declares
    BY <2>0, UndeclaredHolds DEF Declares
  <2>2. runs' \in Seq(Run) /\ Len(runs) <= Len(runs')
    BY <2>0, StartedRuns, Basics
  <2>3. Common
    BY <2>0, <2>1, <2>2, ScriptIsCommon
  <2>4. CASE Turns(1)
    <3>1. Kept(runs') \/ Started
      BY <1>0, <2>0
    <3>2. TurnedOver(1)
      BY <2>0, <2>4, <3>1 DEF TurnedOver, Starting
    <3> QED
      BY <2>3, <3>2 DEF Kinds
  <2>5. CASE /\ Started /\ workflow.registered /\ client'.id = Len(runs')
             /\ client'.k = client.k /\ client'.rcs = client.rcs
             /\ client'.spared = client.spared /\ client'.waited = client.waited
             /\ client'.status = ""
             /\ client'.pc = IF Mode = "hitl" THEN "observe" ELSE "poll"
    <3>1. Launched
      BY <2>0, <2>1, <2>5 DEF Launched
    <3> QED
      BY <2>3, <3>1 DEF Kinds
  <2> QED
    BY <1>2, <2>4, <2>5, ExecuteDoes
<1>3. CASE observePause
  <2>0. /\ client.pc = "observe" /\ Pays /\ workflow' = workflow /\ runs' = runs
        /\ ClientFits(client', Len(runs)) /\ late' \in SUBSET {"worker", "client"}
        /\ client'.sig = client.sig /\ client'.status = client.status
        /\ Turns(1) \/ (Stays /\ client'.pc \in {"observe", "signal"})
    BY <1>3, ObservePauseDoes
  <2>1. SameDeclaration
    BY <2>0, UndeclaredHolds
  <2>2. CASE Turns(1)
    BY <1>0, <2>0, <2>1, <2>2, ReturningTurns DEF Watching
  <2>3. CASE Stays /\ client'.pc \in {"observe", "signal"}
    BY <2>0, <2>1, <2>3, StayingIsQuiet DEF Starting, Watching, Closing, Kinds
  <2> QED
    BY <2>0, <2>2, <2>3
<1>4. CASE signal
  <2>0. /\ client.pc = "signal" /\ Pays /\ workflow' = workflow /\ Kept(runs')
        /\ ClientFits(client', Len(runs)) /\ late' \in SUBSET {"worker", "client"}
        /\ client'.named = client.named /\ client'.status = client.status
        /\ client'.sig = 422 => demo.clients[client.k].signal \notin workflow.signals
    BY <1>4, SignalDoes
  <2>1. SameDeclaration
    BY <2>0, UndeclaredHolds
  <2>2. CASE Turns(1)
    BY <2>0, <2>1, <2>2, ReturningTurns DEF Watching
  <2>3. CASE /\ client'.pc = "poll" /\ client'.k = client.k /\ client'.rcs = client.rcs
             /\ client'.id = client.id /\ client'.spared = client.spared
             /\ client'.waited = client.waited
    <3>1. Eroded(runs') /\ runs' \in Seq(Run) /\ Len(runs') = Len(runs)
      BY <2>0, KeptIsEroded DEF Kept
    <3>2. Common
      BY <2>0, <2>1, <3>1, ScriptIsCommon, Basics DEF Declares
    <3>3. Quiet
      BY <2>0, <2>3, <3>1 DEF Quiet, WorkerHolds, Starting, Watching, Closing
    <3> QED
      BY <3>2, <3>3 DEF Kinds
  <2> QED
    BY <1>4, <2>2, <2>3, SignalDoes
<1>5. CASE pollTerminal
  <2>0. /\ client.pc = "poll" /\ Pays /\ workflow' = workflow /\ runs' = runs
        /\ ClientFits(client', Len(runs)) /\ late' \in SUBSET {"worker", "client"}
        /\ Stays /\ client'.pc \in {"poll", "verdict"}
        /\ client'.status = client.status \/ client'.status = runs[client.id].status
    BY <1>5, PollTerminalDoes
  <2>1. SameDeclaration
    BY <2>0, UndeclaredHolds
  <2> QED
    BY <2>0, <2>1, StayingIsQuiet DEF Starting, Watching, Closing, Kinds
<1>6. CASE verdict
  <2>0. /\ client.pc = "verdict" /\ Pays /\ workflow' = workflow /\ runs' = runs
        /\ ClientFits(client', Len(runs)) /\ late' \in SUBSET {"worker", "client"}
        /\ client'.sig = client.sig
        /\ Turns(IF client.status = "COMPLETED" THEN 0 ELSE 1)
    BY <1>6, VerdictDoes
  <2>1. SameDeclaration
    BY <2>0, UndeclaredHolds
  <2>2. CASE client.status = "COMPLETED"
    <3>1. Turns(0)
      BY <2>0, <2>2
    <3> QED
      BY <1>0, <2>0, <2>1, <2>2, <3>1, ReturningTurns DEF Watching
  <2>3. CASE client.status # "COMPLETED"
    <3>1. Turns(1)
      BY <2>0, <2>3
    <3> QED
      BY <1>0, <2>0, <2>1, <2>3, <3>1, ReturningTurns DEF Watching
  <2> QED
    BY <2>2, <2>3
<1> QED
  BY <1>1, <1>2, <1>3, <1>4, <1>5, <1>6

LEMMA CleanUpKinds ==
  ASSUME Types, demo' = demo, worker' = worker, CleanUp \/ join \/ awaitWorker
  PROVE  Common /\ Quiet
<1>1. CASE checkRun
  <2>0. /\ client.pc = "check" /\ Pays /\ workflow' = workflow /\ runs' = runs
        /\ late' \in SUBSET {"worker", "client"}
        /\ ClientFits(client', Len(runs)) /\ Stays /\ client'.pc \in {"terminate", "inactive"}
        /\ client'.pc = "inactive" /\ client.named # 0 => isTerminal(runs[client.named].status)
    BY <1>1, CheckRunDoes
  <2>1. SameDeclaration
    BY <2>0, UndeclaredHolds
  <2> QED
    BY <2>0, <2>1, StayingIsQuiet DEF Starting, Watching, Closing
<1>2. CASE terminateRun
  <2>0. /\ client.pc = "terminate" /\ Pays /\ workflow' = workflow /\ late' = late
        /\ ClientFits(client', Len(runs)) /\ client'.pc = "inactive"
        /\ client'.k = client.k /\ client'.rcs = client.rcs /\ client'.id = client.id
        /\ client'.named = client.named /\ client'.waited = client.waited
        /\ client'.sig = client.sig
        /\ ~client'.spared => isTerminal(runs'[client.named].status)
    BY <1>2, TerminateDoes
  <2>1. Eroded(runs')
    BY <1>2, TerminateDoes, EndedIsEroded, KeptIsEroded, RunsUntouched, Basics DEF Script1
  <2>2. runs' \in Seq(Run) /\ Len(runs') = Len(runs) /\ Len(runs) \in Nat
        /\ late' \in SUBSET {"worker", "client"}
    BY <2>0, <2>1, Basics DEF Eroded, Types
  <2>3. Declares
    BY <2>0, UndeclaredHolds DEF Declares
  <2>4. Common
    BY <2>0, <2>2, <2>3, ScriptIsCommon
  <2>5. Quiet
    BY <2>0, <2>1 DEF Quiet, WorkerHolds, Starting, Watching, Closing
  <2> QED
    BY <2>4, <2>5
<1>3. CASE awaitInactive
  <2>0. /\ client.pc = "inactive" /\ Pays /\ workflow' = workflow /\ runs' = runs /\ late' = late
        /\ ClientFits(client', Len(runs)) /\ Stays
        /\ client'.pc \in {"inactive", "archive", "join"}
    BY <1>3, AwaitInactiveDoes
  <2>1. SameDeclaration /\ late' \in SUBSET {"worker", "client"}
    BY <2>0, UndeclaredHolds DEF Types
  <2> QED
    BY <2>0, <2>1, StayingIsQuiet DEF Starting, Watching, Closing
<1>4. CASE archive
  <2>0. /\ client.pc = "archive" /\ Pays /\ SameDeclaration /\ runs' = runs /\ late' = late
        /\ ClientFits(client', Len(runs)) /\ Stays /\ client'.pc = "join"
    BY <1>4, ArchiveDoes
  <2>1. late' \in SUBSET {"worker", "client"}
    BY <2>0 DEF Types
  <2> QED
    BY <2>0, <2>1, StayingIsQuiet DEF Starting, Watching, Closing
<1>5. CASE join
  <2>0. /\ client.pc = "join" /\ Pays /\ workflow' = workflow /\ runs' = runs /\ late' = late
        /\ ClientFits(client', Len(runs)) /\ Stays /\ client'.pc = "ended"
    BY <1>5, JoinDoes
  <2>1. SameDeclaration /\ late' \in SUBSET {"worker", "client"}
    BY <2>0, UndeclaredHolds DEF Types
  <2> QED
    BY <2>0, <2>1, StayingIsQuiet DEF Starting, Watching, Closing
<1>6. CASE awaitWorker
  <2>0. /\ client.pc = "wait" /\ worker.pc = "exited" /\ Pays /\ workflow' = workflow
        /\ runs' = runs /\ late' = late
        /\ ClientFits(client', Len(runs)) /\ client'.pc = "check"
        /\ client'.k = client.k /\ client'.rcs = client.rcs /\ client'.id = client.id
        /\ client'.named = client.named /\ client'.sig = client.sig
    BY <1>6, AwaitWorkerDoes
  <2>1. Declares /\ late' \in SUBSET {"worker", "client"}
    BY <2>0, UndeclaredHolds DEF Types, Declares
  <2>2. Eroded(runs')
    BY <2>0, KeptIsEroded, RunsUntouched, Basics
  <2>3. Common
    BY <2>0, <2>1, ScriptIsCommon, Basics
  <2>4. Quiet
    BY <2>0, <2>2 DEF Quiet, WorkerHolds, Starting, Watching, Closing
  <2> QED
    BY <2>3, <2>4
<1> QED
  BY <1>1, <1>2, <1>3, <1>4, <1>5, <1>6 DEF CleanUp

LEMMA KillIsQuiet ==
  ASSUME Types, demo' = demo, killWorker
  PROVE  Common /\ Quiet
<1>0. /\ client.pc = "kill" /\ Pays /\ workflow' = workflow /\ runs' = runs /\ late' = late
      /\ ClientFits(client', Len(runs)) /\ Stays /\ client'.pc = "check"
      /\ WorkerFits(worker', Len(runs))
      /\ worker.pc = "exited" => worker' = worker
      /\ worker.pc # "exited" => SameAccount(worker')
  BY KillWorkerDoes
<1>1. Declares /\ late' \in SUBSET {"worker", "client"} /\ Eroded(runs')
  BY <1>0, UndeclaredHolds, KeptIsEroded, RunsUntouched, Basics DEF Types, Declares
<1>2. Types'
  BY <1>0, <1>1, TypesHold, Basics
<1>3. Common
  BY <1>0, <1>1, <1>2 DEF Common, Stays
<1>4. Quiet
  BY <1>0, <1>1 DEF Quiet, Stays, WorkerHolds, Starting, Watching, Closing
<1> QED
  BY <1>3, <1>4

LEMMA StepKinds ==
  ASSUME Types, SoleStart, [Next]_vars
  PROVE  Common /\ Kinds
<1>1. CASE runWorker \/ soleRunWorker
  BY <1>1, TickKinds DEF runWorker, soleRunWorker, Kinds
<1>2. CASE Script
  <2>1. demo' = demo /\ worker' = worker
    BY <1>2 DEF Script
  <2>2. CASE runTrigger \/ soleTrigger \/ runHitl
    BY <2>1, <2>2, ClientKinds DEF runTrigger, soleTrigger, runHitl, AwaitVerdict
  <2>3. CASE awaitWorker \/ runCleanup \/ soleCleanup \/ join
    BY <2>1, <2>3, CleanUpKinds DEF runCleanup, soleCleanup, Kinds
  <2> QED
    BY <1>2, <2>2, <2>3 DEF Script
<1>3. CASE killWorker /\ UNCHANGED demo
  BY <1>3, KillIsQuiet DEF Kinds
<1>4. CASE Activate \/ Lapse \/ ActivityTimesOut \/ \E who \in {"worker", "client"} : Expire(who)
  BY <1>4, ServiceIsAside, AsideIsQuiet DEF Kinds
<1>5. CASE UNCHANGED vars
  <2>1. /\ demo' = demo /\ worker' = worker /\ client' = client /\ late' = late
        /\ workflow' = workflow /\ runs' = runs /\ faults' = faults
    BY <1>5 DEF vars, controlVars
  <2>2. Aside
    BY <2>1, RunsUntouched, UndeclaredHolds, Basics DEF Aside, Pays, Types
  <2> QED
    BY <2>2, AsideIsQuiet DEF Kinds
<1> QED
  BY <1>1, <1>2, <1>3, <1>4, <1>5 DEF Next

-----------------------------------------------------------------------------
(* The script: its clients take turns.                                     *)

AllClosedWell(n) == \A r \in 1 .. n : runs[r].status = "COMPLETED"
NoneFailed == \A i \in DOMAIN client.rcs : client.rcs[i] = 0

OneRunEach ==
  /\ client.pc \in Starting => Len(runs) < client.k
  /\ Len(runs) <= client.k
  /\ client.pc \in Watching => client.id = Len(runs)
  /\ client.pc \in Starting \cup Watching => Len(client.rcs) = client.k - 1

InTurn ==
  Orderly =>
    /\ AllClosedWell(Len(runs) - 1)
    /\ client.pc \in Starting => Len(runs) = client.k - 1 /\ AllClosedWell(Len(runs))
    /\ client.pc \in Watching => Len(runs) = client.k

Seen == client.pc \in Watching /\ isTerminal(client.status) => runs[client.id].status = client.status

AllServed ==
  client.pc \notin Starting \cup Watching /\ NoneFailed /\ Len(client.rcs) = Len(demo.clients) =>
    Len(runs) = Len(demo.clients) /\ AllClosedWell(Len(runs))

(* The worker: what it has counted and printed.                            *)
Counted ==
  /\ worker.pc = "exited" /\ worker.rc = 0 => worker.completions >= demo.max_completions
  /\ client.waited => worker.pc = "exited"
  /\ demo.program = "sole" /\ worker.pc \notin {"leaving", "exited"} => worker.completions = 0
  /\ Orderly => /\ worker.completions <= Len(runs)
                /\ worker.completions = Len(runs) => AllClosedWell(Len(runs))

CurrentStream ==
  IF worker.completions < Len(runs) THEN runs[worker.completions + 1].commands ELSE <<>>

Printed ==
  ~worker.missed /\ Orderly =>
    /\ \A k \in 1 .. worker.completions : worker.streams[k] = runs[k].commands
    /\ \A k \in DOMAIN runs : runs[k].status = "COMPLETED" => k <= worker.completions
    /\ AllClosedWell(worker.completions)
    /\ worker.stream = CurrentStream

NamedCloses ==
  client.pc \in {"inactive", "archive", "join", "ended"} /\ client.named # 0 /\ ~client.spared =>
    isTerminal(runs[client.named].status)

Declared ==
  /\ workflow.registered => workflow.signals = collectSignals(demo.steps)
  /\ client.pc \in Watching => workflow.registered
  /\ client.pc \in {"observe", "signal"} => Mode = "hitl"
  /\ client.sig # 422

-----------------------------------------------------------------------------
(* Every kind of step keeps them.                                          *)

IInv == /\ Types /\ OneRunEach /\ InTurn /\ Seen /\ AllServed
        /\ Counted /\ Printed /\ NamedCloses /\ Declared

LEMMA ClosedStays ==
  ASSUME Types, Kinds
  PROVE  /\ Len(runs') \in Nat /\ Len(runs) <= Len(runs')
         /\ \A r \in 1 .. Len(runs) :
              isTerminal(runs[r].status) => runs'[r].status = runs[r].status
<1>0. Len(runs) \in Nat
  BY Basics
<1>1. CASE Eroded(runs')
  BY <1>0, <1>1 DEF Eroded
<1>2. CASE Started
  BY <1>0, <1>2, StartedRuns
<1>3. CASE WorkerAnswers
  <2>1. CASE Kept(runs')
    BY <1>1, <2>1, KeptIsEroded
  <2>2. CASE \E id \in 1 .. Len(runs), decision \in Decisions : Accepted(id, decision)
    BY <1>0, <2>2 DEF Accepted, Moved
  <2> QED
    BY <1>3, <2>1, <2>2 DEF WorkerAnswers
<1> QED
  BY <1>1, <1>2, <1>3, KeptIsEroded DEF Kinds, Quiet, Launched, TurnedOver

LEMMA WellStays ==
  ASSUME Types, Kinds, NEW n, n <= Len(runs), n \in Int, AllClosedWell(n)
  PROVE  AllClosedWell(n)'
<1>1. \A r \in 1 .. n : r \in 1 .. Len(runs) /\ runs[r].status = "COMPLETED"
  BY Basics DEF AllClosedWell
<1>2. \A r \in 1 .. n : runs'[r].status = "COMPLETED"
  BY <1>1, ClosedStays DEF isTerminal, kTerminal
<1> QED
  BY <1>2 DEF AllClosedWell

\* Who asks for an orderly script after a client has turned over its outcome.
LEMMA TurningOrderly ==
  ASSUME Types, demo' = demo, NEW rc \in {0, 1}, Turns(rc), OneRunEach,
         client.pc \in Starting \cup Watching, Orderly'
  PROVE  /\ Orderly
         /\ client'.pc = "active" => rc = 0
<1>0. /\ client.rcs \in Seq({0, 1}) /\ Len(client.rcs) = client.k - 1 /\ client.k \in Nat \ {0}
      /\ Len(demo.clients) \in Nat /\ client'.rcs = Append(client.rcs, rc)
  BY Basics, ClientIs DEF Script1, OneRunEach, Turns
<1>1. /\ Len(client'.rcs) = client.k /\ client'.rcs[client.k] = rc
      /\ \A i \in 1 .. Len(client.rcs) : client'.rcs[i] = client.rcs[i]
      /\ DOMAIN client'.rcs = 1 .. client.k /\ DOMAIN client.rcs = 1 .. Len(client.rcs)
  BY <1>0, AppendProperties
<1>2. CASE demo.errexit
  BY <1>2 DEF Orderly, Turns
<1>3. CASE ~demo.errexit
  <2>1. \A i \in DOMAIN client'.rcs : i < Len(demo.clients) => client'.rcs[i] = 0
    BY <1>3 DEF Orderly
  <2>2. \A i \in DOMAIN client.rcs : i < Len(demo.clients) => client.rcs[i] = 0
    BY <1>0, <1>1, <2>1
  <2>3. client'.pc = "active" => client.k < Len(demo.clients)
    BY DEF Turns
  <2>4. client'.pc = "active" => rc = 0
    BY <1>0, <1>1, <2>1, <2>3
  <2> QED
    BY <2>2, <2>4 DEF Orderly
<1> QED
  BY <1>2, <1>3

LEMMA SameRcsOrderly ==
  ASSUME demo' = demo, client'.rcs = client.rcs
  PROVE  Orderly' <=> Orderly
  BY DEF Orderly

\* A client whose last poll said COMPLETED leaves its run completed.
LEMMA ServedRun ==
  ASSUME Types, OneRunEach, Seen, client.pc \in Watching, client.status = "COMPLETED"
  PROVE  Len(runs) \in Nat \ {0} /\ runs[Len(runs)].status = "COMPLETED"
  BY Basics DEF OneRunEach, Seen, isTerminal, kTerminal, ClientFits

LEMMA LastClosedWell ==
  ASSUME Len(runs) \in Nat \ {0}, AllClosedWell(Len(runs) - 1), runs[Len(runs)].status = "COMPLETED"
  PROVE  AllClosedWell(Len(runs))
<1> SUFFICES ASSUME NEW r \in 1 .. Len(runs)
             PROVE  runs[r].status = "COMPLETED"
  BY DEF AllClosedWell
<1>1. r = Len(runs) \/ r \in 1 .. Len(runs) - 1
  OBVIOUS
<1> QED
  BY <1>1 DEF AllClosedWell

LEMMA OneRunEachKept ==
  ASSUME Types, Common, Kinds, OneRunEach
  PROVE  OneRunEach'
<1>0. /\ Len(runs) \in Nat /\ client.k \in Nat \ {0} /\ client.rcs \in Seq({0, 1})
  BY Basics, ClientIs DEF Script1
<1>1. CASE Quiet
  BY <1>0, <1>1 DEF Quiet, Eroded, OneRunEach
<1>2. CASE WorkerAnswers
  <2>1. client' = client /\ Len(runs') = Len(runs)
    BY <1>2 DEF WorkerAnswers, Kept, Accepted, Moved
  <2> QED
    BY <2>1 DEF OneRunEach
<1>3. CASE Launched
  <2>1. Len(runs') = Len(runs) + 1
    BY <1>3, StartedRuns DEF Launched
  <2>2. client'.k = client.k /\ client'.rcs = client.rcs /\ client'.id = Len(runs')
        /\ client.pc \in Starting /\ client'.pc \notin Starting
    BY <1>3 DEF Launched, Starting
  <2> QED
    BY <1>0, <2>1, <2>2 DEF OneRunEach
<1>4. ASSUME NEW rc \in {0, 1}, TurnedOver(rc)
      PROVE  OneRunEach'
  <2>1. Len(client'.rcs) = Len(client.rcs) + 1
    BY <1>0, <1>4, AppendProperties DEF TurnedOver, Turns
  <2>2. /\ client'.pc \notin Watching /\ client.pc \in Starting \cup Watching
        /\ client'.pc \in {"active", "kill", "wait"}
        /\ client'.k = IF client'.pc = "active" THEN client.k + 1 ELSE client.k
    BY <1>4 DEF TurnedOver, Turns, Watching
  <2>3. Len(runs') \in Nat /\ Len(runs') <= client.k
    <3>1. CASE Kept(runs')
      BY <1>0, <3>1 DEF Kept, OneRunEach
    <3>2. CASE client.pc = "execute" /\ Started
      BY <1>0, <3>2, StartedRuns DEF OneRunEach, Starting
    <3> QED
      BY <1>4, <3>1, <3>2 DEF TurnedOver
  <2>4. Len(client.rcs) = client.k - 1 /\ Len(client.rcs) \in Nat
    BY <1>0, <2>2 DEF OneRunEach
  <2>5. CASE client'.pc = "active"
    BY <1>0, <2>1, <2>2, <2>3, <2>4, <2>5 DEF OneRunEach
  <2>6. CASE client'.pc # "active"
    BY <1>0, <2>1, <2>2, <2>3, <2>4, <2>6 DEF OneRunEach, Starting
  <2> QED
    BY <2>5, <2>6
<1> QED
  BY <1>1, <1>2, <1>3, <1>4 DEF Kinds

LEMMA InTurnKept ==
  ASSUME Types, Common, Kinds, OneRunEach, InTurn, Seen
  PROVE  InTurn'
<1> SUFFICES ASSUME Orderly'
             PROVE  /\ AllClosedWell(Len(runs) - 1)'
                    /\ client'.pc \in Starting =>
                         Len(runs') = client'.k - 1 /\ AllClosedWell(Len(runs))'
                    /\ client'.pc \in Watching => Len(runs') = client'.k
  BY DEF InTurn
<1>0. /\ Len(runs) \in Nat /\ client.k \in Nat \ {0} /\ demo' = demo
  BY Basics, ClientIs DEF Script1, Common
<1>1. CASE (Quiet \/ WorkerAnswers)
  <2>1. /\ Len(runs') = Len(runs) /\ client'.k = client.k /\ client'.rcs = client.rcs
        /\ client'.pc \in Starting <=> client.pc \in Starting
        /\ client'.pc \in Watching <=> client.pc \in Watching
    BY <1>1 DEF Quiet, Eroded, WorkerAnswers, Kept, Accepted, Moved
  <2>2. Orderly
    BY <1>0, <2>1, SameRcsOrderly
  <2>3. AllClosedWell(Len(runs) - 1)'
    BY <1>0, <2>1, <2>2, WellStays DEF InTurn, AllClosedWell
  <2>4. client.pc \in Starting => AllClosedWell(Len(runs))'
    BY <1>0, <2>1, <2>2, WellStays DEF InTurn, AllClosedWell
  <2> QED
    BY <2>1, <2>2, <2>3, <2>4 DEF InTurn
<1>2. CASE Launched
  <2>1. /\ Len(runs') = Len(runs) + 1 /\ client'.k = client.k /\ client'.rcs = client.rcs
        /\ client.pc \in Starting /\ client'.pc \notin Starting
    BY <1>2, StartedRuns DEF Launched, Starting
  <2>2. Orderly
    BY <1>0, <2>1, SameRcsOrderly
  <2>3. Len(runs) = client.k - 1 /\ AllClosedWell(Len(runs))
    BY <2>1, <2>2 DEF InTurn
  <2>4. AllClosedWell(Len(runs) - 1)'
    <3>1. PICK n \in Nat : n = Len(runs)
      BY <1>0
    <3>2. AllClosedWell(n)'
      BY <2>3, <3>1, WellStays
    <3>3. Len(runs') - 1 = n
      BY <2>1, <3>1
    <3> QED
      BY <3>2, <3>3 DEF AllClosedWell
  <2> QED
    BY <1>0, <2>1, <2>3, <2>4
<1>3. ASSUME NEW rc \in {0, 1}, TurnedOver(rc)
      PROVE  /\ AllClosedWell(Len(runs) - 1)'
             /\ client'.pc \in Starting =>
                  Len(runs') = client'.k - 1 /\ AllClosedWell(Len(runs))'
             /\ client'.pc \in Watching => Len(runs') = client'.k
  <2>0. /\ Turns(rc) /\ client.pc \in Starting \cup Watching
        /\ rc = 0 => client.pc \in Watching /\ client.status = "COMPLETED"
        /\ Kept(runs') \/ (rc = 1 /\ client.pc = "execute" /\ Started)
    BY <1>3 DEF TurnedOver
  <2>1. Orderly /\ (client'.pc = "active" => rc = 0)
    BY <1>0, <2>0, TurningOrderly
  <2>2. client'.pc \in {"active", "kill", "wait"} /\ client'.pc \notin Watching
    BY <2>0 DEF Turns, Watching
  <2>3. AllClosedWell(Len(runs) - 1)'
    <3>1. CASE Kept(runs')
      <4>1. Len(runs') = Len(runs)
        BY <3>1 DEF Kept
      <4> QED
        BY <1>0, <2>1, <4>1, WellStays DEF InTurn, AllClosedWell
    <3>2. CASE client.pc = "execute" /\ Started
      <4>1. Len(runs') = Len(runs) + 1
        BY <3>2, StartedRuns
      <4>2. AllClosedWell(Len(runs))
        BY <2>1, <3>2 DEF InTurn, Starting
      <4> QED
        BY <1>0, <4>1, <4>2, WellStays DEF AllClosedWell
    <3> QED
      BY <2>0, <3>1, <3>2
  <2>4. CASE client'.pc = "active"
    <3>1. rc = 0 /\ client.pc \in Watching /\ client.status = "COMPLETED" /\ Kept(runs')
      BY <2>0, <2>1, <2>4
    <3>2. Len(runs) \in Nat \ {0} /\ runs[Len(runs)].status = "COMPLETED"
      BY <3>1, ServedRun
    <3>3. AllClosedWell(Len(runs) - 1) /\ Len(runs) = client.k
      BY <2>1, <3>1 DEF InTurn
    <3>4. AllClosedWell(Len(runs))
      BY <3>2, <3>3, LastClosedWell
    <3>5. Len(runs') = Len(runs)
      BY <3>1 DEF Kept
    <3>6. AllClosedWell(Len(runs))'
      BY <1>0, <3>4, <3>5, WellStays DEF AllClosedWell
    <3>7. client'.k = client.k + 1
      BY <2>0, <2>4 DEF Turns
    <3> QED
      BY <1>0, <2>2, <2>3, <3>3, <3>5, <3>6, <3>7
  <2> QED
    BY <2>2, <2>3, <2>4 DEF Starting
<1> QED
  BY <1>1, <1>2, <1>3 DEF Kinds

LEMMA SeenKept ==
  ASSUME Types, Common, Kinds, Seen
  PROVE  Seen'
<1> SUFFICES ASSUME client'.pc \in Watching, isTerminal(client'.status)
             PROVE  runs'[client'.id].status = client'.status
  BY DEF Seen
<1>0. client.pc \in Watching => client.id \in 1 .. Len(runs)
  BY Basics DEF ClientFits, Script1
<1>1. CASE Quiet
  <2>1. client'.id = client.id /\ client.pc \in Watching
    BY <1>1 DEF Quiet
  <2>2. CASE client'.status = client.status
    BY <1>0, <2>1, <2>2, ClosedStays DEF Seen
  <2>3. CASE client'.status = runs'[client.id].status
    BY <2>1, <2>3
  <2> QED
    BY <1>1, <2>2, <2>3 DEF Quiet
<1>2. CASE WorkerAnswers
  <2>1. client' = client
    BY <1>2 DEF WorkerAnswers
  <2> QED
    BY <1>0, <2>1, ClosedStays DEF Seen
<1>3. CASE Launched
  BY <1>3 DEF Launched, isTerminal, kTerminal
<1>4. ASSUME NEW rc \in {0, 1}, TurnedOver(rc)
      PROVE  FALSE
  BY <1>4 DEF TurnedOver, Turns, Watching
<1> QED
  BY <1>1, <1>2, <1>3, <1>4 DEF Kinds

LEMMA AllServedKept ==
  ASSUME Types, Common, Kinds, OneRunEach, InTurn, Seen, AllServed
  PROVE  AllServed'
<1> SUFFICES ASSUME client'.pc \notin Starting \cup Watching, NoneFailed',
                    Len(client'.rcs) = Len(demo.clients)
             PROVE  Len(runs') = Len(demo.clients) /\ AllClosedWell(Len(runs))'
  BY DEF AllServed, Common
<1>0. /\ Len(runs) \in Nat /\ client.k \in Nat \ {0} /\ demo' = demo
      /\ client.rcs \in Seq({0, 1}) /\ Len(demo.clients) \in Nat
  BY Basics, ClientIs DEF Script1, Common
<1>1. CASE (Quiet \/ WorkerAnswers)
  <2>1. /\ Len(runs') = Len(runs) /\ client'.rcs = client.rcs
        /\ client.pc \notin Starting \cup Watching
    BY <1>1 DEF Quiet, Eroded, WorkerAnswers, Kept, Accepted, Moved
  <2>2. NoneFailed /\ Len(client.rcs) = Len(demo.clients)
    BY <2>1 DEF NoneFailed
  <2>3. Len(runs) = Len(demo.clients) /\ AllClosedWell(Len(runs))
    BY <2>1, <2>2 DEF AllServed
  <2>4. AllClosedWell(Len(runs))'
    BY <1>0, <2>1, <2>3, WellStays DEF AllClosedWell
  <2> QED
    BY <2>1, <2>3, <2>4
<1>2. CASE Launched
  BY <1>2 DEF Launched, Watching
<1>3. ASSUME NEW rc \in {0, 1}, TurnedOver(rc)
      PROVE  Len(runs') = Len(demo.clients) /\ AllClosedWell(Len(runs))'
  <2>0. /\ Turns(rc) /\ client.pc \in Starting \cup Watching
        /\ rc = 0 => client.pc \in Watching /\ client.status = "COMPLETED"
        /\ Kept(runs') \/ (rc = 1 /\ client.pc = "execute" /\ Started)
    BY <1>3 DEF TurnedOver
  <2>1. /\ Len(client'.rcs) = Len(client.rcs) + 1 /\ client'.rcs[Len(client.rcs) + 1] = rc
        /\ DOMAIN client'.rcs = 1 .. Len(client.rcs) + 1 /\ Len(client.rcs) \in Nat
    BY <1>0, <2>0, AppendProperties DEF Turns
  <2>2. rc = 0
    BY <2>1 DEF NoneFailed
  <2>3. client.pc \in Watching /\ client.status = "COMPLETED" /\ Kept(runs')
    BY <2>0, <2>2
  <2>4. Orderly'
    BY DEF NoneFailed, Orderly
  <2>5. Orderly
    BY <1>0, <2>0, <2>4, TurningOrderly
  <2>6. Len(runs) \in Nat \ {0} /\ runs[Len(runs)].status = "COMPLETED"
    BY <2>3, ServedRun
  <2>7. AllClosedWell(Len(runs) - 1) /\ Len(runs) = client.k
    BY <2>3, <2>5 DEF InTurn
  <2>8. AllClosedWell(Len(runs))
    BY <2>6, <2>7, LastClosedWell
  <2>9. Len(runs') = Len(runs)
    BY <2>3 DEF Kept
  <2>10. AllClosedWell(Len(runs))'
    BY <1>0, <2>8, <2>9, WellStays DEF AllClosedWell
  <2>11. Len(client.rcs) = client.k - 1
    BY <2>0 DEF OneRunEach
  <2> QED
    BY <1>0, <2>1, <2>7, <2>9, <2>10, <2>11
<1> QED
  BY <1>1, <1>2, <1>3 DEF Kinds

LEMMA CountedKept ==
  ASSUME Types, Common, Kinds, OneRunEach, InTurn, Counted
  PROVE  Counted'
<1>0. /\ Len(runs) \in Nat /\ client.k \in Nat \ {0} /\ demo' = demo
      /\ worker.completions \in Nat
  BY Basics, ClientIs DEF Script1, Common, Worker
<1>1. /\ worker'.pc = "exited" /\ worker'.rc = 0 => worker'.completions >= demo.max_completions
      /\ client'.waited => worker'.pc = "exited"
      /\ demo.program = "sole" /\ worker'.pc \notin {"leaving", "exited"} => worker'.completions = 0
  <2>1. CASE Quiet
    BY <2>1 DEF Quiet, WorkerHolds, SameAccount, Counted
  <2>2. CASE WorkerAnswers
    <3>1. worker.pc = "wfAnswer" /\ client' = client /\ worker'.pc # "exited"
      BY <2>2 DEF WorkerAnswers, Accepted, Account, Unheard
    <3>2. demo.program = "sole" => worker.completions = 0
      BY <3>1 DEF Counted
    <3>3. demo.program = "sole" /\ worker'.pc \notin {"leaving", "exited"} =>
            worker'.completions = worker.completions
      BY <2>2 DEF WorkerAnswers, Accepted, Account, Unheard, SameAccount
    <3> QED
      BY <3>1, <3>2, <3>3 DEF Counted
  <2>3. CASE Launched
    BY <2>3 DEF Launched, Counted
  <2>4. ASSUME NEW rc \in {0, 1}, TurnedOver(rc)
        PROVE  worker' = worker /\ client'.waited = client.waited
    BY <2>4 DEF TurnedOver, Turns
  <2> QED
    BY <2>1, <2>2, <2>3, <2>4 DEF Kinds, Counted
<1>2. ASSUME Orderly'
      PROVE  /\ worker'.completions <= Len(runs')
             /\ worker'.completions = Len(runs') => AllClosedWell(Len(runs))'
  <2>1. Orderly
    <3>1. CASE (Quiet \/ WorkerAnswers \/ Launched)
      BY <1>0, <1>2, <3>1, SameRcsOrderly DEF Quiet, WorkerAnswers, Launched
    <3>2. ASSUME NEW rc \in {0, 1}, TurnedOver(rc)
          PROVE  Orderly
      BY <1>0, <1>2, <3>2, TurningOrderly DEF TurnedOver
    <3> QED
      BY <3>1, <3>2 DEF Kinds
  <2>2. /\ worker.completions <= Len(runs)
        /\ worker.completions = Len(runs) => AllClosedWell(Len(runs))
    BY <2>1 DEF Counted
  <2>3. CASE Len(runs') = Len(runs) /\ worker'.completions = worker.completions
    BY <1>0, <2>2, <2>3, WellStays DEF AllClosedWell
  <2>4. CASE Len(runs') = Len(runs) + 1 /\ worker' = worker
    BY <1>0, <2>2, <2>4
  <2>5. CASE WorkerAnswers
    <3>1. Len(runs') = Len(runs)
      BY <2>5 DEF WorkerAnswers, Kept, Accepted, Moved
    <3>2. CASE worker'.completions = worker.completions
      BY <2>3, <3>1, <3>2
    <3>3. CASE worker'.completions # worker.completions
      <4>1. PICK id \in 1 .. Len(runs), decision \in Decisions : Accepted(id, decision)
        BY <2>5, <3>3 DEF WorkerAnswers, SameAccount
      <4>2. Account(worker', decision)
        BY <3>3, <4>1 DEF Accepted, Unheard
      <4>3. decision = "Complete" /\ worker'.completions = worker.completions + 1
        BY <3>3, <4>2 DEF Account
      <4>4. ~isTerminal(runs[id].status) /\ Moved(runs', id, decision)
        BY <4>1 DEF Accepted
      <4>5. runs[id].status # "COMPLETED"
        BY <4>4 DEF isTerminal, kTerminal
      <4>6. worker.completions # Len(runs)
        BY <2>2, <4>5 DEF AllClosedWell
      <4>7. AllClosedWell(Len(runs) - 1)
        BY <2>1 DEF InTurn
      <4>8. id = Len(runs)
        BY <1>0, <4>5, <4>7 DEF AllClosedWell
      <4>9. runs'[id].status = "COMPLETED"
        BY <4>3, <4>4 DEF Moved, StatusAfter
      <4>10. \A r \in 1 .. Len(runs) : runs'[r].status = "COMPLETED"
        <5> TAKE r \in 1 .. Len(runs)
        <5>1. r = id \/ r \in 1 .. Len(runs) - 1
          BY <1>0, <4>8
        <5>2. r \in 1 .. Len(runs) - 1 => runs[r].status = "COMPLETED"
          BY <4>7 DEF AllClosedWell
        <5> QED
          BY <4>9, <5>1, <5>2, ClosedStays DEF isTerminal, kTerminal
      <4>11. AllClosedWell(Len(runs))'
        BY <3>1, <4>10 DEF AllClosedWell
      <4> QED
        BY <1>0, <2>2, <3>1, <4>3, <4>6, <4>11
    <3> QED
      BY <3>2, <3>3
  <2>6. CASE Quiet
    BY <2>3, <2>6 DEF Quiet, Eroded, WorkerHolds, SameAccount
  <2>7. CASE Launched
    BY <2>4, <2>7, StartedRuns DEF Launched
  <2>8. ASSUME NEW rc \in {0, 1}, TurnedOver(rc)
        PROVE  worker' = worker /\ (Len(runs') = Len(runs) \/ Len(runs') = Len(runs) + 1)
    BY <2>8, StartedRuns DEF TurnedOver, Kept
  <2> QED
    BY <2>3, <2>4, <2>5, <2>6, <2>7, <2>8 DEF Kinds
<1> QED
  BY <1>0, <1>1, <1>2 DEF Counted

\* An orderly script that missed no reply, and an answer accepted: it is the
\* answer for the last run, the first whose stream is not printed.
LEMMA AnswersTheLast ==
  ASSUME Types, InTurn, Counted, Printed, Orderly, ~worker.missed,
         NEW id \in 1 .. Len(runs), ~isTerminal(runs[id].status)
  PROVE  id = Len(runs) /\ worker.completions = Len(runs) - 1
<1>0. DOMAIN runs = 1 .. Len(runs)
  BY Basics
<1>1. runs[id].status # "COMPLETED"
  BY DEF isTerminal, kTerminal
<1>2. PICK n \in Nat : n = Len(runs)
  BY Basics
<1>3. PICK m \in Nat : m = worker.completions
  BY Basics DEF Worker
<1>4. id \in 1 .. n
  BY <1>2
<1>5. \A r \in 1 .. n - 1 : runs[r].status = "COMPLETED"
  BY <1>2 DEF InTurn, AllClosedWell
<1>6. \A r \in 1 .. m : runs[r].status = "COMPLETED"
  BY <1>3 DEF Printed, AllClosedWell
<1>7. \A k \in 1 .. n : runs[k].status = "COMPLETED" => k <= m
  BY <1>0, <1>2, <1>3 DEF Printed
<1>8. id \notin 1 .. n - 1
  BY <1>1, <1>5
<1>9. id = n
  BY <1>4, <1>8
<1>10. ~(n <= m)
  BY <1>1, <1>4, <1>6, <1>9
<1>11. n - 1 \in 1 .. n - 1 => n - 1 <= m
  BY <1>5, <1>7
<1>12. m = n - 1
  BY <1>4, <1>10, <1>11
<1> QED
  BY <1>2, <1>3, <1>9, <1>12

\* What is printed is kept by a step that leaves account, commands and
\* completions as they are.
LEMMA PrintedStands ==
  ASSUME Types, Printed, Counted, Orderly, ~worker.missed,
         worker'.completions = worker.completions, worker'.streams = worker.streams,
         worker'.stream = worker.stream, Len(runs') = Len(runs),
         \A r \in 1 .. Len(runs) : /\ runs'[r].commands = runs[r].commands
                                   /\ runs'[r].status = "COMPLETED" <=> runs[r].status = "COMPLETED",
         runs' \in Seq(Run)
  PROVE  Printed'
<1>1. PICK n \in Nat : n = Len(runs)
  BY Basics
<1>2. PICK m \in Nat : m = worker.completions
  BY Basics DEF Worker
<1>3. m <= n
  BY <1>1, <1>2 DEF Counted
<1>4. DOMAIN runs = 1 .. n /\ DOMAIN runs' = 1 .. n
  BY <1>1, Basics
<1>5. \A k \in 1 .. m : worker'.streams[k] = runs'[k].commands
  <2> TAKE k \in 1 .. m
  <2>1. k \in 1 .. n
    BY <1>3
  <2>2. worker.streams[k] = runs[k].commands
    BY <1>2 DEF Printed
  <2> QED
    BY <1>1, <2>1, <2>2
<1>6. \A k \in 1 .. n : runs'[k].status = "COMPLETED" => k <= m
  BY <1>1, <1>2, <1>4 DEF Printed
<1>7. \A k \in 1 .. m : runs'[k].status = "COMPLETED"
  <2> TAKE k \in 1 .. m
  <2>1. k \in 1 .. n
    BY <1>3
  <2>2. runs[k].status = "COMPLETED"
    BY <1>2 DEF Printed, AllClosedWell
  <2> QED
    BY <1>1, <2>1, <2>2
<1>8. worker'.stream = CurrentStream'
  <2>1. worker.stream = CurrentStream
    BY DEF Printed
  <2>2. CASE m < n
    <3>1. m + 1 \in 1 .. n
      BY <2>2
    <3>2. CurrentStream = runs[m + 1].commands
      BY <1>1, <1>2, <2>2 DEF CurrentStream
    <3>3. CurrentStream' = runs'[m + 1].commands
      BY <1>1, <1>2, <2>2 DEF CurrentStream
    <3> QED
      BY <1>1, <2>1, <3>1, <3>2, <3>3
  <2>3. CASE ~(m < n)
    <3>1. CurrentStream = << >>
      BY <1>1, <1>2, <2>3 DEF CurrentStream
    <3>2. CurrentStream' = << >>
      BY <1>1, <1>2, <2>3 DEF CurrentStream
    <3> QED
      BY <2>1, <3>1, <3>2
  <2> QED
    BY <2>2, <2>3
<1> QED
  BY <1>2, <1>4, <1>5, <1>6, <1>7, <1>8 DEF Printed, AllClosedWell

\* And by a step that starts a run.
LEMMA PrintedGrows ==
  ASSUME Types, Printed, Counted, Orderly, ~worker.missed, worker' = worker, Started
  PROVE  Printed'
<1>1. PICK n \in Nat : n = Len(runs)
  BY Basics
<1>2. PICK m \in Nat : m = worker.completions
  BY Basics DEF Worker
<1>3. m <= n
  BY <1>1, <1>2 DEF Counted
<1>4. /\ runs' \in Seq(Run) /\ Len(runs') = n + 1
      /\ \A r \in 1 .. n : runs'[r] = runs[r]
      /\ runs'[n + 1] = NewRun(Input)
      /\ NewRun(Input).status = "RUNNING" /\ NewRun(Input).commands = << >>
  BY <1>1, StartedRuns, NewRunFits, ClientIs
<1>5. DOMAIN runs = 1 .. n /\ DOMAIN runs' = 1 .. n + 1
  BY <1>1, <1>4, Basics
<1>6. \A k \in 1 .. m : worker'.streams[k] = runs'[k].commands
  <2> TAKE k \in 1 .. m
  <2>1. k \in 1 .. n
    BY <1>3
  <2>2. worker.streams[k] = runs[k].commands
    BY <1>2 DEF Printed
  <2> QED
    BY <1>4, <2>1, <2>2
<1>7. \A k \in 1 .. n + 1 : runs'[k].status = "COMPLETED" => k <= m
  <2> TAKE k \in 1 .. n + 1
  <2>1. CASE k = n + 1
    BY <1>4, <2>1
  <2>2. CASE k \in 1 .. n
    BY <1>2, <1>4, <1>5, <2>2 DEF Printed
  <2> QED
    BY <2>1, <2>2
<1>8. \A k \in 1 .. m : runs'[k].status = "COMPLETED"
  <2> TAKE k \in 1 .. m
  <2>1. k \in 1 .. n
    BY <1>3
  <2>2. runs[k].status = "COMPLETED"
    BY <1>2 DEF Printed, AllClosedWell
  <2> QED
    BY <1>4, <2>1, <2>2
<1>9. worker'.stream = CurrentStream'
  <2>1. worker.stream = CurrentStream
    BY DEF Printed
  <2>2. CurrentStream' = runs'[m + 1].commands
    <3>1. m < n + 1
      BY <1>3
    <3> QED
      BY <1>2, <1>4, <3>1 DEF CurrentStream
  <2>3. CASE m < n
    <3>1. m + 1 \in 1 .. n
      BY <2>3
    <3>2. CurrentStream = runs[m + 1].commands
      BY <1>1, <1>2, <2>3 DEF CurrentStream
    <3> QED
      BY <1>4, <2>1, <2>2, <3>1, <3>2
  <2>4. CASE m = n
    <3>1. CurrentStream = << >>
      BY <1>1, <1>2, <2>4 DEF CurrentStream
    <3> QED
      BY <1>4, <2>1, <2>2, <2>4, <3>1
  <2> QED
    BY <1>3, <2>3, <2>4
<1> QED
  BY <1>2, <1>5, <1>6, <1>7, <1>8, <1>9 DEF Printed, AllClosedWell

LEMMA PrintedAnswer ==
  ASSUME Types, InTurn, Counted, Printed, Orderly, ~worker.missed,
         NEW id \in 1 .. Len(runs), NEW decision \in Decisions,
         ~isTerminal(runs[id].status), Moved(runs', id, decision), Account(worker', decision)
  PROVE  Printed'
<1>1. PICK n \in Nat : n = Len(runs)
  BY Basics
<1>2. PICK m \in Nat : m = worker.completions
  BY Basics DEF Worker
<1>3. id = n /\ m = n - 1 /\ id \in 1 .. n
  BY <1>1, <1>2, AnswersTheLast
<1>4. /\ runs' \in Seq(Run) /\ Len(runs') = n
      /\ \A r \in 1 .. n :
           /\ runs'[r].status = IF r = id THEN StatusAfter(runs[id], decision) ELSE runs[r].status
           /\ runs'[r].commands =
                IF r = id THEN Longer(runs[id].commands, decision) ELSE runs[r].commands
  BY <1>1 DEF Moved
<1>5. DOMAIN runs = 1 .. n /\ DOMAIN runs' = 1 .. n
  BY <1>1, <1>4, Basics
<1>6. /\ \A k \in 1 .. m : worker.streams[k] = runs[k].commands
      /\ \A k \in 1 .. m : runs[k].status = "COMPLETED"
      /\ worker.stream = runs[id].commands
  <2>1. CurrentStream = runs[m + 1].commands
    BY <1>1, <1>2, <1>3 DEF CurrentStream
  <2> QED
    BY <1>2, <1>3, <2>1 DEF Printed, AllClosedWell
<1>7. \A k \in 1 .. m : k \in 1 .. n /\ k # id
  BY <1>3
<1>8. CASE decision = "Complete"
  <2>1. /\ worker'.completions = n /\ worker'.stream = << >>
        /\ worker'.streams = Append(worker.streams, Append(worker.stream, "COMPLETE"))
    BY <1>2, <1>3, <1>8 DEF Account
  <2>2. worker.streams \in Seq(Seq(Commands)) /\ Len(worker.streams) = m
        /\ Append(worker.stream, "COMPLETE") \in Seq(Commands)
    BY <1>2, Basics DEF WorkerFits, Worker, Commands
  <2>3. /\ worker'.streams[n] = Append(worker.stream, "COMPLETE")
        /\ \A k \in 1 .. m : worker'.streams[k] = worker.streams[k]
    BY <1>3, <2>1, <2>2, AppendProperties
  <2>4. runs'[id].commands = Append(worker.stream, "COMPLETE") /\ runs'[id].status = "COMPLETED"
    BY <1>3, <1>4, <1>6, <1>8 DEF Longer, StatusAfter
  <2>5. \A k \in 1 .. n : worker'.streams[k] = runs'[k].commands /\ runs'[k].status = "COMPLETED"
    <3> TAKE k \in 1 .. n
    <3>1. CASE k = id
      BY <1>3, <2>3, <2>4, <3>1
    <3>2. CASE k # id
      <4>1. k \in 1 .. m
        BY <1>3, <3>2
      <4> QED
        BY <1>4, <1>6, <2>3, <3>2, <4>1
    <3> QED
      BY <3>1, <3>2
  <2>6. CurrentStream' = << >>
    BY <1>4, <2>1 DEF CurrentStream
  <2>7. \A k \in 1 .. worker'.completions : worker'.streams[k] = runs'[k].commands
    BY <2>1, <2>5
  <2>8. AllClosedWell(worker.completions)'
    BY <2>1, <2>5 DEF AllClosedWell
  <2>9. \A k \in DOMAIN runs' : k <= worker'.completions
    BY <1>5, <2>1
  <2>10. worker'.stream = CurrentStream'
    BY <2>1, <2>6
  <2> QED
    BY <2>7, <2>8, <2>9, <2>10 DEF Printed
<1>9. CASE decision # "Complete"
  <2>1. /\ worker'.completions = m /\ worker'.streams = worker.streams
        /\ worker'.stream = Longer(worker.stream, decision)
    BY <1>2, <1>9 DEF Account
  <2>2. \A k \in 1 .. m : worker'.streams[k] = runs'[k].commands /\ runs'[k].status = "COMPLETED"
    BY <1>4, <1>6, <1>7, <2>1
  <2>3. runs'[id].status # "COMPLETED"
    BY <1>3, <1>4, <1>9 DEF StatusAfter, isTerminal, kTerminal
  <2>4. \A k \in 1 .. n : runs'[k].status = "COMPLETED" => k <= m
    BY <1>3, <2>3
  <2>5. CurrentStream' = runs'[m + 1].commands
    BY <1>3, <1>4, <2>1 DEF CurrentStream
  <2>6. worker'.stream = CurrentStream'
    BY <1>3, <1>4, <1>6, <2>1, <2>5
  <2> QED
    BY <1>5, <2>1, <2>2, <2>4, <2>6 DEF Printed, AllClosedWell
<1> QED
  BY <1>8, <1>9

LEMMA PrintedKept ==
  ASSUME Types, Common, Kinds, OneRunEach, InTurn, Counted, Printed
  PROVE  Printed'
<1> SUFFICES ASSUME ~worker'.missed, Orderly'
             PROVE  Printed'
  BY DEF Printed
<1>0. demo' = demo
  BY DEF Common
<1>1. Orderly
  <2>1. CASE (Quiet \/ WorkerAnswers \/ Launched)
    BY <1>0, <2>1, SameRcsOrderly DEF Quiet, WorkerAnswers, Launched
  <2>2. ASSUME NEW rc \in {0, 1}, TurnedOver(rc)
        PROVE  Orderly
    BY <1>0, <2>2, TurningOrderly DEF TurnedOver
  <2> QED
    BY <2>1, <2>2 DEF Kinds
<1>2. CASE Eroded(runs') /\ (worker' = worker \/ SameAccount(worker'))
  <2>1. /\ Len(runs') = Len(runs) /\ runs' \in Seq(Run)
        /\ \A r \in 1 .. Len(runs) : /\ runs'[r].commands = runs[r].commands
                                     /\ runs'[r].status = "COMPLETED" <=> runs[r].status = "COMPLETED"
    BY <1>2 DEF Eroded, isTerminal, kTerminal
  <2>2. /\ worker'.completions = worker.completions /\ worker'.streams = worker.streams
        /\ worker'.stream = worker.stream /\ worker'.missed = worker.missed
    BY <1>2 DEF SameAccount
  <2> QED
    BY <1>1, <2>1, <2>2, PrintedStands
<1>3. CASE Started /\ worker' = worker
  BY <1>1, <1>3, PrintedGrows
<1>4. CASE WorkerAnswers
  <2>1. CASE Kept(runs') /\ SameAccount(worker')
    BY <1>2, <2>1, KeptIsEroded
  <2>2. ASSUME NEW id \in 1 .. Len(runs), NEW decision \in Decisions, Accepted(id, decision)
        PROVE  Printed'
    <3>1. Account(worker', decision) /\ ~worker.missed
      BY <2>2 DEF Accepted, Unheard, Account
    <3> QED
      BY <1>1, <2>2, <3>1, PrintedAnswer DEF Accepted
  <2> QED
    BY <1>4, <2>1, <2>2 DEF WorkerAnswers
<1>5. CASE Quiet
  BY <1>2, <1>5 DEF Quiet, WorkerHolds
<1>6. CASE Launched
  BY <1>3, <1>6 DEF Launched
<1>7. ASSUME NEW rc \in {0, 1}, TurnedOver(rc)
      PROVE  Printed'
  BY <1>2, <1>3, <1>7, KeptIsEroded DEF TurnedOver
<1> QED
  BY <1>4, <1>5, <1>6, <1>7 DEF Kinds

LEMMA NamedClosesKept ==
  ASSUME Types, Common, Kinds, NamedCloses
  PROVE  NamedCloses'
<1> SUFFICES ASSUME client'.pc \in Closing, client'.named # 0, ~client'.spared
             PROVE  isTerminal(runs'[client'.named].status)
  BY DEF NamedCloses, Closing
<1>0. client.named # 0 => client.named \in 1 .. Len(runs)
  BY Basics DEF ClientFits, Script1
<1>1. CASE client.pc \in Closing /\ ~client.spared /\ client'.named = client.named
  <2>1. isTerminal(runs[client.named].status)
    BY <1>1 DEF NamedCloses, Closing
  <2>2. runs'[client.named].status = runs[client.named].status
    BY <1>0, <1>1, <2>1, ClosedStays
  <2> QED
    BY <1>1, <2>1, <2>2
<1>2. CASE Quiet
  BY <1>1, <1>2 DEF Quiet
<1>3. CASE WorkerAnswers
  BY <1>1, <1>3 DEF WorkerAnswers
<1>4. CASE Launched
  BY <1>4 DEF Launched, Closing
<1>5. ASSUME NEW rc \in {0, 1}, TurnedOver(rc)
      PROVE  FALSE
  BY <1>5 DEF TurnedOver, Turns, Closing
<1> QED
  BY <1>2, <1>3, <1>4, <1>5 DEF Kinds

\* A run that waits for an approval waits for a signal its spec declares.
LEMMA ApprovalIsDeclared ==
  ASSUME Types, Mode = "hitl"
  PROVE  demo.clients[client.k].signal \in collectSignals(demo.steps)
<1>1. demo \in Demos /\ Nests(Steps) /\ demo.steps \in Seq(Steps) /\ demo.clients \in Seq(Client)
  BY DemoFits DEF Types
<1>2. client.k \in DOMAIN demo.clients
  BY <1>1, ClientIs
<1>3. \E s \in StepsOf(Path(demo.steps, demo.clients[client.k].input)) :
        s.kind = "wait_signal" /\ s.signal = demo.clients[client.k].signal
  BY <1>1, <1>2, ScriptsAssumption DEF Mode
<1> QED
  BY <1>1, <1>3, PathIsCollected

LEMMA DeclaredKept ==
  ASSUME Types, Common, Kinds, Declared
  PROVE  Declared'
<1>0. demo' = demo
  BY DEF Common
<1>1. workflow'.registered => workflow'.signals = collectSignals(demo.steps)
  BY DEF Common, Declares, SameDeclaration, Declared
<1>2. workflow.registered => workflow'.registered
  BY DEF Common, Declares, SameDeclaration
<1>3. client'.pc \in Watching => workflow'.registered
  BY <1>2 DEF Kinds, Quiet, WorkerAnswers, Launched, TurnedOver, Turns, Watching, Declared
<1>4. client'.pc \in {"observe", "signal"} => Mode'  = "hitl"
  <2>1. CASE Quiet
    BY <1>0, <2>1 DEF Quiet, Declared, Mode
  <2>2. CASE WorkerAnswers
    BY <1>0, <2>2 DEF WorkerAnswers, Declared, Mode
  <2>3. CASE Launched
    BY <1>0, <2>3 DEF Launched, Mode
  <2>4. ASSUME NEW rc \in {0, 1}, TurnedOver(rc)
        PROVE  client'.pc \notin {"observe", "signal"}
    BY <2>4 DEF TurnedOver, Turns
  <2> QED
    BY <2>1, <2>2, <2>3, <2>4 DEF Kinds
<1>5. client'.sig # 422
  <2>1. client.sig # 422
    BY DEF Declared
  <2>2. client.pc = "signal" => demo.clients[client.k].signal \in workflow.signals
    BY ApprovalIsDeclared DEF Declared, Watching
  <2> QED
    BY <2>1, <2>2 DEF Common
<1> QED
  BY <1>0, <1>1, <1>3, <1>4, <1>5 DEF Declared

LEMMA StartsHolding ==
  ASSUME Init
  PROVE  IInv
<1> DEFINE none == << >>
           blank == ""
<1>0. none \in Seq(Run) /\ none \in Seq(Commands) /\ none \in Seq(Seq(Commands)) /\ none \in Seq({0, 1})
      /\ Len(none) = 0 /\ DOMAIN none = {}
  OBVIOUS
<1>01. blank \in Statuses /\ ~isTerminal(blank)
  BY Zenon DEF Statuses, isTerminal, kTerminal
<1> HIDE DEF none, blank
<1>1. /\ demo \in Demos /\ late = {} /\ workflow = Unregistered /\ runs = none /\ faults = MaxFaults
      /\ worker = [pc |-> "resolve", tls |-> TRUE, stop |-> FALSE, errors |-> 0, completions |-> 0,
                   stream |-> none, streams |-> none, task |-> NoTask, result |-> "success",
                   attempt |-> 0, missed |-> FALSE, rc |-> 0]
      /\ client = [pc |-> "active", k |-> 1, id |-> 0, status |-> blank, rcs |-> none, named |-> 0,
                   sig |-> 0, spared |-> FALSE, timedOut |-> FALSE, waited |-> FALSE]
  BY DEF Init, none, blank
<1>2. worker \in Worker
  BY <1>0, <1>1 DEF Worker, WorkerPc, Task
<1>3. /\ worker.pc = "resolve" /\ worker.errors = 0 /\ worker.completions = 0 /\ worker.stream = none
      /\ worker.streams = none /\ worker.task = NoTask /\ NoTask.id = 0
  BY <1>1 DEF NoTask
<1>4. /\ client.pc = "active" /\ client.k = 1 /\ client.id = 0 /\ client.status = blank
      /\ client.rcs = none /\ client.named = 0 /\ client.sig = 0 /\ ~client.waited
  BY <1>1
<1>5. Len(runs) = 0 /\ DOMAIN runs = {} /\ runs \in Seq(Run)
  BY <1>0, <1>1
<1>6. MaxErrors \in Nat \ {0}
  BY CookbookAssumption
<1>7. WorkerFits(worker, Len(runs))
  BY <1>0, <1>2, <1>3, <1>5, <1>6 DEF WorkerFits, AtWork
<1>8. client \in Script1
  <2>1. "active" \in ClientPc
    BY DEF ClientPc, Starting
  <2> QED
    BY <1>0, <1>01, <1>1, <2>1 DEF Script1
<1>9. Len(demo.clients) \in Nat \ {0} /\ demo.max_completions = Len(demo.clients)
  BY <1>1, DemoFits
<1>10. ClientFits(client, Len(runs))
  BY <1>4, <1>5, <1>8, <1>9 DEF ClientFits, Watching
<1>11. workflow \in Deployment
  BY <1>1 DEF Deployment, Unregistered
<1>12. Types
  BY <1>1, <1>5, <1>7, <1>10, <1>11, ControlPlaneAssumption DEF Types
<1>13. OneRunEach
  BY <1>0, <1>4, <1>5 DEF OneRunEach, Starting, Watching
<1>14. Seen /\ AllServed /\ NamedCloses
  BY <1>4 DEF Starting, Watching, Seen, AllServed, NamedCloses
<1>15. InTurn
  BY <1>4, <1>5 DEF InTurn, Starting, Watching, AllClosedWell
<1>16. Counted
  BY <1>3, <1>4, <1>5 DEF Counted, AllClosedWell
<1>17. Printed
  <2>1. CurrentStream = none
    BY <1>3, <1>5 DEF CurrentStream, none
  <2> QED
    BY <1>3, <1>5, <2>1 DEF Printed, AllClosedWell
<1>18. Declared
  <2>1. ~workflow.registered
    BY <1>1 DEF Unregistered
  <2> QED
    BY <1>4, <2>1 DEF Declared, Watching
<1> QED
  BY <1>12, <1>13, <1>14, <1>15, <1>16, <1>17, <1>18 DEF IInv

LEMMA StepsHold ==
  ASSUME IInv, [Next]_vars
  PROVE  IInv'
<1>1. Types /\ SoleStart
  BY DEF IInv, Counted, SoleStart
<1>2. Common /\ Kinds
  BY <1>1, StepKinds
<1>3. Types'
  BY <1>2 DEF Common
<1>4. OneRunEach' /\ InTurn' /\ Seen'
  BY <1>2, OneRunEachKept, InTurnKept, SeenKept DEF IInv
<1>5. AllServed' /\ Counted'
  BY <1>2, AllServedKept, CountedKept DEF IInv
<1>6. Printed' /\ NamedCloses' /\ Declared'
  BY <1>2, PrintedKept, NamedClosesKept, DeclaredKept DEF IInv
<1> QED
  BY <1>3, <1>4, <1>5, <1>6 DEF IInv

LEMMA CookbookInvariant == Spec => []IInv
<1>1. Init => IInv
  BY StartsHolding
<1>2. IInv /\ [Next]_vars => IInv'
  BY StepsHold
<1> QED
  BY <1>1, <1>2, PTL DEF Spec

\* Whatever the demonstration, the budgets and the disturbances: the state of
\* the control plane, the worker and the script has its types, and the worker
\* counts fewer errors than the limit for as long as it loops.
THEOREM CookbookTypesHold == Spec => []TypeOK
<1>1. IInv => TypeOK
  <2> SUFFICES ASSUME IInv
               PROVE  TypeOK
    OBVIOUS
  <2>1. Types
    BY DEF IInv
  <2>2. \A r \in DOMAIN runs : RunOK(runs[r])
    <3> TAKE r \in DOMAIN runs
    <3>1. runs[r] \in Run
      BY <2>1, ElementOfSeq, Basics
    <3> QED
      BY <3>1 DEF Run, RunOK, Commands
  <2>3. /\ worker.pc \in {"resolve", "register", "exited"} \cup Running
        /\ worker.errors \in 0 .. MaxErrors
        /\ worker.pc \in Running \ {"leaving"} => worker.errors < MaxErrors
        /\ worker.completions = Len(worker.streams)
    BY <2>1, Basics, CookbookAssumption DEF WorkerFits, Worker, WorkerPc, Running
  <2>4. worker.task.id \in 0 .. Len(runs)
    <3>1. worker.task = NoTask \/ worker.task.id \in Nat \ {0}
      BY <2>1, Basics DEF Worker, Task
    <3>2. worker.task.id \in Nat
      BY <3>1 DEF NoTask
    <3> QED
      BY <2>1, <3>2, Basics DEF WorkerFits
  <2>5. client.id \in 0 .. Len(runs) /\ client.named \in 0 .. Len(runs)
    BY <2>1, Basics DEF ClientFits, Script1
  <2> QED
    BY <2>1, <2>2, <2>3, <2>4, <2>5 DEF TypeOK, Types
<1> QED
  BY <1>1, CookbookInvariant, PTL

\* The k-th stream a worker prints is the command history of the k-th run: the
\* comparison cookbook 03 makes compares the runs it started.
THEOREM StreamsAreHistories == Spec => []StreamsMapToRuns
<1>1. IInv => StreamsMapToRuns
  <2> SUFFICES ASSUME IInv, ~worker.missed, Orderly, NEW k \in 1 .. worker.completions
               PROVE  k <= Len(runs) /\ worker.streams[k] = runs[k].commands
    BY DEF StreamsMapToRuns
  <2>1. worker.completions \in Nat /\ Len(runs) \in Nat
    BY Basics DEF IInv, Worker
  <2>2. worker.completions <= Len(runs)
    BY DEF IInv, Counted
  <2>3. worker.streams[k] = runs[k].commands
    BY DEF IInv, Printed
  <2> QED
    BY <2>1, <2>2, <2>3
<1> QED
  BY <1>1, CookbookInvariant, PTL

\* A demonstration passes only when it ran what it claims: as many runs as
\* clients, all completed, and each counted once.
THEOREM PassingMeansServed == Spec => []PassMeansServed
<1>1. IInv => PassMeansServed
  <2> SUFFICES ASSUME IInv, client.pc = "ended", Pass
               PROVE  /\ Len(runs) = Len(demo.clients) /\ worker.completions = Len(runs)
                      /\ \A k \in DOMAIN runs : runs[k].status = "COMPLETED"
    BY DEF PassMeansServed
  <2>1. NoneFailed /\ Len(client.rcs) = Len(demo.clients)
    BY DEF Pass, NoneFailed
  <2>2. Len(runs) = Len(demo.clients) /\ AllClosedWell(Len(runs))
    BY <2>1 DEF IInv, AllServed, Starting, Watching
  <2>3. worker.pc = "exited" /\ worker.rc = 0
    BY DEF IInv, Counted, Pass
  <2>4. demo.max_completions = Len(demo.clients)
    BY DemoFits DEF IInv, Types
  <2>5. worker.completions >= Len(runs)
    BY <2>2, <2>3, <2>4 DEF IInv, Counted
  <2>6. Orderly
    BY <2>1 DEF Orderly, NoneFailed
  <2>7. worker.completions <= Len(runs)
    BY <2>6 DEF IInv, Counted
  <2>8. worker.completions \in Nat /\ Len(runs) \in Nat /\ DOMAIN runs = 1 .. Len(runs)
    BY Basics DEF IInv, Worker
  <2> QED
    BY <2>2, <2>5, <2>7, <2>8 DEF AllClosedWell
<1> QED
  BY <1>1, CookbookInvariant, PTL

\* However deep a spec nests its waits, the signal an approver sends was
\* declared when the workflow was registered.
THEOREM SignalsAreDeclared == Spec => []SignalIsDeclared
<1>1. IInv => SignalIsDeclared
  BY DEF IInv, Declared, SignalIsDeclared
<1> QED
  BY <1>1, CookbookInvariant, PTL

\* The cleanup leaves the run that the evidence names closed, whatever became
\* of the worker, unless the terminate call itself was disturbed.
THEOREM NamedRunsEndClosed == Spec => []NamedRunIsClosed
<1>1. IInv => NamedRunIsClosed
  BY DEF IInv, NamedCloses, NamedRunIsClosed
<1> QED
  BY <1>1, CookbookInvariant, PTL
-----------------------------------------------------------------------------
(* A calm demonstration: nothing was disturbed and no budget has run out.  *)
(* Its script fails nowhere, its worker leaves when it has served all, and *)
(* each run follows the path its input takes through the steps.            *)

Calm == faults = MaxFaults /\ ~client.timedOut /\ "worker" \notin late /\ worker.tls

PathTaken(r) == PathOf(demo.clients[r].input)
ActsIn(path, n) == {i \in 1 .. n : path[i].kind = "activity"}
Scheduled(path, n) == [i \in 1 .. Cardinality(ActsIn(path, n)) |-> "SCHEDULE"]
Signalled(run, path, n) == \A i \in 1 .. n : path[i].kind = "wait_signal" => path[i].signal \in run.inbox

InFlight(run, path) == run.act => run.done < Len(path) /\ path[run.done + 1].kind = "activity"

CommandsFit(run, path) ==
  \/ /\ run.status = "RUNNING"
     /\ run.commands = Scheduled(path, IF run.act THEN run.done + 1 ELSE run.done)
  \/ /\ run.status = "COMPLETED" /\ run.commands = Issued(path)
     /\ Signalled(run, path, Len(path))

\* A run that has come as far as its steps done, along that path.
RunFine(run, path) ==
  /\ ~run.failed /\ ~run.lost
  /\ run.done <= Len(path) /\ Signalled(run, path, run.done)
  /\ InFlight(run, path) /\ CommandsFit(run, path)

RunsFine ==
  \A r \in DOMAIN runs : runs[r].input = demo.clients[r].input /\ RunFine(runs[r], PathTaken(r))

Approving == client.pc \in {"observe", "signal"} =>
               demo.clients[client.k].signal \notin runs[client.id].inbox

ScriptFine ==
  /\ NoneFailed /\ client.pc \notin {"kill", "terminate"}
  /\ client.pc \notin Starting \cup Watching => Len(client.rcs) = Len(demo.clients)
  /\ client.pc \in {"check"} \cup Closing => client.waited
  /\ client.pc = "verdict" => client.status = "COMPLETED"
  /\ client.pc = "execute" \/ workflow.active => workflow.registered

WorkerFine ==
  /\ ~worker.missed /\ ~worker.stop
  /\ worker.pc \in {"leaving", "exited"} => worker.completions >= demo.max_completions
  /\ worker.pc = "exited" => worker.rc = 0
  /\ worker.pc = "actAnswer" => worker.result = "success"

\* A run since its task was polled: it has more signals at most.
Follows(run, seen) ==
  /\ run.input = seen.input /\ run.done = seen.done /\ run.act = seen.act
  /\ seen.inbox \subseteq run.inbox

\* And what came since is an approval that the poll did not see.
PolledFine(run, seen, c) ==
  /\ Follows(run, seen) /\ run.status = "RUNNING" /\ run.wft
  /\ RunFine(seen, PathOf(c.input))
  /\ run.news => c.mode = "hitl" /\ c.signal \notin seen.inbox

TaskFine ==
  /\ worker.pc = "wfAnswer" => 
         PolledFine(runs[worker.task.id], worker.task.seen, demo.clients[worker.task.id])
  /\ worker.pc \in {"invoke", "chat", "actAnswer"} =>
       runs[worker.task.id].act /\ runs[worker.task.id].status = "RUNNING"

Undisturbed == ScriptFine /\ Approving /\ WorkerFine /\ TaskFine /\ RunsFine

CalmInv == /\ worker.pc = "resolve" => worker.tls
           /\ Calm => Undisturbed

(* The calm, step by step.                                                 *)

\* An exchange that is not disturbed is carried out unless refused, and says
\* so.
LEMMA CalmExchange ==
  ASSUME faults \in Nat, NEW refusal \in {0, 401, 404, 409, 422}, NEW http \in Exchange(refusal),
         Spend(http), faults' = faults
  PROVE  /\ ~Disturbed(http)
         /\ Succeeds(http) = (refusal = 0) /\ http.done = (refusal = 0)
         /\ http.status = IF refusal = 0 THEN 200 ELSE refusal
<1>1. ~Disturbed(http)
  BY SpendPays
<1>2. CASE refusal = 0
  BY <1>1, <1>2, ExchangeTells
<1>3. CASE refusal # 0
  BY <1>1, <1>3, ExchangeTells
<1> QED
  BY <1>1, <1>2, <1>3

\* A call that is not disturbed is carried out if the service accepts it.
LEMMA CalmCall ==
  ASSUME faults \in Nat, NEW accepted \in BOOLEAN, NEW c \in call(accepted), Charge(c),
         faults' = faults, worker.tls
  PROVE  c.done = accepted /\ (c.grpc_status = "OK") = accepted
<1>1. c.grpc_status # "UNAVAILABLE"
  BY ChargePays
<1>2. accepted => c.grpc_status = "OK"
  BY <1>1, CallTells
<1>3. c.grpc_status = "OK" => c.done
  BY CallTells
<1>4. c.done \in BOOLEAN /\ (c.done => accepted)
  BY CallTells
<1> QED
  BY <1>2, <1>3, <1>4, Zenon

\* No step restores the calm.
LEMMA CalmBefore ==
  ASSUME Types, Pays, "worker" \in late => "worker" \in late',
         client.timedOut => client'.timedOut, worker'.tls => worker.tls, Calm'
  PROVE  Calm /\ faults' = faults
<1>1. faults \in Nat /\ faults <= MaxFaults /\ MaxFaults \in Nat
  BY Basics, ControlPlaneAssumption
<1>2. faults' = MaxFaults /\ faults' \in 0 .. faults
  BY DEF Calm, Pays
<1>3. faults = MaxFaults
  BY <1>1, <1>2
<1>4. ~client'.timedOut /\ "worker" \notin late' /\ worker'.tls
  BY DEF Calm
<1> QED
  BY <1>2, <1>3, <1>4 DEF Calm

(* Along a path.                                                           *)

WellPath(path) ==
  /\ Len(path) \in Nat /\ DOMAIN path = 1 .. Len(path)
  /\ \A i \in 1 .. Len(path) : path[i].kind \in {"activity", "wait_signal"}

\* The paths of a demonstration meet only activities and waits.
LEMMA PathIsWell ==
  ASSUME demo \in Demos, NEW r \in 1 .. Len(demo.clients)
  PROVE  WellPath(PathTaken(r))
<1>1. PathTaken(r) \in Seq(Steps) /\ Len(PathTaken(r)) \in Nat
  BY PathIsSeq DEF PathTaken
<1>2. DOMAIN PathTaken(r) = 1 .. Len(PathTaken(r))
  BY <1>1, LenProperties
<1>3. r \in DOMAIN demo.clients
  BY DemoFits
<1>4. \A s \in StepsOf(PathTaken(r)) : s.kind \in {"activity", "wait_signal"}
  BY <1>3, ScriptsAssumption DEF PathTaken, PathOf
<1> QED
  BY <1>1, <1>2, <1>4 DEF WellPath, StepsOf

\* The activities up to a step of the path can be counted.
LEMMA ActsAreFinite ==
  ASSUME NEW path, NEW n \in Nat
  PROVE  IsFiniteSet(ActsIn(path, n)) /\ Cardinality(ActsIn(path, n)) \in Nat
<1>1. IsFiniteSet(1 .. n)
  BY FS_Interval
<1>2. ActsIn(path, n) \subseteq 1 .. n
  BY DEF ActsIn
<1> QED
  BY <1>1, <1>2, FS_Subset, FS_CardinalityType

\* Before the first step no command is given.
LEMMA NothingScheduled ==
  ASSUME NEW path
  PROVE  Scheduled(path, 0) = << >>
<1>1. ActsIn(path, 0) = {}
  BY DEF ActsIn
<1>2. Cardinality(ActsIn(path, 0)) = 0
  BY <1>1, FS_EmptySet
<1> QED
  BY <1>2 DEF Scheduled

\* Up to the next activity, one command more is scheduled.
LEMMA OneMoreScheduled ==
  ASSUME NEW path, NEW n \in Nat, NEW m \in Nat, n < m, path[m].kind = "activity",
         \A i \in n + 1 .. m - 1 : path[i].kind # "activity"
  PROVE  Append(Scheduled(path, n), "SCHEDULE") = Scheduled(path, m)
<1>1. ActsIn(path, m) = ActsIn(path, n) \cup {m}
  <2>1. ASSUME NEW i \in ActsIn(path, m)
        PROVE  i \in ActsIn(path, n) \cup {m}
    <3>1. i \in 1 .. m /\ path[i].kind = "activity"
      BY <2>1 DEF ActsIn
    <3>2. i \notin n + 1 .. m - 1
      BY <3>1
    <3>3. i = m \/ i \in 1 .. n
      BY <3>1, <3>2
    <3> QED
      BY <3>1, <3>3 DEF ActsIn
  <2>2. ActsIn(path, n) \cup {m} \subseteq ActsIn(path, m)
    BY DEF ActsIn
  <2> QED
    BY <2>1, <2>2
<1>2. m \notin ActsIn(path, n)
  BY DEF ActsIn
<1>3. PICK k \in Nat : k = Cardinality(ActsIn(path, n))
  BY ActsAreFinite
<1>4. Cardinality(ActsIn(path, m)) = k + 1
  BY <1>1, <1>2, <1>3, ActsAreFinite, FS_AddElement
<1>5. PICK s : s = Scheduled(path, n)
  OBVIOUS
<1>6. s = [i \in 1 .. k |-> "SCHEDULE"]
  BY <1>3, <1>5 DEF Scheduled
<1>7. s \in Seq(Commands) /\ Len(s) = k
  BY <1>6 DEF Commands
<1>8. Append(s, "SCHEDULE") = [i \in 1 .. k + 1 |-> "SCHEDULE"]
  BY <1>6, <1>7
<1> QED
  BY <1>4, <1>5, <1>8 DEF Scheduled

\* When no activity is left, the commands end.
LEMMA ScheduledAll ==
  ASSUME NEW path, WellPath(path), NEW n \in Nat, n <= Len(path),
         \A i \in n + 1 .. Len(path) : path[i].kind # "activity"
  PROVE  Append(Scheduled(path, n), "COMPLETE") = Issued(path)
<1>1. Len(path) \in Nat /\ DOMAIN path = 1 .. Len(path)
  BY DEF WellPath
<1>2. ActsIn(path, n) = {i \in DOMAIN path : path[i].kind = "activity"}
  <2>1. ASSUME NEW i \in DOMAIN path, path[i].kind = "activity"
        PROVE  i \in 1 .. n
    <3>1. i \in 1 .. Len(path) /\ i \notin n + 1 .. Len(path)
      BY <1>1, <2>1
    <3> QED
      BY <1>1, <3>1
  <2> QED
    BY <1>1, <2>1 DEF ActsIn
<1>3. PICK k \in Nat : k = Cardinality(ActsIn(path, n))
  BY ActsAreFinite
<1>4. PICK s : s = Scheduled(path, n)
  OBVIOUS
<1>5. s = [i \in 1 .. k |-> "SCHEDULE"]
  BY <1>3, <1>4 DEF Scheduled
<1>6. s \in Seq(Commands) /\ Len(s) = k
  BY <1>5 DEF Commands
<1>7. Append(s, "COMPLETE") = [i \in 1 .. k + 1 |-> IF i <= k THEN "SCHEDULE" ELSE "COMPLETE"]
  BY <1>5, <1>6
<1>8. Issued(path) = [i \in 1 .. k + 1 |-> IF i <= k THEN "SCHEDULE" ELSE "COMPLETE"]
  BY <1>2, <1>3 DEF Issued
<1> QED
  BY <1>4, <1>7, <1>8

\* A run that gains at most signals is as far along its path as before.
LEMMA StillFine ==
  ASSUME NEW path, WellPath(path), NEW run, NEW new, run.done \in Nat, RunFine(run, path),
         new.status = run.status, new.commands = run.commands, new.done = run.done,
         new.act = run.act, new.failed = run.failed, new.lost = run.lost,
         run.inbox \subseteq new.inbox
  PROVE  RunFine(new, path)
<1>1. \A n : Signalled(run, path, n) => Signalled(new, path, n)
  BY DEF Signalled
<1>2. ~new.failed /\ ~new.lost /\ new.done <= Len(path) /\ Signalled(new, path, new.done)
  BY <1>1 DEF RunFine
<1>3. InFlight(new, path)
  BY DEF RunFine, InFlight
<1>4. CommandsFit(new, path)
  BY <1>1 DEF RunFine, CommandsFit
<1> QED
  BY <1>2, <1>3, <1>4 DEF RunFine

\* A run that starts is at the beginning of its path.
LEMMA NewRunFine ==
  ASSUME NEW path, WellPath(path), NEW input
  PROVE  RunFine(NewRun(input), path)
<1> DEFINE new == NewRun(input)
<1>1. /\ new.done = 0 /\ ~new.act /\ ~new.failed /\ ~new.lost /\ new.status = "RUNNING"
      /\ new.commands = << >>
  BY DEF NewRun
<1> HIDE DEF new
<1>2. new.commands = Scheduled(path, IF new.act THEN new.done + 1 ELSE new.done)
  BY <1>1, NothingScheduled
<1>3. Signalled(new, path, new.done) /\ new.done <= Len(path)
  BY <1>1 DEF Signalled, WellPath
<1>4. RunFine(new, path)
  BY <1>1, <1>2, <1>3 DEF RunFine, InFlight, CommandsFit
<1> QED
  BY <1>4 DEF new

\* What the service notes of an activity that succeeds.
LEMMA RecordedFields ==
  ASSUME NEW run \in Run
  PROVE  LET new == Recorded(run, "success") IN
         new.done = run.done + 1 /\ ~new.failed /\ new.wft /\ new.news
<1> QED
  BY DEF Recorded, Run

\* The activity in flight is done.
LEMMA RecordedFine ==
  ASSUME NEW path, WellPath(path), NEW run \in Run, RunFine(run, path), run.act,
         run.status = "RUNNING"
  PROVE  RunFine(Recorded(run, "success"), path)
<1> DEFINE new == Recorded(run, "success")
<1>1. /\ new.done = run.done + 1 /\ ~new.failed /\ ~new.act
      /\ new.status = run.status /\ new.commands = run.commands
      /\ new.inbox = run.inbox /\ new.lost = run.lost
  BY RecordedFields, RecordedRun
<1> HIDE DEF new
<1>2. run.done \in Nat /\ Len(path) \in Nat
  BY DEF Run, WellPath
<1>3. run.done < Len(path) /\ path[run.done + 1].kind = "activity"
  BY DEF RunFine, InFlight
<1>4. Signalled(new, path, new.done)
  <2>1. ASSUME NEW i \in 1 .. new.done, path[i].kind = "wait_signal"
        PROVE  path[i].signal \in new.inbox
    <3>1. i # run.done + 1
      BY <1>3, <2>1
    <3>2. i \in 1 .. run.done
      BY <1>1, <1>2, <3>1
    <3> QED
      BY <1>1, <2>1, <3>2 DEF RunFine, Signalled
  <2> QED
    BY <2>1 DEF Signalled
<1>5. run.commands = Scheduled(path, run.done + 1)
  BY DEF RunFine, CommandsFit
<1>6. new.commands = Scheduled(path, IF new.act THEN new.done + 1 ELSE new.done)
  BY <1>1, <1>5
<1>7. InFlight(new, path) /\ CommandsFit(new, path)
  BY <1>1, <1>6 DEF InFlight, CommandsFit
<1>8. ~new.lost /\ new.done <= Len(path)
  BY <1>1, <1>2, <1>3 DEF RunFine
<1>9. RunFine(new, path)
  BY <1>1, <1>4, <1>7, <1>8 DEF RunFine
<1> QED
  BY <1>9 DEF new

\* What an answer leaves of a run, and where a new activity stands.
LEMMA AnsweredFields ==
  ASSUME demo \in Demos, NEW run \in Run, NEW decision \in Decisions
  PROVE  LET new == Answered(run, decision) IN
         /\ new.input = run.input /\ new.inbox = run.inbox
         /\ new.failed = run.failed /\ new.lost = run.lost
         /\ new.done = IF decision = "Schedule" THEN Position(run) - 1 ELSE run.done
         /\ new.act = IF decision = "Schedule" THEN TRUE ELSE run.act
<1>1. PICK p \in Nat : p = Position(run)
  BY PositionIs
<1>2. CASE decision = "Schedule"
  BY <1>1, <1>2 DEF Answered, Run
<1>3. CASE decision = "Complete"
  BY <1>3 DEF Answered, Run
<1>4. CASE decision = "Fail"
  BY <1>4 DEF Answered, Run
<1>5. CASE decision \in {"Await", "Wait"}
  BY <1>5 DEF Answered, Run
<1> QED
  BY <1>2, <1>3, <1>4, <1>5 DEF Decisions

\* The next activity is the same for the run and for what the poll saw of it.
LEMMA SamePosition ==
  ASSUME demo \in Demos, NEW run \in Run, NEW seen \in Run, Follows(run, seen),
         Position(seen) <= Len(PathOf(run.input)),
         PathOf(run.input)[Position(seen)].kind = "activity"
  PROVE  Position(run) = Position(seen) /\ Position(run) \in OpenSteps(run)
         /\ \A i \in OpenSteps(run) : Position(run) <= i
<1>1. PICK n \in Nat : n = Len(PathOf(run.input))
  BY PathIsSeq
<1>2. run.done \in Nat /\ run.done = seen.done /\ run.input = seen.input
      /\ seen.inbox \subseteq run.inbox
  BY DEF Run, Follows
<1>3. PICK i \in Nat : i = Position(seen)
  BY PositionIs
<1>4. PICK j \in Nat : j = Position(run)
  BY PositionIs
<1>5. OpenSteps(run) \subseteq OpenSteps(seen)
  BY <1>2 DEF OpenSteps
<1>6. i \in OpenSteps(seen) /\ \A k \in OpenSteps(seen) : i <= k
  BY <1>2, <1>3, PositionIs
<1>7. i \in OpenSteps(run)
  BY <1>2, <1>3, <1>6 DEF OpenSteps
<1>8. j <= n
  <2>1. ~(j > n)
    BY <1>1, <1>4, <1>7, PositionIs
  <2> QED
    BY <1>1, <1>4, <2>1
<1>9. j \in OpenSteps(run) /\ \A k \in OpenSteps(run) : j <= k
  BY <1>1, <1>4, <1>8, PositionIs
<1>10. i = j
  <2>1. j <= i /\ i <= j
    BY <1>5, <1>6, <1>7, <1>9
  <2> QED
    BY <1>3, <1>4, <2>1
<1> QED
  BY <1>3, <1>4, <1>9, <1>10

\* An activity scheduled from a poll the run follows is the next of its path.
LEMMA ScheduledFine ==
  ASSUME demo \in Demos, NEW run \in Run, NEW seen \in Run, Follows(run, seen),
         WellPath(PathOf(run.input)), RunFine(run, PathOf(run.input)), run.status = "RUNNING",
         decide(seen) = "Schedule"
  PROVE  RunFine(Answered(run, "Schedule"), PathOf(run.input))
<1>1. PICK path : path = PathOf(run.input)
  OBVIOUS
<1>2. Len(path) \in Nat /\ run.done \in Nat /\ WellPath(path) /\ RunFine(run, path)
      /\ run.input = seen.input /\ run.act = seen.act
  BY <1>1 DEF WellPath, Run, Follows
<1>3. ~seen.act /\ Position(seen) <= Len(path) /\ path[Position(seen)].kind = "activity"
  <2>1. PICK i \in Nat : i = Position(seen)
    BY PositionIs
  <2>2. ~seen.act /\ ~(i > Len(path)) /\ path[i].kind = "activity"
    BY <1>1, <1>2, <2>1 DEF decide, PathOf
  <2> QED
    BY <1>2, <2>1, <2>2
<1>4. PICK i \in Nat \ {0} : i = Position(run)
  BY PositionIs
<1>5. i = Position(seen) /\ i \in OpenSteps(run) /\ \A j \in OpenSteps(run) : i <= j
  BY <1>1, <1>3, <1>4, SamePosition
<1>6. i \in run.done + 1 .. Len(path) /\ path[i].kind = "activity"
  BY <1>1, <1>3, <1>5 DEF OpenSteps
<1>7. \A j \in run.done + 1 .. i - 1 : path[j].kind = "wait_signal" /\ path[j].signal \in run.inbox
  <2> TAKE j \in run.done + 1 .. i - 1
  <2>1. j \in run.done + 1 .. Len(path) /\ j \in 1 .. Len(path)
    BY <1>2, <1>6
  <2>2. j \notin OpenSteps(run)
    BY <1>2, <1>4, <1>5
  <2>3. path[j].kind # "activity" /\ path[j].signal \in run.inbox
    BY <1>1, <2>1, <2>2 DEF OpenSteps
  <2> QED
    BY <1>2, <2>1, <2>3 DEF WellPath
<1>8. PICK new : new = Answered(run, "Schedule")
  OBVIOUS
<1>9. /\ new.inbox = run.inbox /\ new.failed = run.failed /\ new.lost = run.lost
      /\ new.done = i - 1 /\ new.act
      /\ new.status = "RUNNING" /\ new.commands = Append(run.commands, "SCHEDULE")
  BY <1>4, <1>8, AnsweredFields, AnsweredRun DEF Decisions, StatusAfter, Longer
<1>10. Signalled(new, path, new.done)
  <2>1. ASSUME NEW j \in 1 .. new.done, path[j].kind = "wait_signal"
        PROVE  path[j].signal \in run.inbox
    <3>1. CASE j \in 1 .. run.done
      BY <1>2, <2>1, <3>1 DEF RunFine, Signalled
    <3>2. CASE j \notin 1 .. run.done
      <4>1. j \in run.done + 1 .. i - 1
        BY <1>2, <1>9, <2>1, <3>2
      <4> QED
        BY <1>7, <4>1
    <3> QED
      BY <3>1, <3>2
  <2> QED
    BY <1>9, <2>1 DEF Signalled
<1>11. new.done < Len(path) /\ new.done + 1 = i
  BY <1>2, <1>4, <1>6, <1>9
<1>12. InFlight(new, path)
  BY <1>6, <1>11 DEF InFlight
<1>13. run.commands = Scheduled(path, run.done)
  BY <1>2, <1>3 DEF RunFine, CommandsFit
<1>14. Append(run.commands, "SCHEDULE") = Scheduled(path, i)
  <2>1. run.done < i
    BY <1>2, <1>6
  <2>2. \A j \in run.done + 1 .. i - 1 : path[j].kind # "activity"
    BY <1>7
  <2>3. Append(Scheduled(path, run.done), "SCHEDULE") = Scheduled(path, i)
    BY <1>2, <1>4, <1>6, <2>1, <2>2, OneMoreScheduled
  <2> QED
    BY <1>13, <2>3
<1>15. CommandsFit(new, path)
  BY <1>9, <1>11, <1>14 DEF CommandsFit
<1>16. ~new.failed /\ ~new.lost /\ new.done <= Len(path)
  BY <1>2, <1>9, <1>11 DEF RunFine
<1> QED
  BY <1>1, <1>8, <1>10, <1>12, <1>15, <1>16 DEF RunFine

\* Nothing is left open: the last activity is done and every signal was seen.
LEMMA NothingOpen ==
  ASSUME demo \in Demos, NEW seen \in Run, RunFine(seen, PathOf(seen.input)),
         WellPath(PathOf(seen.input)), decide(seen) = "Complete"
  PROVE  /\ ~seen.act
         /\ \A i \in seen.done + 1 .. Len(PathOf(seen.input)) :
              PathOf(seen.input)[i].kind # "activity"
         /\ Signalled(seen, PathOf(seen.input), Len(PathOf(seen.input)))
<1>1. PICK path : path = PathOf(seen.input)
  OBVIOUS
<1>2. Len(path) \in Nat /\ seen.done \in Nat
  BY <1>1 DEF WellPath, Run
<1>3. ~seen.act /\ Position(seen) > Len(path)
  BY <1>1 DEF decide, PathOf
<1>4. OpenSteps(seen) = {}
  BY <1>1, <1>3, PositionIs
<1>5. \A i \in seen.done + 1 .. Len(path) : path[i].kind # "activity" /\ path[i].signal \in seen.inbox
  BY <1>1, <1>4 DEF OpenSteps
<1>6. Signalled(seen, path, Len(path))
  <2>1. ASSUME NEW i \in 1 .. Len(path), path[i].kind = "wait_signal"
        PROVE  path[i].signal \in seen.inbox
    <3>1. CASE i \in 1 .. seen.done
      BY <1>1, <2>1, <3>1 DEF RunFine, Signalled
    <3>2. CASE i \notin 1 .. seen.done
      <4>1. i \in seen.done + 1 .. Len(path)
        BY <1>2, <2>1, <3>2
      <4> QED
        BY <1>5, <4>1
    <3> QED
      BY <3>1, <3>2
  <2> QED
    BY <2>1 DEF Signalled
<1> QED
  BY <1>1, <1>3, <1>5, <1>6

\* A run closed from a poll it follows has been through its whole path.
LEMMA CompletedFine ==
  ASSUME demo \in Demos, NEW run \in Run, NEW seen \in Run, Follows(run, seen),
         WellPath(PathOf(run.input)), RunFine(run, PathOf(run.input)),
         RunFine(seen, PathOf(run.input)), run.status = "RUNNING", decide(seen) = "Complete"
  PROVE  RunFine(Answered(run, "Complete"), PathOf(run.input))
<1>1. PICK path : path = PathOf(run.input)
  OBVIOUS
<1>2. Len(path) \in Nat /\ run.done \in Nat /\ WellPath(path) /\ RunFine(run, path)
      /\ path = PathOf(seen.input) /\ run.act = seen.act /\ run.done = seen.done
      /\ seen.inbox \subseteq run.inbox
  BY <1>1 DEF WellPath, Run, Follows
<1>3. /\ ~seen.act
      /\ \A i \in run.done + 1 .. Len(path) : path[i].kind # "activity"
      /\ Signalled(seen, path, Len(path))
  BY <1>1, <1>2, NothingOpen
<1>4. PICK new : new = Answered(run, "Complete")
  OBVIOUS
<1>5. /\ new.inbox = run.inbox /\ new.failed = run.failed /\ new.lost = run.lost
      /\ new.done = run.done /\ new.act = run.act
      /\ new.status = "COMPLETED" /\ new.commands = Append(run.commands, "COMPLETE")
  BY <1>4, AnsweredFields, AnsweredRun DEF Decisions, StatusAfter, Longer
<1>6. run.commands = Scheduled(path, run.done)
  BY <1>2, <1>3 DEF RunFine, CommandsFit
<1>7. run.done <= Len(path)
  BY <1>2 DEF RunFine
<1>8. new.commands = Issued(path)
  <2>1. Append(Scheduled(path, run.done), "COMPLETE") = Issued(path)
    BY <1>2, <1>3, <1>7, ScheduledAll
  <2> QED
    BY <1>5, <1>6, <2>1
<1>9. Signalled(new, path, Len(path)) /\ Signalled(new, path, new.done)
  <2>1. Signalled(new, path, Len(path))
    BY <1>2, <1>3, <1>5 DEF Signalled
  <2> QED
    BY <1>2, <1>5, <1>7, <2>1 DEF Signalled
<1>10. InFlight(new, path) /\ CommandsFit(new, path)
  BY <1>2, <1>3, <1>5, <1>8, <1>9 DEF InFlight, CommandsFit
<1>11. ~new.failed /\ ~new.lost /\ new.done <= Len(path)
  BY <1>2, <1>5, <1>7 DEF RunFine
<1> QED
  BY <1>1, <1>4, <1>9, <1>10, <1>11 DEF RunFine

-----------------------------------------------------------------------------
(* The script in the calm: no client fails.                                *)

\* While no client has failed, the clients have kept their order.
LEMMA OrderlyIfNoneFailed ==
  ASSUME NoneFailed
  PROVE  Orderly
BY DEF NoneFailed, Orderly

\* The run a client watches is its own, and follows the path of its input.
LEMMA WatchedRun ==
  ASSUME IInv, NoneFailed, RunsFine, client.pc \in Watching
  PROVE  /\ client.id = client.k /\ client.id \in DOMAIN runs /\ client.k \in DOMAIN demo.clients
         /\ runs[client.id] \in Run /\ runs[client.id].input = Input
         /\ RunFine(runs[client.id], PathOf(Input)) /\ WellPath(PathOf(Input))
<1>1. Types /\ client.id = Len(runs) /\ Len(runs) = client.k
  BY OrderlyIfNoneFailed DEF IInv, OneRunEach, InTurn
<1>2. client.k \in 1 .. Len(demo.clients) /\ client.id \in 1 .. Len(runs)
  BY <1>1, ClientIs
<1>3. client.id \in DOMAIN runs /\ runs[client.id] \in Run
  BY <1>1, <1>2, ElementOfSeq, Basics
<1>4. client.k \in DOMAIN demo.clients /\ demo \in Demos
  BY <1>1, <1>2, DemoFits DEF Types
<1>5. runs[client.id].input = Input /\ RunFine(runs[client.id], PathOf(Input))
  BY <1>1, <1>3 DEF RunsFine, PathTaken, Input
<1>6. WellPath(PathOf(Input))
  BY <1>2, <1>4, PathIsWell DEF PathTaken, Input
<1> QED
  BY <1>1, <1>3, <1>4, <1>5, <1>6

\* A run whose approval is still to come has not completed.
LEMMA ApprovalPending ==
  ASSUME IInv, NoneFailed, RunsFine, Approving, client.pc \in {"observe", "signal"}
  PROVE  runs[client.id].status = "RUNNING"
<1>1. client.pc \in Watching
  BY DEF Watching
<1>2. PICK path : path = PathOf(Input)
  OBVIOUS
<1>3. RunFine(runs[client.id], path) /\ WellPath(path) /\ client.k \in DOMAIN demo.clients
  BY <1>1, <1>2, WatchedRun
<1>4. demo.clients[client.k].mode = "hitl" /\ demo \in Demos
  BY DEF IInv, Types, Declared, Mode
<1>5. \E s \in StepsOf(path) : s.kind = "wait_signal" /\ s.signal = demo.clients[client.k].signal
  BY <1>2, <1>3, <1>4, ScriptsAssumption DEF PathOf, Input
<1>6. ~Signalled(runs[client.id], path, Len(path))
  BY <1>3, <1>5 DEF Signalled, StepsOf, WellPath, Approving
<1> QED
  BY <1>3, <1>6 DEF RunFine, CommandsFit

\* What is said of worker and runs depends on these only.
LEMMA WorkerAndRunsKept ==
  ASSUME demo' = demo, worker' = worker, runs' = runs, WorkerFine, TaskFine, RunsFine
  PROVE  WorkerFine' /\ TaskFine' /\ RunsFine'
<1>1. WorkerFine'
  BY DEF WorkerFine
<1>2. TaskFine'
  BY DEF TaskFine, PolledFine, PathOf
<1>3. RunsFine'
  BY DEF RunsFine, PathTaken, PathOf
<1> QED
  BY <1>1, <1>2, <1>3

\* A step of the script that changes no result keeps what is said of it.
LEMMA StaysFine ==
  ASSUME ScriptFine, Stays, demo' = demo, client'.pc \notin {"kill", "terminate"},
         client'.pc \notin Starting \cup Watching => client.pc \notin Starting \cup Watching,
         client'.pc \in {"check"} \cup Closing => client.waited,
         client'.pc = "verdict" => client'.status = "COMPLETED",
         client'.pc = "execute" \/ workflow'.active => workflow'.registered
  PROVE  ScriptFine'
BY DEF ScriptFine, Stays, NoneFailed

\* What a step of the script under a calm finds.
LEMMA CalmScript ==
  ASSUME CalmInv, Types, Pays, worker' = worker, "worker" \in late => "worker" \in late',
         client.timedOut => client'.timedOut, Calm'
  PROVE  Undisturbed /\ faults' = faults /\ ~client'.timedOut /\ worker.tls
<1>1. Calm /\ faults' = faults
  BY CalmBefore
<1> QED
  BY <1>1 DEF CalmInv, Calm

\* A client told that the workflow is active has been told so by the
\* deployment.
LEMMA ActiveIsRegistered ==
  ASSUME NEW result, workflowActive(result), result = "active"
  PROVE  workflow.active
BY DEF workflowActive

\* A client that waits for the workflow starts no run before it is registered.
LEMMA AwaitActiveCalm ==
  ASSUME IInv, CalmInv, awaitActive, demo' = demo, worker' = worker, Calm'
  PROVE  Undisturbed'
<1>1. Types
  BY DEF IInv
<1>2. /\ client.pc = "active" /\ Pays /\ workflow' = workflow /\ runs' = runs
      /\ \/ Turns(1) /\ client'.timedOut
         \/ Stays /\ client'.pc \in Starting /\ client'.timedOut = client.timedOut
  BY <1>1, AwaitActiveDoes
<1>3. "worker" \in late => "worker" \in late'
  BY DEF awaitActive, FreshDeadline
<1>4. Undisturbed /\ ~client'.timedOut
  BY <1>1, <1>2, <1>3, CalmScript
<1>5. Stays /\ client'.pc \in Starting
  BY <1>2, <1>4
<1>6. client'.pc = "execute" => workflow.registered
  <2>1. client \in Script1
    BY <1>1, Basics
  <2>2. CASE client' = Return([client EXCEPT !.timedOut = TRUE], 1)
    BY <2>1, <2>2 DEF Return, Script1
  <2>3. ASSUME NEW result, workflowActive(result),
               client' = IF result = "active" THEN [client EXCEPT !.pc = "execute"] ELSE client,
               client'.pc = "execute"
        PROVE  workflow.registered
    BY <1>2, <1>4, <2>3, ActiveIsRegistered DEF Undisturbed, ScriptFine
  <2> QED
    BY <2>2, <2>3 DEF awaitActive
<1>7. ScriptFine'
  BY <1>2, <1>4, <1>5, <1>6, StaysFine DEF Undisturbed, ScriptFine, Starting, Closing
<1>8. Approving'
  BY <1>5 DEF Approving, Starting
<1> QED
  BY <1>2, <1>4, <1>7, <1>8, WorkerAndRunsKept DEF Undisturbed

\* A client that looks for the pause keeps the calm, and gives up only by time.
LEMMA ObservePauseCalm ==
  ASSUME IInv, CalmInv, observePause, demo' = demo, worker' = worker, Calm'
  PROVE  Undisturbed'
<1>1. Types
  BY DEF IInv
<1>2. /\ client.pc = "observe" /\ Pays /\ workflow' = workflow /\ runs' = runs
      /\ client'.timedOut = client.timedOut
      /\ \/ Turns(1) /\ isTerminal(runs[client.id].status)
         \/ Stays /\ client'.pc \in {"observe", "signal"}
  BY <1>1, ObservePauseDoes
<1>3. "worker" \in late => "worker" \in late'
  BY DEF observePause, FreshDeadline
<1>4. Undisturbed
  BY <1>1, <1>2, <1>3, CalmScript
<1>5. runs[client.id].status = "RUNNING"
  BY <1>2, <1>4, ApprovalPending DEF Undisturbed, ScriptFine
<1>6. Stays /\ client'.pc \in {"observe", "signal"}
  BY <1>2, <1>5 DEF isTerminal, kTerminal
<1>7. ScriptFine'
  BY <1>2, <1>4, <1>6, StaysFine DEF Undisturbed, ScriptFine, Starting, Watching, Closing
<1>8. Approving'
  BY <1>2, <1>4, <1>6 DEF Undisturbed, Approving, Stays
<1> QED
  BY <1>2, <1>4, <1>7, <1>8, WorkerAndRunsKept DEF Undisturbed

\* A client that sees its run terminated sees it completed.
LEMMA PollTerminalCalm ==
  ASSUME IInv, CalmInv, pollTerminal, demo' = demo, worker' = worker, Calm'
  PROVE  Undisturbed'
<1>1. Types
  BY DEF IInv
<1>2. /\ client.pc = "poll" /\ Pays /\ workflow' = workflow /\ runs' = runs
      /\ Stays /\ client'.pc \in {"poll", "verdict"} /\ (client.timedOut => client'.timedOut)
  BY <1>1, PollTerminalDoes
<1>3. "worker" \in late => "worker" \in late'
  BY DEF pollTerminal
<1>4. Undisturbed /\ ~client'.timedOut /\ client \in Script1
  BY <1>1, <1>2, <1>3, CalmScript, Basics
<1>5. client'.pc = "verdict" => client'.status = "COMPLETED"
  <2>1. PICK status :
          /\ getExecution(client.id, status)
          /\ client' = IF status = "failure" THEN client
                       ELSE [client EXCEPT !.status = status,
                                           !.pc = IF isTerminal(status) THEN "verdict" ELSE @]
    BY <1>4 DEF pollTerminal, Script1
  <2>2. CASE status = "failure"
    BY <1>2, <2>1, <2>2
  <2>3. CASE status # "failure"
    <3>1. status = runs[client.id].status
      BY <1>1, <2>1, <2>3, ExecutionTells, Basics
    <3>2. client'.status = status /\ (client'.pc = "verdict" => isTerminal(status))
      BY <1>2, <1>4, <2>1, <2>3 DEF Script1
    <3>3. status \in {"RUNNING", "COMPLETED"}
      BY <1>2, <1>4, <3>1, WatchedRun DEF Undisturbed, ScriptFine, Watching, RunFine, CommandsFit
    <3> QED
      BY <3>2, <3>3 DEF isTerminal, kTerminal
  <2> QED
    BY <2>2, <2>3
<1>6. ScriptFine'
  BY <1>2, <1>4, <1>5, StaysFine DEF Undisturbed, ScriptFine, Starting, Watching, Closing
<1>7. Approving'
  BY <1>2 DEF Approving
<1> QED
  BY <1>2, <1>4, <1>6, <1>7, WorkerAndRunsKept DEF Undisturbed

\* A client of a completed run returns success.
LEMMA VerdictCalm ==
  ASSUME IInv, CalmInv, verdict, demo' = demo, worker' = worker, Calm'
  PROVE  Undisturbed'
<1>1. Types
  BY DEF IInv
<1>2. /\ client.pc = "verdict" /\ Pays /\ workflow' = workflow /\ runs' = runs
      /\ client'.timedOut = client.timedOut
      /\ Turns(IF client.status = "COMPLETED" THEN 0 ELSE 1)
      /\ client'.named = IF client.k = 1 THEN client.id ELSE client.named
  BY <1>1, VerdictDoes
<1>3. "worker" \in late => "worker" \in late'
  BY DEF verdict, FreshDeadline
<1>4. Undisturbed
  BY <1>1, <1>2, <1>3, CalmScript
<1>5. Turns(0)
  BY <1>2, <1>4 DEF Undisturbed, ScriptFine
<1>6. /\ client.rcs \in Seq({0, 1}) /\ client'.rcs = Append(client.rcs, 0)
      /\ Len(client.rcs) = client.k - 1 /\ client.k \in Nat /\ NoneFailed
  BY <1>1, <1>2, <1>4, <1>5, Basics DEF IInv, OneRunEach, Watching, Turns, Script1, Undisturbed, ScriptFine
<1>7. NoneFailed'
  BY <1>6 DEF NoneFailed
<1>8. client'.pc # "kill"
  <2>1. SUFFICES ASSUME client'.pc = "kill"
                 PROVE  FALSE
    OBVIOUS
  <2>2. demo.program = "sole" /\ client'.named = 0
    BY <1>5, <2>1 DEF Turns
  <2>3. client.k = 1
    BY <1>1, <2>2, DemoFits, ClientIs DEF Types
  <2>4. client.id # 0
    BY <1>1, <1>2, Basics DEF ClientFits, Watching
  <2> QED
    BY <1>2, <2>2, <2>3, <2>4
<1>9. client'.pc \in {"active", "wait"}
  BY <1>5, <1>8 DEF Turns
<1>10. client'.pc = "wait" => Len(client'.rcs) = Len(demo.clients)
  <2>1. Len(client'.rcs) = client.k
    BY <1>6
  <2> QED
    BY <1>5, <2>1 DEF Turns
<1>11. ScriptFine'
  BY <1>2, <1>4, <1>7, <1>9, <1>10 DEF Undisturbed, ScriptFine, Starting, Watching, Closing
<1>12. Approving'
  BY <1>9 DEF Approving
<1> QED
  BY <1>2, <1>4, <1>11, <1>12, WorkerAndRunsKept DEF Undisturbed

\* A worker that is waited for has left by itself.
LEMMA AwaitWorkerCalm ==
  ASSUME IInv, CalmInv, awaitWorker, demo' = demo, worker' = worker, Calm'
  PROVE  Undisturbed'
<1>1. Types
  BY DEF IInv
<1>2. /\ client.pc = "wait" /\ Pays /\ workflow' = workflow /\ runs' = runs /\ late' = late
      /\ client'.pc = "check" /\ client'.waited /\ client'.rcs = client.rcs
      /\ client'.timedOut = client.timedOut
  BY <1>1, AwaitWorkerDoes
<1>3. Undisturbed
  BY <1>1, <1>2, CalmScript
<1>4. ScriptFine'
  BY <1>2, <1>3 DEF Undisturbed, ScriptFine, NoneFailed, Starting, Watching
<1>5. Approving'
  BY <1>2 DEF Approving
<1> QED
  BY <1>2, <1>3, <1>4, <1>5, WorkerAndRunsKept DEF Undisturbed

\* The check reads the run completed, so that it is not terminated.
LEMMA CheckRunCalm ==
  ASSUME IInv, CalmInv, checkRun, demo' = demo, worker' = worker, Calm'
  PROVE  Undisturbed'
<1>1. Types
  BY DEF IInv
<1>2. /\ client.pc = "check" /\ Pays /\ workflow' = workflow /\ runs' = runs /\ Stays
      /\ client'.pc \in {"terminate", "inactive"} /\ client'.timedOut = client.timedOut
  BY <1>1, CheckRunDoes
<1>3. "worker" \in late => "worker" \in late'
  BY DEF checkRun, FreshDeadline
<1>4. Undisturbed /\ faults' = faults /\ client \in Script1
  BY <1>1, <1>2, <1>3, CalmScript, Basics
<1>5. client'.pc = "inactive"
  <2>1. CASE client.named = 0
    BY <1>4, <2>1 DEF checkRun, Script1
  <2>2. CASE client.named # 0
    <3>1. PICK status :
            /\ getExecution(client.named, status)
            /\ client' = [client EXCEPT !.pc = IF isTerminal(status) THEN "inactive" ELSE "terminate"]
      BY <2>2 DEF checkRun
    <3>2. client.named \in 1 .. Len(runs)
      BY <1>1, <1>4, <2>2, Basics DEF ClientFits, Script1
    <3>3. runs[client.named].status = "COMPLETED"
      BY <1>2, <1>4, <3>2
         DEF IInv, AllServed, AllClosedWell, Undisturbed, ScriptFine, Starting, Watching
    <3>4. status = "COMPLETED"
      BY <1>1, <1>4, <3>1, <3>3, ExecutionTells, Basics
    <3>5. isTerminal(status)
      BY <3>4 DEF isTerminal, kTerminal
    <3> QED
      BY <1>4, <3>1, <3>5 DEF Script1
  <2> QED
    BY <2>1, <2>2
<1>6. client.waited
  BY <1>2, <1>4 DEF Undisturbed, ScriptFine
<1>7. ScriptFine'
  BY <1>2, <1>4, <1>5, <1>6, StaysFine DEF Undisturbed, ScriptFine, Starting, Watching
<1>8. Approving'
  BY <1>5 DEF Approving
<1> QED
  BY <1>2, <1>4, <1>7, <1>8, WorkerAndRunsKept DEF Undisturbed

\* The rest of the cleanup only walks on.
LEMMA WalksOnCalm ==
  ASSUME IInv, CalmInv, awaitInactive \/ archive \/ join, demo' = demo, worker' = worker, Calm'
  PROVE  Undisturbed'
<1>1. Types
  BY DEF IInv
<1>2. /\ client.pc \in Closing /\ client'.pc \in Closing /\ Stays /\ Pays /\ runs' = runs
      /\ late' = late /\ client'.timedOut = client.timedOut
  BY <1>1, AwaitInactiveDoes, ArchiveDoes, JoinDoes DEF Closing
<1>3. workflow'.active = workflow.active /\ workflow'.registered = workflow.registered
  <2>1. CASE archive
    <3>1. workflow \in Deployment
      BY <1>1, Basics
    <3> QED
      BY <2>1, <3>1 DEF archive, archiveWorkflow, Deployment
  <2>2. CASE awaitInactive \/ join
    BY <1>1, <2>2, AwaitInactiveDoes, JoinDoes
  <2> QED
    BY <2>1, <2>2
<1>4. Undisturbed
  BY <1>1, <1>2, CalmScript
<1>5. client.waited
  BY <1>2, <1>4 DEF Undisturbed, ScriptFine
<1>6. client'.pc \notin {"kill", "terminate", "verdict", "execute"}
      /\ client.pc \notin Starting \cup Watching
  BY <1>2 DEF Closing, Starting, Watching
<1>7. ScriptFine'
  BY <1>2, <1>3, <1>4, <1>5, <1>6, StaysFine DEF Undisturbed, ScriptFine
<1>8. Approving'
  BY <1>2 DEF Approving, Closing
<1> QED
  BY <1>2, <1>4, <1>7, <1>8, WorkerAndRunsKept DEF Undisturbed

\* In the calm nothing is killed and nothing is terminated.
LEMMA NeverForced ==
  ASSUME IInv, CalmInv, demo' = demo, killWorker \/ (terminateRun /\ worker' = worker), Calm'
  PROVE  FALSE
<1>1. Types
  BY DEF IInv
<1>2. /\ client.pc \in {"kill", "terminate"} /\ Pays /\ late' = late
      /\ client'.timedOut = client.timedOut
  BY <1>1, KillWorkerDoes, TerminateDoes
<1>3. worker'.tls = worker.tls
  BY <1>1, Basics DEF killWorker, Worker
<1>4. Calm
  BY <1>1, <1>2, <1>3, CalmBefore
<1> QED
  BY <1>2, <1>4 DEF CalmInv, Undisturbed, ScriptFine

\* A client that starts its run is told the run's id.
LEMMA ExecuteCalm ==
  ASSUME IInv, CalmInv, execute, demo' = demo, worker' = worker, Calm'
  PROVE  Undisturbed'
<1>1. Types /\ demo \in Demos
  BY DEF IInv, Types
<1>2. /\ client.pc = "execute" /\ Pays /\ workflow' = workflow
      /\ client'.timedOut = client.timedOut
      /\ \/ faults' < faults \/ ~workflow.registered \/ Len(runs) >= MaxRuns
         \/ /\ Started /\ client'.id = Len(runs')
            /\ client'.k = client.k /\ client'.rcs = client.rcs /\ client'.waited = client.waited
            /\ client'.pc = IF Mode = "hitl" THEN "observe" ELSE "poll"
  BY <1>1, ExecuteDoes
<1>3. "worker" \in late => "worker" \in late'
  BY DEF execute, FreshDeadline
<1>4. Undisturbed /\ faults' = faults /\ workflow.registered
  BY <1>1, <1>2, <1>3, CalmScript DEF Undisturbed, ScriptFine
<1>5. PICK n \in Nat : n = Len(runs)
  BY <1>1, Basics
<1>6. n = client.k - 1 /\ client.k \in 1 .. Len(demo.clients) /\ NoneFailed
  BY <1>1, <1>2, <1>4, <1>5, OrderlyIfNoneFailed, ClientIs
     DEF IInv, InTurn, Starting, Undisturbed, ScriptFine
<1>7. n < MaxRuns
  <2>1. Len(demo.clients) \in 1 .. MaxRuns
    BY <1>1, ScriptsAssumption
  <2>2. MaxRuns \in Nat
    BY ControlPlaneAssumption
  <2> QED
    BY <1>6, <2>1, <2>2
<1>8. faults \in Nat /\ MaxRuns \in Nat
  BY <1>1, Basics, ControlPlaneAssumption
<1>9. /\ Started /\ client'.id = Len(runs')
      /\ client'.k = client.k /\ client'.rcs = client.rcs /\ client'.waited = client.waited
      /\ client'.pc \in {"observe", "poll"}
  BY <1>2, <1>4, <1>5, <1>7, <1>8
<1>10. /\ runs' \in Seq(Run) /\ Len(runs') = n + 1 /\ DOMAIN runs' = 1 .. n + 1
       /\ \A r \in 1 .. n : runs'[r] = runs[r]
       /\ runs'[n + 1] = NewRun(Input)
  BY <1>1, <1>5, <1>9, StartedRuns, LenProperties
<1>11. ScriptFine'
  BY <1>2, <1>4, <1>9 DEF Undisturbed, ScriptFine, NoneFailed, Starting, Watching, Closing
<1>12. Approving'
  <2>1. runs'[client'.id].inbox = {}
    BY <1>9, <1>10 DEF NewRun
  <2> QED
    BY <2>1 DEF Approving
<1>13. WorkerFine'
  BY <1>4 DEF Undisturbed, WorkerFine
<1>14. TaskFine'
  <2>1. worker.pc \in AtWork => worker.task.id \in 1 .. n
    BY <1>1, <1>5, Basics DEF WorkerFits, Worker, Task, NoTask
  <2>2. worker.pc \in AtWork => runs'[worker.task.id] = runs[worker.task.id]
    BY <1>10, <2>1
  <2> QED
    BY <1>4, <2>2 DEF Undisturbed, TaskFine, PolledFine, PathOf, AtWork
<1>15. RunsFine'
  <2>1. ASSUME NEW r \in DOMAIN runs'
        PROVE  runs'[r].input = demo.clients[r].input /\ RunFine(runs'[r], PathTaken(r))
    <3>1. CASE r \in 1 .. n
      BY <1>1, <1>4, <1>5, <1>10, <3>1, Basics DEF Undisturbed, RunsFine
    <3>2. CASE r \notin 1 .. n
      <4>1. r = n + 1 /\ r = client.k
        BY <1>6, <1>10, <2>1, <3>2
      <4>2. runs'[r] = NewRun(Input) /\ Input = demo.clients[r].input
        BY <1>10, <4>1 DEF Input
      <4>3. WellPath(PathTaken(r))
        BY <1>1, <1>6, <4>1, PathIsWell
      <4>4. RunFine(runs'[r], PathTaken(r))
        BY <4>2, <4>3, NewRunFine
      <4>5. runs'[r].input = Input
        BY <4>2 DEF NewRun
      <4> QED
        BY <4>2, <4>4, <4>5
    <3> QED
      BY <3>1, <3>2
  <2>2. \A r : PathTaken(r)' = PathTaken(r)
    BY DEF PathTaken, PathOf
  <2> QED
    BY <2>1, <2>2 DEF RunsFine
<1> QED
  BY <1>11, <1>12, <1>13, <1>14, <1>15 DEF Undisturbed

\* A run that one more signal has reached.
Told(run, name) == [run EXCEPT !.inbox = run.inbox \cup {name}, !.wft = TRUE, !.news = TRUE]

\* What a signal changes of a run.
LEMMA ToldFields ==
  ASSUME NEW run \in Run, NEW name
  PROVE  LET new == Told(run, name) IN
         /\ new.status = run.status /\ new.commands = run.commands /\ new.done = run.done
         /\ new.act = run.act /\ new.failed = run.failed /\ new.lost = run.lost
         /\ new.input = run.input /\ new.wft /\ run.inbox \subseteq new.inbox
<1>1. PICK inbox : inbox = run.inbox \cup {name}
  OBVIOUS
<1>2. PICK new : new = [run EXCEPT !.inbox = inbox, !.wft = TRUE, !.news = TRUE]
  OBVIOUS
<1>3. Told(run, name) = new
  BY <1>1, <1>2 DEF Told
<1>4. /\ new.status = run.status /\ new.commands = run.commands /\ new.done = run.done
      /\ new.act = run.act /\ new.failed = run.failed /\ new.lost = run.lost
      /\ new.input = run.input /\ new.wft /\ new.inbox = inbox
  BY <1>2 DEF Run
<1> QED
  BY <1>1, <1>3, <1>4

\* The service's note of a signal, as one change of one run.
LEMMA ToldRun ==
  ASSUME runs \in Seq(Run), NEW id \in DOMAIN runs, NEW name,
         runs' = [runs EXCEPT ![id].inbox = @ \cup {name}, ![id].wft = TRUE, ![id].news = TRUE]
  PROVE  runs' = [runs EXCEPT ![id] = Told(runs[id], name)]
<1>1. runs[id] \in Run
  BY ElementOfSeq, LenProperties
<1>2. PICK new : new = Told(runs[id], name)
  OBVIOUS
<1>3. new = [runs[id] EXCEPT !.inbox = @ \cup {name}, !.wft = TRUE, !.news = TRUE]
  BY <1>2 DEF Told
<1>4. runs' = [runs EXCEPT ![id] = new]
  BY <1>1, <1>3 DEF Run
<1> QED
  BY <1>2, <1>4

\* The approval is accepted, since its run is still open, and lands in its
\* inbox.
LEMMA SignalCalm ==
  ASSUME IInv, CalmInv, signal, demo' = demo, worker' = worker, Calm'
  PROVE  Undisturbed'
<1>1. Types /\ demo \in Demos
  BY DEF IInv, Types
<1>2. client.pc = "signal" /\ Pays /\ workflow' = workflow /\ client'.timedOut = client.timedOut
  BY <1>1, SignalDoes
<1>3. "worker" \in late => "worker" \in late'
  BY DEF signal, FreshDeadline
<1>4. Undisturbed /\ faults' = faults
  BY <1>1, <1>2, <1>3, CalmScript
<1>5. NoneFailed /\ RunsFine /\ Approving
  BY <1>4 DEF Undisturbed, ScriptFine
<1>6. runs[client.id].status = "RUNNING"
  BY <1>2, <1>5, ApprovalPending
<1>7. PICK name : name = demo.clients[client.k].signal
  OBVIOUS
<1>8. name \in workflow.signals
  BY <1>1, <1>2, <1>7, ApprovalIsDeclared DEF IInv, Declared, Watching
<1>9. /\ client.id = client.k /\ client.id \in DOMAIN runs /\ runs[client.id] \in Run
      /\ RunFine(runs[client.id], PathOf(Input)) /\ WellPath(PathOf(Input))
  BY <1>2, <1>5, WatchedRun DEF Watching
<1>10. PICK id \in DOMAIN runs : id = client.id /\ id = client.k
  BY <1>9
<1>11. runs' = [runs EXCEPT ![id] = Told(runs[id], name)] /\ client'.pc = "poll" /\ client'.rcs = client.rcs
  <2>1. PICK status \in {0, 200, 409, 422, 503} :
          /\ signalExecution(client.id, demo.clients[client.k].signal, status)
          /\ client' = LET told == [client EXCEPT !.sig = status] IN
                       IF status = 200 THEN [told EXCEPT !.pc = "poll"] ELSE Return(told, 1)
    BY DEF signal
  <2>8. signalExecution(id, name, status)
    BY <1>7, <1>10, <2>1
  <2>2. ~isTerminal(runs[id].status)
    BY <1>6, <1>10 DEF isTerminal, kTerminal
  <2>3. PICK http \in Exchange(0) :
          /\ Spend(http) /\ status = http.status
          /\ runs' = IF http.done
                     THEN [runs EXCEPT ![id].inbox = @ \cup {name}, ![id].wft = TRUE, ![id].news = TRUE]
                     ELSE runs
    BY <1>8, <2>2, <2>8 DEF signalExecution, post
  <2>4. http.done /\ status = 200
    <3>1. faults \in Nat
      BY <1>1, Basics
    <3>2. PICK refusal \in {0, 401, 404, 409, 422} : refusal = 0
      OBVIOUS
    <3>3. http \in Exchange(refusal) /\ Spend(http) /\ faults' = faults
      BY <1>4, <2>3, <3>2
    <3>4. http.done = (refusal = 0) /\ http.status = IF refusal = 0 THEN 200 ELSE refusal
      BY <3>1, <3>3, CalmExchange
    <3>5. http.done
      BY <3>2, <3>4
    <3>6. http.status = 200
      BY <3>2, <3>4
    <3>7. status = http.status
      BY <2>3
    <3> QED
      BY <3>5, <3>6, <3>7
  <2>5. runs' = [runs EXCEPT ![id] = Told(runs[id], name)]
    BY <1>1, <2>3, <2>4, ToldRun, Basics
  <2>6. client \in Script1
    BY <1>1, Basics
  <2>7. client' = [[client EXCEPT !.sig = status] EXCEPT !.pc = "poll"]
    BY <2>1, <2>4
  <2> QED
    BY <2>5, <2>6, <2>7 DEF Script1
<1>12. PICK new : new = Told(runs[id], name)
  OBVIOUS
<1>13. \A r \in DOMAIN runs : runs'[r] = IF r = id THEN new ELSE runs[r]
  BY <1>1, <1>11, <1>12, Basics
<1>14. DOMAIN runs' = DOMAIN runs
  BY <1>1, <1>11, Basics
<1>15. /\ new.status = runs[id].status /\ new.commands = runs[id].commands
       /\ new.done = runs[id].done /\ new.act = runs[id].act /\ new.failed = runs[id].failed
       /\ new.lost = runs[id].lost /\ new.input = runs[id].input /\ new.wft
       /\ runs[id].inbox \subseteq new.inbox
  BY <1>9, <1>10, <1>12, ToldFields
<1>16. name \notin runs[id].inbox /\ demo.clients[id].mode = "hitl"
  BY <1>2, <1>5, <1>7, <1>10 DEF Approving, IInv, Declared, Mode
<1>17. ScriptFine'
  BY <1>2, <1>4, <1>11 DEF Undisturbed, ScriptFine, NoneFailed, Starting, Watching, Closing
<1>18. Approving'
  BY <1>11 DEF Approving
<1>19. WorkerFine'
  BY <1>4 DEF Undisturbed, WorkerFine
<1>20. TaskFine'
  <2>1. PICK t : t = worker.task.id
    OBVIOUS
  <2>2. worker.pc \in AtWork => t \in DOMAIN runs
    BY <1>1, <2>1, Basics DEF WorkerFits, Worker, Task, NoTask
  <2>3. worker.pc \in {"invoke", "chat", "actAnswer"} => runs'[t].act /\ runs'[t].status = "RUNNING"
    BY <1>4, <1>13, <1>15, <2>1, <2>2 DEF Undisturbed, TaskFine, AtWork
  <2>4. ASSUME worker.pc = "wfAnswer", NEW seen, seen = worker.task.seen
        PROVE  PolledFine(runs'[t], seen, demo.clients[t])
    <3>1. PolledFine(runs[t], seen, demo.clients[t]) /\ t \in DOMAIN runs
      BY <1>4, <2>1, <2>2, <2>4 DEF Undisturbed, TaskFine, AtWork
    <3>2. CASE t # id
      BY <1>13, <3>1, <3>2
    <3>3. CASE t = id
      <4>1. runs'[t] = new
        BY <1>13, <3>3
      <4>2. Follows(new, seen) /\ new.status = "RUNNING"
        BY <1>15, <3>1, <3>3 DEF PolledFine, Follows
      <4>3. demo.clients[t].signal = name /\ name \notin seen.inbox
        BY <1>7, <1>10, <1>16, <3>1, <3>3 DEF PolledFine, Follows
      <4> QED
        BY <1>15, <1>16, <3>1, <3>3, <4>1, <4>2, <4>3 DEF PolledFine
    <3> QED
      BY <3>2, <3>3
  <2>5. SUFFICES ASSUME worker.pc = "wfAnswer"
                 PROVE  PolledFine(runs[worker.task.id], worker.task.seen,
                                   demo.clients[worker.task.id])'
    BY <2>1, <2>3 DEF TaskFine
  <2>6. PolledFine(runs'[t], worker.task.seen, demo.clients[t])
    BY <2>4, <2>5
  <2> QED
    BY <2>1, <2>6 DEF PolledFine, PathOf
<1>21. RunsFine'
  <2>1. ASSUME NEW r \in DOMAIN runs'
        PROVE  runs'[r].input = demo.clients[r].input /\ RunFine(runs'[r], PathTaken(r))
    <3>1. runs[r].input = demo.clients[r].input /\ RunFine(runs[r], PathTaken(r))
      BY <1>5, <1>14, <2>1 DEF RunsFine
    <3>2. CASE r # id
      BY <1>13, <1>14, <2>1, <3>1, <3>2
    <3>3. CASE r = id
      <4>1. runs'[r] = new /\ PathTaken(r) = PathOf(Input)
        BY <1>10, <1>13, <3>3 DEF PathTaken, Input
      <4>2. runs[id].done \in Nat
        BY <1>9, <1>10 DEF Run
      <4>3. RunFine(new, PathOf(Input))
        BY <1>9, <1>10, <1>15, <4>2, StillFine
      <4> QED
        BY <1>15, <3>1, <3>3, <4>1, <4>3
    <3> QED
      BY <3>2, <3>3
  <2>2. \A r : PathTaken(r)' = PathTaken(r)
    BY DEF PathTaken, PathOf
  <2> QED
    BY <2>1, <2>2 DEF RunsFine
<1> QED
  BY <1>17, <1>18, <1>19, <1>20, <1>21 DEF Undisturbed

-----------------------------------------------------------------------------
(* The worker in the calm: it serves every run, and leaves when it has.    *)

\* What a step of the worker under a calm finds.
LEMMA CalmWorker ==
  ASSUME CalmInv, Types, Pays, client' = client, late' = late, worker'.tls => worker.tls, Calm'
  PROVE  Undisturbed /\ faults' = faults /\ worker.tls /\ "worker" \notin late
<1>1. Calm /\ faults' = faults
  BY CalmBefore
<1> QED
  BY <1>1 DEF CalmInv, Calm

\* A step of the worker that leaves the runs and the client alone.
LEMMA WorkerMoves ==
  ASSUME demo' = demo, client' = client, runs' = runs, Undisturbed, WorkerFine', TaskFine',
         workflow.registered => workflow'.registered, workflow'.active => workflow'.registered
  PROVE  Undisturbed'
<1>1. ScriptFine'
  BY DEF Undisturbed, ScriptFine, NoneFailed
<1>2. Approving'
  BY DEF Undisturbed, Approving
<1>3. RunsFine'
  BY DEF Undisturbed, RunsFine, PathTaken, PathOf
<1> QED
  BY <1>1, <1>2, <1>3 DEF Undisturbed

\* A worker that goes elsewhere than out, and holds no task.
LEMMA GoesOn ==
  ASSUME demo' = demo, WorkerFine, ~worker'.missed, worker'.stop = worker.stop,
         worker'.pc \in {"register", "loop", "wf", "act"}
  PROVE  WorkerFine' /\ TaskFine'
<1>1. WorkerFine'
  BY DEF WorkerFine
<1>2. TaskFine'
  BY DEF TaskFine
<1> QED
  BY <1>1, <1>2

Outcomes == Decisions \cup {"Idle", "TransportError"}

\* Three of the worker's fields that no outcome of a tick changes.
SameMarks(w) == w.tls = worker.tls /\ w.stop = worker.stop /\ w.missed = worker.missed

\* Counting an error leaves the worker's marks.
LEMMA CountErrorMarks ==
  ASSUME worker \in Worker, NEW next
  PROVE  SameMarks(CountError(worker, next))
BY DEF CountError, Worker, SameMarks

\* So does the end of a workflow tick.
LEMMA AfterWfMarks ==
  ASSUME worker \in Worker, NEW outcome \in Outcomes
  PROVE  SameMarks(AfterWf(worker, outcome))
<1> DEFINE none == << >>
<1>2. PICK longer : longer = Append(worker.stream, "COMPLETE")
  OBVIOUS
<1>3. PICK more : more = Append(worker.stream, "SCHEDULE")
  OBVIOUS
<1>4. PICK one : one = << longer >>
  OBVIOUS
<1> HIDE DEF none
<1>7. CASE outcome = "Schedule"
  <2>1. AfterWf(worker, outcome)
          = [worker EXCEPT !.errors = 0, !.task = NoTask, !.pc = "act", !.stream = more]
    BY <1>3, <1>7 DEF AfterWf, afterWf, soleAfterWf, Worker
  <2> QED
    BY <2>1 DEF Worker, SameMarks
<1>8. CASE outcome = "Complete" /\ demo.program = "sole"
  <2>1. AfterWf(worker, outcome)
          = [worker EXCEPT !.streams = one, !.stream = none,
                           !.completions = 1, !.task = NoTask, !.pc = "leaving"]
    BY <1>2, <1>4, <1>8 DEF AfterWf, soleAfterWf, none
  <2> QED
    BY <2>1 DEF Worker, SameMarks
<1>9. CASE outcome = "Complete" /\ demo.program # "sole"
  BY <1>9 DEF AfterWf, afterWf, Worker, SameMarks
<1>10. CASE outcome = "Fail"
  BY <1>10 DEF AfterWf, afterWf, soleAfterWf, Worker, SameMarks
<1>11. CASE outcome = "TransportError"
  <2>1. AfterWf(worker, outcome) = CountError(worker, "act")
    BY <1>11 DEF AfterWf, afterWf, soleAfterWf
  <2> QED
    BY <2>1, CountErrorMarks
<1>12. CASE outcome \in {"Idle", "Await", "Wait"}
  BY <1>12 DEF AfterWf, afterWf, soleAfterWf, Worker, SameMarks
<1> QED
  BY <1>7, <1>8, <1>9, <1>10, <1>11, <1>12 DEF Outcomes, Decisions

\* So does the end of an activity tick.
LEMMA AfterActMarks ==
  ASSUME worker \in Worker, NEW result
  PROVE  SameMarks(AfterAct(worker, result))
<1>1. CASE result = "TransportError"
  BY <1>1, CountErrorMarks DEF AfterAct
<1>2. CASE result # "TransportError"
  BY <1>2 DEF AfterAct, Worker, SameMarks
<1> QED
  BY <1>1, <1>2

\* Where the worker goes after a tick that met no error.
LEMMA AfterTickGoes ==
  ASSUME worker \in Worker, NEW result, result # "TransportError"
  PROVE  /\ \A outcome \in {"Idle", "Await", "Wait", "Schedule"} : AfterWf(worker, outcome).pc = "act"
         /\ demo.program # "sole" => AfterWf(worker, "Complete").pc = "loop"
         /\ demo.program = "sole" =>
              AfterWf(worker, "Complete").pc = "leaving" /\ AfterWf(worker, "Complete").completions = 1
         /\ AfterAct(worker, result).pc = "loop"
<1>1. ASSUME NEW outcome \in {"Idle", "Await", "Wait"}
      PROVE  AfterWf(worker, outcome).pc = "act"
  BY <1>1 DEF AfterWf, afterWf, soleAfterWf, Worker
<1>2. AfterWf(worker, "Schedule").pc = "act"
  <2>1. PICK more : more = Append(worker.stream, "SCHEDULE")
    OBVIOUS
  <2>2. AfterWf(worker, "Schedule")
          = [worker EXCEPT !.errors = 0, !.task = NoTask, !.pc = "act", !.stream = more]
    BY <2>1 DEF AfterWf, afterWf, soleAfterWf, Worker
  <2> QED
    BY <2>2 DEF Worker
<1>3. demo.program # "sole" => AfterWf(worker, "Complete").pc = "loop"
  BY DEF AfterWf, afterWf, Worker
<1>4. demo.program = "sole" =>
        AfterWf(worker, "Complete").pc = "leaving" /\ AfterWf(worker, "Complete").completions = 1
  BY DEF AfterWf, soleAfterWf, Worker
<1>5. AfterAct(worker, result).pc = "loop"
  BY DEF AfterAct, Worker
<1> QED
  BY <1>1, <1>2, <1>3, <1>4, <1>5

\* A worker over TLS goes on from the resolution of its endpoint.
LEMMA ResolveCalm ==
  ASSUME IInv, CalmInv, resolveEndpoint, Calm'
  PROVE  Undisturbed'
<1>1. Types /\ worker \in Worker /\ faults \in Nat
  BY Basics DEF IInv
<1>2. /\ demo' = demo /\ client' = client /\ late' = late /\ Pays
      /\ workflow' = workflow /\ runs' = runs
  BY <1>1, ResolveTicks DEF WorkerTicks
<1>3. worker.tls /\ worker.pc = "resolve"
  BY DEF CalmInv, resolveEndpoint
<1>4. Undisturbed /\ faults' = faults
  BY <1>1, <1>2, <1>3, CalmWorker
<1>5. PICK ok, tls \in BOOLEAN :
        /\ whoami(ok, tls)
        /\ worker' = IF ok THEN [worker EXCEPT !.pc = "register", !.tls = tls]
                     ELSE [worker EXCEPT !.pc = "exited", !.rc = 1]
  BY DEF resolveEndpoint
<1>6. PICK refusal \in {0, 401, 404, 409, 422} : refusal = 0
  OBVIOUS
<1>7. PICK http \in Exchange(refusal) : Spend(http) /\ ok = Succeeds(http)
  BY <1>5, <1>6 DEF whoami, get
<1>8. ok
  BY <1>1, <1>4, <1>6, <1>7, CalmExchange
<1>9. worker'.pc = "register" /\ worker'.missed = worker.missed /\ worker'.stop = worker.stop
  BY <1>1, <1>5, <1>8 DEF Worker
<1>10. WorkerFine' /\ TaskFine'
  BY <1>2, <1>4, <1>9, GoesOn DEF Undisturbed, WorkerFine
<1> QED
  BY <1>2, <1>4, <1>10, WorkerMoves DEF Undisturbed, ScriptFine

\* Registering succeeds, and is done before anything is active.
LEMMA RegisterCalm ==
  ASSUME IInv, CalmInv, register, Calm'
  PROVE  Undisturbed'
<1>1. Types /\ worker \in Worker /\ faults \in Nat /\ workflow \in Deployment
  BY Basics DEF IInv
<1>2. demo' = demo /\ client' = client /\ late' = late /\ Pays /\ runs' = runs
  BY <1>1, RegisterTicks DEF WorkerTicks
<1>3. PICK ok \in BOOLEAN :
        /\ registerWorkflow(collectSignals(demo.steps), ok)
        /\ worker' = IF ok THEN [worker EXCEPT !.pc = "loop"]
                     ELSE [worker EXCEPT !.pc = "exited", !.rc = 1]
  BY DEF register
<1>4. worker'.tls = worker.tls
  BY <1>1, <1>3 DEF Worker
<1>5. Undisturbed /\ faults' = faults
  BY <1>1, <1>2, <1>4, CalmWorker
<1>6. PICK refusal \in {0, 401, 404, 409, 422} : refusal = 0
  OBVIOUS
<1>7. PICK signals : signals = collectSignals(demo.steps)
  OBVIOUS
<1>8. PICK http \in Exchange(refusal) :
        /\ Spend(http) /\ ok = Succeeds(http)
        /\ workflow' = IF http.done
                       THEN [workflow EXCEPT !.registered = TRUE, !.archived = FALSE,
                                             !.signals = signals]
                       ELSE workflow
  BY <1>3, <1>6, <1>7 DEF registerWorkflow, post
<1>9. ok /\ http.done
  BY <1>1, <1>5, <1>6, <1>8, CalmExchange
<1>10. workflow'.registered
  BY <1>1, <1>8, <1>9 DEF Deployment
<1>11. worker'.pc = "loop" /\ worker'.missed = worker.missed /\ worker'.stop = worker.stop
  BY <1>1, <1>3, <1>9 DEF Worker
<1>12. WorkerFine' /\ TaskFine'
  BY <1>2, <1>5, <1>11, GoesOn DEF Undisturbed, WorkerFine
<1> QED
  BY <1>2, <1>5, <1>10, <1>12, WorkerMoves

\* A round ends only when every completion has been served.
LEMMA RoundStartsCalm ==
  ASSUME IInv, CalmInv, roundStarts, Calm'
  PROVE  Undisturbed'
<1>1. Types /\ worker \in Worker
  BY Basics DEF IInv
<1>2. /\ demo' = demo /\ client' = client /\ late' = late /\ Pays
      /\ workflow' = workflow /\ runs' = runs
  BY <1>1, RoundStartsTicks DEF WorkerTicks
<1>3. PICK pc \in {"leaving", "wf"} :
        /\ worker' = [worker EXCEPT !.pc = pc]
        /\ pc = "leaving" => \/ worker.stop \/ "worker" \in late
                             \/ worker.completions >= demo.max_completions
  BY DEF roundStarts
<1>4. /\ worker'.pc = pc /\ worker'.missed = worker.missed /\ worker'.stop = worker.stop
      /\ worker'.tls = worker.tls /\ worker'.completions = worker.completions
  BY <1>1, <1>3 DEF Worker
<1>5. Undisturbed /\ "worker" \notin late
  BY <1>1, <1>2, <1>4, CalmWorker
<1>6. pc = "leaving" => worker.completions >= demo.max_completions
  BY <1>3, <1>5 DEF Undisturbed, WorkerFine
<1>7. WorkerFine' /\ TaskFine'
  BY <1>2, <1>3, <1>4, <1>5, <1>6 DEF Undisturbed, WorkerFine, TaskFine
<1> QED
  BY <1>2, <1>5, <1>7, WorkerMoves DEF Undisturbed, ScriptFine

\* A poll in the calm is never disturbed.
LEMMA PollIsCalm ==
  ASSUME faults \in Nat, faults' = faults, worker.tls, NEW c \in call(TRUE), Charge(c)
  PROVE  c.grpc_status = "OK"
<1>1. PICK accepted \in BOOLEAN : accepted = TRUE
  OBVIOUS
<1> QED
  BY <1>1, CalmCall

\* An activity poll hands out an activity that is in flight, or nothing.
LEMMA ActPollCalm ==
  ASSUME IInv, CalmInv, actPoll, Calm'
  PROVE  Undisturbed'
<1>1. Types /\ worker \in Worker /\ faults \in Nat /\ runs \in Seq(Run)
  BY Basics DEF IInv
<1>2. /\ demo' = demo /\ client' = client /\ late' = late /\ Pays
      /\ workflow' = workflow /\ runs' = runs
  BY <1>1, ActPollTicks DEF WorkerTicks
<1>3. worker'.tls = worker.tls /\ worker'.missed = worker.missed /\ worker'.stop = worker.stop
  <2>1. ASSUME NEW result, worker' = AfterAct(worker, result)
        PROVE  SameMarks(worker')
    BY <1>1, <2>1, AfterActMarks
  <2>2. ASSUME NEW task, worker' = [worker EXCEPT !.pc = "invoke", !.task = task]
        PROVE  SameMarks(worker')
    BY <1>1, <2>2 DEF Worker, SameMarks
  <2> QED
    BY <2>1, <2>2 DEF actPoll, SameMarks
<1>4. Undisturbed /\ faults' = faults /\ worker.tls
  BY <1>1, <1>2, <1>3, CalmWorker
<1>5. CASE \E r \in DOMAIN runs :
             /\ runs[r].act /\ ~isTerminal(runs[r].status)
             /\ worker' = [worker EXCEPT !.pc = "invoke", !.task = [id |-> r, seen |-> runs[r]]]
  <2>1. PICK r \in DOMAIN runs :
          /\ runs[r].act /\ ~isTerminal(runs[r].status)
          /\ worker' = [worker EXCEPT !.pc = "invoke", !.task = [id |-> r, seen |-> runs[r]]]
    BY <1>5
  <2>2. worker'.pc = "invoke" /\ worker'.task.id = r
    BY <1>1, <2>1 DEF Worker
  <2>3. runs[r].status = "RUNNING"
    BY <1>4, <2>1 DEF Undisturbed, RunsFine, RunFine, CommandsFit, isTerminal, kTerminal
  <2>4. WorkerFine'
    BY <1>3, <1>4, <2>2 DEF Undisturbed, WorkerFine
  <2>5. TaskFine'
    BY <1>2, <2>1, <2>2, <2>3 DEF TaskFine
  <2> QED
    BY <1>2, <1>4, <2>4, <2>5, WorkerMoves DEF Undisturbed, ScriptFine
<1>6. CASE worker' = AfterAct(worker, "Idle")
  <2>1. worker'.pc = "loop"
    BY <1>1, <1>6, AfterTickGoes
  <2>2. WorkerFine' /\ TaskFine'
    BY <1>2, <1>3, <1>4, <2>1, GoesOn DEF Undisturbed, WorkerFine
  <2> QED
    BY <1>2, <1>4, <2>2, WorkerMoves DEF Undisturbed, ScriptFine
<1>7. ASSUME NEW c \in call(TRUE), c.grpc_status # "OK", Charge(c)
      PROVE  FALSE
  BY <1>1, <1>4, <1>7, PollIsCalm
<1> QED
  BY <1>5, <1>6, <1>7 DEF actPoll

\* A handler that needs no model succeeds.
LEMMA InvokeCalm ==
  ASSUME IInv, CalmInv, invoke, Calm'
  PROVE  Undisturbed'
<1>1. Types /\ worker \in Worker
  BY Basics DEF IInv
<1>2. /\ demo' = demo /\ client' = client /\ late' = late /\ Pays
      /\ workflow' = workflow /\ runs' = runs /\ worker.pc = "invoke"
  BY <1>1, InvokeTicks DEF WorkerTicks, invoke
<1>3. \/ worker' = [worker EXCEPT !.pc = "actAnswer", !.result = "success"]
      \/ worker' = [worker EXCEPT !.pc = "chat", !.attempt = 0]
  BY DEF invoke
<1>4. /\ SameMarks(worker') /\ worker'.task = worker.task
      /\ worker'.pc = "chat" \/ (worker'.pc = "actAnswer" /\ worker'.result = "success")
  BY <1>1, <1>3 DEF Worker, SameMarks
<1>5. Undisturbed
  BY <1>1, <1>2, <1>4, CalmWorker DEF SameMarks
<1>6. WorkerFine'
  BY <1>4, <1>5 DEF Undisturbed, WorkerFine, SameMarks
<1>7. TaskFine'
  BY <1>2, <1>4, <1>5 DEF Undisturbed, TaskFine
<1> QED
  BY <1>2, <1>5, <1>6, <1>7, WorkerMoves DEF Undisturbed, ScriptFine

\* The model answers, as no call of it is disturbed.
LEMMA ChatCalm ==
  ASSUME IInv, CalmInv, mistralChat, Calm'
  PROVE  Undisturbed'
<1>1. Types /\ worker \in Worker /\ faults \in Nat
  BY Basics DEF IInv
<1>2. /\ demo' = demo /\ client' = client /\ late' = late /\ Pays
      /\ workflow' = workflow /\ runs' = runs /\ worker.pc = "chat"
  BY <1>1, ChatTicks DEF WorkerTicks, mistralChat
<1>3. PICK http :
        /\ faults' = IF Succeeds(http) THEN faults ELSE faults - 1
        /\ worker' = IF Succeeds(http)
                     THEN [worker EXCEPT !.pc = "actAnswer", !.result = "success"]
                     ELSE IF Disturbed(http) /\ worker.attempt + 1 < ChatAttempts
                     THEN [worker EXCEPT !.attempt = @ + 1]
                     ELSE [worker EXCEPT !.pc = "actAnswer", !.result = "failure"]
  BY DEF mistralChat
<1>4. worker'.tls = worker.tls
  BY <1>1, <1>3 DEF Worker
<1>5. Undisturbed /\ faults' = faults
  BY <1>1, <1>2, <1>4, CalmWorker
<1>6. worker' = [worker EXCEPT !.pc = "actAnswer", !.result = "success"]
  BY <1>1, <1>3, <1>5
<1>7. /\ SameMarks(worker') /\ worker'.task = worker.task
      /\ worker'.pc = "actAnswer" /\ worker'.result = "success"
  BY <1>1, <1>6 DEF Worker, SameMarks
<1>8. WorkerFine'
  BY <1>5, <1>7 DEF Undisturbed, WorkerFine, SameMarks
<1>9. TaskFine'
  BY <1>2, <1>5, <1>7 DEF Undisturbed, TaskFine
<1> QED
  BY <1>2, <1>5, <1>8, <1>9, WorkerMoves DEF Undisturbed, ScriptFine

\* A worker that leaves has served every completion, and leaves with success.
LEMMA LeaveCalm ==
  ASSUME IInv, CalmInv, leave, Calm'
  PROVE  Undisturbed'
<1>1. Types /\ worker \in Worker
  BY Basics DEF IInv
<1>2. /\ demo' = demo /\ client' = client /\ late' = late /\ Pays
      /\ workflow' = workflow /\ runs' = runs /\ worker.pc = "leaving"
  BY <1>1, LeaveTicks DEF WorkerTicks, leave
<1>3. PICK rc \in {0, 1} : /\ worker' = [worker EXCEPT !.pc = "exited", !.rc = rc]
                           /\ rc = 0 \/ ~(worker.completions >= demo.max_completions)
  BY DEF leave
<1>4. /\ SameMarks(worker') /\ worker'.completions = worker.completions
      /\ worker'.pc = "exited" /\ worker'.rc = rc
  BY <1>1, <1>3 DEF Worker, SameMarks
<1>5. Undisturbed
  BY <1>1, <1>2, <1>4, CalmWorker DEF SameMarks
<1>6. WorkerFine' /\ TaskFine'
  BY <1>2, <1>3, <1>4, <1>5 DEF Undisturbed, WorkerFine, SameMarks, TaskFine
<1> QED
  BY <1>2, <1>5, <1>6, WorkerMoves DEF Undisturbed, ScriptFine

\* A step of the worker that changes one run, and leaves its signals alone.
LEMMA RunChanges ==
  ASSUME Types, Undisturbed, demo' = demo, client' = client, workflow' = workflow,
         NEW id \in DOMAIN runs, NEW new, runs' = [runs EXCEPT ![id] = new],
         new.input = runs[id].input, new.inbox = runs[id].inbox, RunFine(new, PathTaken(id)),
         WorkerFine', TaskFine'
  PROVE  Undisturbed'
<1>1. DOMAIN runs' = DOMAIN runs /\ \A r \in DOMAIN runs : runs'[r] = IF r = id THEN new ELSE runs[r]
  BY Basics
<1>2. ScriptFine'
  BY DEF Undisturbed, ScriptFine, NoneFailed
<1>3. Approving'
  <2>1. client.pc \in {"observe", "signal"} => client.id \in DOMAIN runs
    BY Basics DEF ClientFits, Script1, Watching
  <2>2. client.pc \in {"observe", "signal"} => runs'[client.id].inbox = runs[client.id].inbox
    BY <1>1, <2>1
  <2> QED
    BY <2>2 DEF Undisturbed, Approving
<1>4. RunsFine'
  <2>1. \A r \in DOMAIN runs : /\ runs'[r].input = demo.clients[r].input
                               /\ RunFine(runs'[r], PathTaken(r))
    BY <1>1 DEF Undisturbed, RunsFine
  <2>2. \A r : PathTaken(r)' = PathTaken(r)
    BY DEF PathTaken, PathOf
  <2> QED
    BY <1>1, <2>1, <2>2 DEF RunsFine
<1> QED
  BY <1>2, <1>3, <1>4 DEF Undisturbed

\* A run in the list, and the client whose run it is.
LEMMA RunAt ==
  ASSUME IInv, Undisturbed, NEW r \in DOMAIN runs
  PROVE  /\ runs[r] \in Run /\ runs[r].done \in Nat
         /\ runs[r].input = demo.clients[r].input /\ PathTaken(r) = PathOf(runs[r].input)
         /\ RunFine(runs[r], PathTaken(r)) /\ WellPath(PathTaken(r))
<1>1. Types /\ Len(runs) <= client.k
  BY DEF IInv, OneRunEach
<1>2. r \in 1 .. Len(runs) /\ Len(runs) \in Nat /\ runs[r] \in Run
  BY <1>1, ElementOfSeq, Basics
<1>3. r \in 1 .. Len(demo.clients) /\ demo \in Demos
  BY <1>1, <1>2, ClientIs DEF Types
<1>4. runs[r].input = demo.clients[r].input /\ RunFine(runs[r], PathTaken(r))
  BY DEF Undisturbed, RunsFine
<1> QED
  BY <1>2, <1>3, <1>4, PathIsWell DEF Run, PathTaken

\* A workflow poll hands out the run as it is, with no news left.
LEMMA WfPollCalm ==
  ASSUME IInv, CalmInv, wfPoll, Calm'
  PROVE  Undisturbed'
<1>1. Types /\ worker \in Worker /\ faults \in Nat /\ runs \in Seq(Run)
  BY Basics DEF IInv
<1>2. demo' = demo /\ client' = client /\ late' = late /\ Pays /\ workflow' = workflow
  BY <1>1, WfPollTicks DEF WorkerTicks
<1>3. SameMarks(worker')
  <2>1. ASSUME NEW outcome \in Outcomes, worker' = AfterWf(worker, outcome)
        PROVE  SameMarks(worker')
    BY <1>1, <2>1, AfterWfMarks
  <2>2. ASSUME NEW task, worker' = [worker EXCEPT !.pc = "wfAnswer", !.task = task]
        PROVE  SameMarks(worker')
    BY <1>1, <2>2 DEF Worker, SameMarks
  <2> QED
    BY <2>1, <2>2 DEF wfPoll, Outcomes
<1>4. Undisturbed /\ faults' = faults /\ worker.tls
  BY <1>1, <1>2, <1>3, CalmWorker DEF SameMarks
<1>5. CASE \E r \in DOMAIN runs :
             /\ runs[r].wft /\ ~isTerminal(runs[r].status)
             /\ runs' = [runs EXCEPT ![r].news = FALSE]
             /\ worker' = [worker EXCEPT !.pc = "wfAnswer", !.task = [id |-> r, seen |-> runs'[r]]]
  <2>1. PICK r \in DOMAIN runs :
          /\ runs[r].wft /\ ~isTerminal(runs[r].status)
          /\ runs' = [runs EXCEPT ![r].news = FALSE]
          /\ worker' = [worker EXCEPT !.pc = "wfAnswer", !.task = [id |-> r, seen |-> runs'[r]]]
    BY <1>5
  <2>2. PICK new : new = [runs[r] EXCEPT !.news = FALSE]
    OBVIOUS
  <2>3. runs' = [runs EXCEPT ![r] = new]
    BY <2>1, <2>2
  <2>4. runs'[r] = new
    BY <1>1, <2>3
  <2>5. runs[r] \in Run /\ runs[r].done \in Nat /\ RunFine(runs[r], PathTaken(r))
        /\ WellPath(PathTaken(r))
    BY <1>4, RunAt
  <2>6. /\ new.status = runs[r].status /\ new.commands = runs[r].commands
        /\ new.done = runs[r].done /\ new.act = runs[r].act /\ new.failed = runs[r].failed
        /\ new.lost = runs[r].lost /\ new.inbox = runs[r].inbox /\ new.input = runs[r].input
        /\ new.wft = runs[r].wft /\ ~new.news
    BY <2>2, <2>5 DEF Run
  <2>7. RunFine(new, PathTaken(r))
    BY <2>5, <2>6, StillFine
  <2>8. new.status = "RUNNING"
    BY <2>1, <2>5, <2>6 DEF RunFine, CommandsFit, isTerminal, kTerminal
  <2>9. worker'.pc = "wfAnswer" /\ worker'.task.id = r /\ worker'.task.seen = new
    BY <1>1, <2>1, <2>4 DEF Worker
  <2>10. WorkerFine'
    BY <1>3, <1>4, <2>9 DEF Undisturbed, WorkerFine, SameMarks
  <2>11. TaskFine'
    <3>1. PolledFine(new, new, demo.clients[r])
      BY <2>1, <2>6, <2>7, <2>8 DEF PolledFine, Follows, PathTaken
    <3>2. PolledFine(runs[worker.task.id], worker.task.seen, demo.clients[worker.task.id])'
      BY <1>2, <2>4, <2>9, <3>1 DEF PolledFine, PathOf
    <3> QED
      BY <2>9, <3>2 DEF TaskFine
  <2> QED
    BY <1>1, <1>2, <1>4, <2>3, <2>6, <2>7, <2>10, <2>11, RunChanges
<1>6. CASE worker' = AfterWf(worker, "Idle") /\ UNCHANGED runs
  <2>1. PICK outcome : outcome = "Idle"
    OBVIOUS
  <2>2. worker'.pc = "act"
    BY <1>1, <1>6, <2>1, AfterTickGoes
  <2>3. WorkerFine' /\ TaskFine'
    BY <1>2, <1>3, <1>4, <2>2, GoesOn DEF Undisturbed, WorkerFine, SameMarks
  <2> QED
    BY <1>2, <1>4, <1>6, <2>3, WorkerMoves DEF Undisturbed, ScriptFine
<1>7. ASSUME NEW c \in call(TRUE), c.grpc_status # "OK", Charge(c)
      PROVE  FALSE
  BY <1>1, <1>4, <1>7, PollIsCalm
<1> QED
  BY <1>5, <1>6, <1>7 DEF wfPoll

\* The result of an activity is recorded in the run it belongs to.
LEMMA ActAnswerCalm ==
  ASSUME IInv, CalmInv, actAnswer, Calm'
  PROVE  Undisturbed'
<1>1. Types /\ worker \in Worker /\ faults \in Nat /\ runs \in Seq(Run)
  BY Basics DEF IInv
<1>2. /\ demo' = demo /\ client' = client /\ late' = late /\ Pays /\ workflow' = workflow
      /\ worker.pc = "actAnswer"
  BY <1>1, ActAnswerTicks DEF WorkerTicks, actAnswer
<1>3. PICK id \in DOMAIN runs : id = worker.task.id
  BY <1>1, <1>2, Basics DEF WorkerFits, Worker, Task, NoTask, AtWork
<1>4. PICK c \in call(~isTerminal(runs[id].status) /\ runs[id].act), again \in BOOLEAN :
        /\ Charge(c)
        /\ again => worker.result = "failure"
        /\ runs' = IF ~c.done \/ again THEN runs ELSE
                     [runs EXCEPT ![id].act = FALSE, ![id].wft = TRUE, ![id].news = TRUE,
                                  ![id].done = IF worker.result = "success" THEN @ + 1 ELSE @,
                                  ![id].failed = worker.result = "failure"]
        /\ worker' = AfterAct(worker, IF c.grpc_status = "OK" THEN worker.result
                                      ELSE "TransportError")
  BY <1>3 DEF actAnswer
<1>5. SameMarks(worker')
  BY <1>1, <1>4, AfterActMarks
<1>6. Undisturbed /\ faults' = faults /\ worker.tls
  BY <1>1, <1>2, <1>5, CalmWorker DEF SameMarks
<1>7. runs[id].act /\ runs[id].status = "RUNNING" /\ worker.result = "success"
  BY <1>2, <1>3, <1>6 DEF Undisturbed, TaskFine, WorkerFine
<1>8. PICK accepted \in BOOLEAN : accepted = TRUE
  OBVIOUS
<1>9. c \in call(accepted)
  <2>1. ~isTerminal(runs[id].status)
    BY <1>7 DEF isTerminal, kTerminal
  <2>2. (~isTerminal(runs[id].status) /\ runs[id].act) = accepted
    BY <1>7, <1>8, <2>1, Zenon
  <2> QED
    BY <1>4, <2>2
<1>10. c.done /\ c.grpc_status = "OK"
  BY <1>1, <1>4, <1>6, <1>8, <1>9, CalmCall
<1>11. PICK new : new = Recorded(runs[id], "success")
  OBVIOUS
<1>12. runs[id] \in Run /\ RunFine(runs[id], PathTaken(id)) /\ WellPath(PathTaken(id))
  BY <1>6, RunAt
<1>13. runs' = [runs EXCEPT ![id] = new]
  <2>1. ~again
    BY <1>4, <1>7
  <2>2. runs' = [runs EXCEPT ![id].act = FALSE, ![id].wft = TRUE, ![id].news = TRUE,
                             ![id].done = IF worker.result = "success" THEN @ + 1 ELSE @,
                             ![id].failed = worker.result = "failure"]
    BY <1>4, <1>10, <2>1
  <2> QED
    BY <1>7, <1>11, <2>2 DEF Recorded
<1>14. new.input = runs[id].input /\ new.inbox = runs[id].inbox
  BY <1>11, <1>12, RecordedRun
<1>15. RunFine(new, PathTaken(id))
  BY <1>7, <1>11, <1>12, RecordedFine
<1>16. worker'.pc = "loop"
  BY <1>1, <1>4, <1>7, <1>10, AfterTickGoes
<1>17. WorkerFine' /\ TaskFine'
  BY <1>2, <1>5, <1>6, <1>16, GoesOn DEF Undisturbed, WorkerFine, SameMarks
<1> QED
  BY <1>1, <1>2, <1>6, <1>13, <1>14, <1>15, <1>17, RunChanges

\* What the worker decides on a poll that the run still follows.
LEMMA DecidesWell ==
  ASSUME demo \in Demos, NEW run \in Run, NEW seen \in Run, Follows(run, seen),
         NEW path, path = PathOf(run.input), WellPath(path),
         RunFine(run, path), RunFine(seen, path), run.status = "RUNNING",
         NEW decision, decision = decide(seen)
  PROVE  decision # "Fail" /\ RunFine(Answered(run, decision), path)
<1>1. decision \in Decisions
  BY DecisionIs
<1>2. decision # "Fail"
  BY DEF decide, RunFine
<1>3. CASE decision = "Schedule"
  BY <1>3, ScheduledFine
<1>4. CASE decision = "Complete"
  BY <1>4, CompletedFine
<1>5. CASE decision \in {"Await", "Wait"}
  <2>1. PICK new : new = Answered(run, decision)
    OBVIOUS
  <2>2. /\ new.inbox = run.inbox /\ new.failed = run.failed /\ new.lost = run.lost
        /\ new.done = run.done /\ new.act = run.act
        /\ new.status = run.status /\ new.commands = run.commands
    <3>1. new.inbox = run.inbox /\ new.failed = run.failed /\ new.lost = run.lost
      BY <1>1, <2>1, AnsweredFields
    <3>2. new.done = run.done /\ new.act = run.act
      BY <1>1, <1>5, <2>1, AnsweredFields
    <3>3. StatusAfter(run, decision) = run.status /\ Longer(run.commands, decision) = run.commands
      BY <1>5 DEF StatusAfter, Longer
    <3>4. new.status = run.status /\ new.commands = run.commands
      BY <1>1, <2>1, <3>3, AnsweredRun
    <3> QED  BY <3>1, <3>2, <3>4
  <2>3. RunFine(new, path)
    BY <2>2, StillFine DEF Run
  <2> QED
    BY <1>5, <2>1, <2>3
<1> QED
  BY <1>1, <1>2, <1>3, <1>4, <1>5 DEF Decisions

\* A closing answer is not refused: the run waits for no approval any more.
LEMMA AnswerIsAcceptable ==
  ASSUME IInv, Undisturbed, NEW id \in DOMAIN runs, NEW seen \in Run,
         PolledFine(runs[id], seen, demo.clients[id]),
         NEW decision, decision = decide(seen)
  PROVE  Acceptable(runs[id], decision)
<1>1. /\ Follows(runs[id], seen) /\ runs[id].status = "RUNNING" /\ runs[id].wft
      /\ RunFine(seen, PathTaken(id))
      /\ runs[id].news => demo.clients[id].mode = "hitl" /\ demo.clients[id].signal \notin seen.inbox
  BY DEF PolledFine, PathTaken
<1>2. decision # "Fail"
  BY <1>1 DEF decide, RunFine
<1>3. PathTaken(id) = PathOf(seen.input) /\ WellPath(PathTaken(id))
  BY <1>1, RunAt DEF Follows
<1>4. decision = "Complete" => ~runs[id].news
  <2>1. SUFFICES ASSUME decision = "Complete", runs[id].news
                 PROVE  FALSE
    OBVIOUS
  <2>2. Signalled(seen, PathTaken(id), Len(PathTaken(id)))
    BY <1>1, <1>3, <2>1, NothingOpen DEF IInv, Types
  <2>3. id \in DOMAIN demo.clients /\ demo \in Demos
    BY Basics, ClientIs, DemoFits DEF IInv, Types, OneRunEach
  <2>4. \E s \in StepsOf(PathTaken(id)) :
          s.kind = "wait_signal" /\ s.signal = demo.clients[id].signal
    BY <1>1, <2>1, <2>3, ScriptsAssumption DEF PathTaken, PathOf
  <2> QED
    BY <1>1, <1>3, <2>1, <2>2, <2>4 DEF Signalled, StepsOf, WellPath
<1>5. ~isTerminal(runs[id].status)
  BY <1>1 DEF isTerminal, kTerminal
<1> QED
  BY <1>1, <1>2, <1>4, <1>5 DEF Acceptable

\* The answer of a workflow tick moves its run along the path, or is refused
\* for an approval it has not seen.
LEMMA WfAnswerCalm ==
  ASSUME IInv, CalmInv, wfAnswer, Calm'
  PROVE  Undisturbed'
<1>1. Types /\ worker \in Worker /\ faults \in Nat /\ runs \in Seq(Run) /\ demo \in Demos
  BY Basics DEF IInv, Types
<1>2. SoleStart
  BY DEF IInv, Counted, SoleStart
<1>3. /\ demo' = demo /\ client' = client /\ late' = late /\ Pays /\ workflow' = workflow
      /\ worker.pc = "wfAnswer"
  BY <1>1, <1>2, WfAnswerAnswers DEF WorkerAnswers
<1>4. PICK id \in DOMAIN runs : id = worker.task.id
  BY <1>1, <1>3, Basics DEF WorkerFits, Worker, Task, NoTask, AtWork
<1>5. PICK seen \in Run : seen = worker.task.seen
  BY <1>1, <1>3, Basics DEF WorkerFits, Worker, Task, AtWork
<1>6. PICK decision \in Decisions : decision = decide(seen)
  BY DecisionIs
<1>7. PICK accepted \in BOOLEAN : accepted = Acceptable(runs[id], decision)
  BY Zenon DEF Acceptable
<1>8. PICK c \in call(accepted) :
        /\ Charge(c)
        /\ runs' = IF c.done THEN [runs EXCEPT ![id] = Answered(runs[id], decision)] ELSE runs
        /\ worker' = [AfterWf(worker, IF c.grpc_status = "OK" THEN decision ELSE "TransportError")
                      EXCEPT !.missed = @ \/ (c.done /\ c.grpc_status # "OK")]
  BY <1>4, <1>5, <1>6, <1>7 DEF wfAnswer
<1>9. PICK outcome \in Outcomes :
        outcome = IF c.grpc_status = "OK" THEN decision ELSE "TransportError"
  BY DEF Outcomes
<1>10. PICK v : v = AfterWf(worker, outcome)
  OBVIOUS
<1>11. PICK missed : missed = (v.missed \/ (c.done /\ c.grpc_status # "OK"))
  OBVIOUS
<1>12. worker' = [v EXCEPT !.missed = missed]
  BY <1>8, <1>9, <1>10, <1>11
<1>13. SameMarks(v)
  BY <1>1, <1>10, AfterWfMarks
<1>14. v \in Worker
  <2>1. CASE c.grpc_status = "OK"
    BY <1>1, <1>2, <1>3, <1>9, <1>10, <2>1, AfterWfFits DEF WorkerFits
  <2>2. CASE c.grpc_status # "OK"
    BY <1>1, <1>3, <1>9, <1>10, <2>2, AfterWfRests, Basics DEF WorkerFits
  <2> QED
    BY <2>1, <2>2
<1>15. /\ worker'.tls = v.tls /\ worker'.stop = v.stop /\ worker'.pc = v.pc
       /\ worker'.completions = v.completions /\ worker'.missed = missed
  BY <1>12, <1>14 DEF Worker
<1>16. Undisturbed /\ faults' = faults /\ worker.tls
  BY <1>1, <1>3, <1>13, <1>15, CalmWorker DEF SameMarks
<1>17. PolledFine(runs[id], seen, demo.clients[id])
  BY <1>3, <1>4, <1>5, <1>16 DEF Undisturbed, TaskFine
<1>18. accepted
  BY <1>6, <1>7, <1>16, <1>17, AnswerIsAcceptable
<1>19. c.done /\ c.grpc_status = "OK" /\ outcome = decision
  BY <1>1, <1>8, <1>9, <1>16, <1>18, CalmCall
<1>20. PICK new : new = Answered(runs[id], decision)
  OBVIOUS
<1>21. /\ runs[id] \in Run /\ RunFine(runs[id], PathTaken(id)) /\ WellPath(PathTaken(id))
       /\ PathTaken(id) = PathOf(runs[id].input)
  BY <1>16, RunAt
<1>22. runs' = [runs EXCEPT ![id] = new]
  BY <1>8, <1>19, <1>20
<1>23. new.input = runs[id].input /\ new.inbox = runs[id].inbox
  BY <1>1, <1>20, <1>21, AnsweredFields
<1>24. decision # "Fail" /\ RunFine(new, PathTaken(id))
  BY <1>1, <1>6, <1>17, <1>20, <1>21, DecidesWell DEF PolledFine, PathTaken
<1>25. ~worker'.missed
  <2>1. ~v.missed
    BY <1>13, <1>16 DEF SameMarks, Undisturbed, WorkerFine
  <2> QED
    BY <1>11, <1>15, <1>19, <2>1
<1>26. ~worker'.stop /\ worker'.stop = worker.stop
  BY <1>13, <1>15, <1>16 DEF SameMarks, Undisturbed, WorkerFine
<1>27. WorkerFine' /\ TaskFine'
  <2>1. CASE decision = "Complete" /\ demo.program = "sole"
    <3>1. v.pc = "leaving" /\ v.completions = 1
      BY <1>1, <1>10, <1>19, <2>1, AfterTickGoes
    <3>2. demo.max_completions = 1
      BY <1>1, <2>1, DemoFits
    <3> QED
      BY <1>3, <1>15, <1>25, <1>26, <3>1, <3>2 DEF WorkerFine, TaskFine
  <2>2. CASE decision = "Complete" /\ demo.program # "sole"
    <3>1. v.pc = "loop"
      BY <1>1, <1>10, <1>19, <2>2, AfterTickGoes
    <3> QED
      BY <1>3, <1>15, <1>16, <1>25, <1>26, <3>1, GoesOn DEF Undisturbed
  <2>3. CASE decision \in {"Await", "Wait", "Schedule"}
    <3>1. v.pc = "act"
      BY <1>1, <1>10, <1>19, <2>3, AfterTickGoes
    <3> QED
      BY <1>3, <1>15, <1>16, <1>25, <1>26, <3>1, GoesOn DEF Undisturbed
  <2> QED
    BY <1>24, <2>1, <2>2, <2>3 DEF Decisions
<1> QED
  BY <1>1, <1>3, <1>16, <1>22, <1>23, <1>24, <1>27, RunChanges

-----------------------------------------------------------------------------
(* Every step keeps the calm as it should be.                              *)

\* Whether the channel may carry credentials is settled once.
LEMMA AfterTickLeaves ==
  ASSUME worker \in Worker, NEW outcome \in Outcomes, NEW result
  PROVE  AfterWf(worker, outcome).pc # "resolve" /\ AfterAct(worker, result).pc # "resolve"
<1>1. \A next \in {"act", "loop"} : CountError(worker, next).pc # "resolve"
  BY DEF CountError, Worker
<1>2. AfterAct(worker, result).pc # "resolve"
  BY <1>1 DEF AfterAct, Worker
<1>3. CASE outcome \in {"Idle", "Await", "Wait", "Schedule"}
  <2>1. PICK other : other # "TransportError"
    <3>1. "Idle" # "TransportError"
      OBVIOUS
    <3> QED
      BY <3>1
  <2>2. AfterWf(worker, outcome).pc = "act"
    BY <1>3, <2>1, AfterTickGoes
  <2> QED
    BY <1>2, <2>2
<1>4. CASE outcome = "Complete"
  <2>1. PICK other : other # "TransportError"
    <3>1. "Idle" # "TransportError"
      OBVIOUS
    <3> QED
      BY <3>1
  <2>2. AfterWf(worker, "Complete").pc \in {"loop", "leaving"}
    BY <2>1, AfterTickGoes
  <2> QED
    BY <1>2, <1>4, <2>2
<1>5. CASE outcome = "Fail"
  <2>1. AfterWf(worker, outcome).pc = "leaving"
    BY <1>5 DEF AfterWf, afterWf, soleAfterWf, Worker
  <2> QED
    BY <1>2, <2>1
<1>6. CASE outcome = "TransportError"
  <2>1. AfterWf(worker, outcome) = CountError(worker, "act")
    BY <1>6 DEF AfterWf, afterWf, soleAfterWf
  <2> QED
    BY <1>1, <1>2, <2>1
<1> QED
  BY <1>3, <1>4, <1>5, <1>6 DEF Outcomes, Decisions

\* No round of the worker returns to the resolution of the endpoint.
LEMMA ResolvesOnce ==
  ASSUME IInv, BothLoops
  PROVE  worker'.pc # "resolve"
<1>1. Types /\ worker \in Worker /\ runs \in Seq(Run)
  BY Basics DEF IInv
<1>2. CASE resolveEndpoint
  BY <1>1, <1>2 DEF resolveEndpoint, Worker
<1>3. CASE register
  BY <1>1, <1>3 DEF register, Worker
<1>4. CASE roundStarts \/ leave
  BY <1>1, <1>4 DEF roundStarts, leave, Worker
<1>5. ASSUME NEW outcome \in Outcomes, worker' = AfterWf(worker, outcome)
      PROVE  worker'.pc # "resolve"
  BY <1>1, <1>5, AfterTickLeaves
<1>6. ASSUME NEW result, worker' = AfterAct(worker, result)
      PROVE  worker'.pc # "resolve"
  <2>1. PICK outcome \in Outcomes : TRUE
    BY DEF Outcomes
  <2> QED
    BY <1>1, <1>6, <2>1, AfterTickLeaves
<1>7. ASSUME NEW task, NEW pc \in {"wfAnswer", "invoke"},
             worker' = [worker EXCEPT !.pc = pc, !.task = task]
      PROVE  worker'.pc # "resolve"
  BY <1>1, <1>7 DEF Worker
<1>8. CASE wfPoll
  BY <1>5, <1>7, <1>8 DEF wfPoll, Outcomes
<1>9. CASE actPoll
  BY <1>6, <1>7, <1>9 DEF actPoll
<1>10. CASE invoke
  BY <1>1, <1>10 DEF invoke, Worker
<1>11. CASE mistralChat
  BY <1>1, <1>11 DEF mistralChat, Worker
<1>12. CASE actAnswer
  <2>1. \E result : worker' = AfterAct(worker, result)
    BY <1>12 DEF actAnswer
  <2> QED
    BY <1>6, <2>1
<1>13. CASE wfAnswer
  <2>1. PICK outcome \in Outcomes :
          \E missed : worker' = [AfterWf(worker, outcome) EXCEPT !.missed = missed]
    BY <1>13, DecisionIs DEF wfAnswer, Outcomes
  <2>2. SoleStart /\ worker.pc = "wfAnswer" /\ WorkerFits(worker, Len(runs))
    BY <1>1, <1>13, Basics DEF IInv, Counted, SoleStart, wfAnswer
  <2>3. AfterWf(worker, outcome) \in Worker
    <3>1. CASE outcome \in Decisions
      BY <1>1, <2>2, <3>1, AfterWfFits DEF WorkerFits
    <3>2. CASE outcome \notin Decisions
      BY <1>1, <2>2, <3>2, AfterWfRests DEF WorkerFits, Outcomes
    <3> QED
      BY <3>1, <3>2
  <2>4. worker'.pc = AfterWf(worker, outcome).pc
    BY <2>1, <2>3 DEF Worker
  <2> QED
    BY <1>1, <2>4, AfterTickLeaves
<1> QED
  BY <1>2, <1>3, <1>4, <1>8, <1>9, <1>10, <1>11, <1>12, <1>13 DEF BothLoops

\* What service and time do without spending a fault or a budget keeps the
\* calm.
LEMMA ServiceCalm ==
  ASSUME IInv, CalmInv, Calm',
         Activate \/ Lapse \/ ActivityTimesOut \/ (\E who \in {"worker", "client"} : Expire(who))
           \/ UNCHANGED vars
  PROVE  Undisturbed'
<1>1. Types /\ workflow \in Deployment /\ faults \in Nat
  BY Basics DEF IInv
<1>2. demo' = demo /\ worker' = worker /\ client' = client
  BY DEF Activate, Lapse, ActivityTimesOut, Expire, vars
<1>3. Pays /\ ("worker" \in late => "worker" \in late')
  <2>1. CASE ActivityTimesOut
    <3>1. faults > 0 /\ faults' = faults - 1 /\ late' = late
      BY <2>1 DEF ActivityTimesOut
    <3> QED
      BY <1>1, <3>1 DEF Pays
  <2>2. CASE Activate \/ Lapse \/ (\E who \in {"worker", "client"} : Expire(who)) \/ UNCHANGED vars
    BY <1>1, <2>2 DEF Activate, Lapse, Expire, vars, controlVars, Pays
  <2> QED
    BY <2>1, <2>2
<1>4. Undisturbed /\ faults' = faults
  BY <1>1, <1>2, <1>3, CalmScript
<1>5. ~ActivityTimesOut
  <2>1. ActivityTimesOut => faults' = faults - 1
    BY DEF ActivityTimesOut
  <2> QED
    BY <1>1, <1>4, <2>1
<1>6. runs' = runs
  BY <1>5 DEF Activate, Lapse, Expire, vars, controlVars
<1>7. workflow'.registered = workflow.registered /\ (workflow'.active => workflow'.registered)
  <2>1. CASE Activate
    BY <1>1, <2>1 DEF Activate, Deployment
  <2>2. CASE Lapse
    BY <1>1, <2>2 DEF Lapse, Deployment
  <2>3. CASE workflow' = workflow
    BY <1>4, <2>3 DEF Undisturbed, ScriptFine
  <2> QED
    BY <1>5, <2>1, <2>2, <2>3 DEF Expire, vars, controlVars
<1>8. WorkerFine' /\ TaskFine'
  BY <1>2, <1>4, <1>6, WorkerAndRunsKept DEF Undisturbed
<1> QED
  BY <1>2, <1>4, <1>6, <1>7, <1>8, WorkerMoves

\* A demonstration starts undisturbed.
LEMMA StartsCalm ==
  ASSUME Init
  PROVE  CalmInv
<1> DEFINE none == << >>
           blank == ""
<1>0. Len(none) = 0 /\ DOMAIN none = {}
  OBVIOUS
<1> HIDE DEF none, blank
<1>1. /\ runs = none /\ workflow = Unregistered
      /\ worker = [pc |-> "resolve", tls |-> TRUE, stop |-> FALSE, errors |-> 0, completions |-> 0,
                   stream |-> none, streams |-> none, task |-> NoTask, result |-> "success",
                   attempt |-> 0, missed |-> FALSE, rc |-> 0]
      /\ client = [pc |-> "active", k |-> 1, id |-> 0, status |-> blank, rcs |-> none, named |-> 0,
                   sig |-> 0, spared |-> FALSE, timedOut |-> FALSE, waited |-> FALSE]
  BY DEF Init, none, blank
<1>2. worker.pc = "resolve" /\ worker.tls /\ ~worker.missed /\ ~worker.stop
  BY <1>1
<1>3. client.pc = "active" /\ client.rcs = none
  BY <1>1
<1>4. ~workflow.active
  BY <1>1 DEF Unregistered
<1>5. ScriptFine
  BY <1>0, <1>3, <1>4 DEF ScriptFine, NoneFailed, Starting, Closing
<1>6. Approving
  BY <1>3 DEF Approving
<1>7. WorkerFine
  BY <1>2 DEF WorkerFine
<1>8. TaskFine
  BY <1>2 DEF TaskFine
<1>9. RunsFine
  BY <1>0, <1>1 DEF RunsFine
<1> QED
  BY <1>2, <1>5, <1>6, <1>7, <1>8, <1>9 DEF CalmInv, Undisturbed

\* Every step that leaves the demonstration calm leaves it undisturbed.
LEMMA CalmHolds ==
  ASSUME IInv, CalmInv, [Next]_vars
  PROVE  CalmInv'
<1>1. CASE runWorker \/ soleRunWorker
  <2>1. BothLoops
    BY <1>1 DEF runWorker, soleRunWorker
  <2>2. Calm' => Undisturbed'
    BY <2>1, ResolveCalm, RegisterCalm, RoundStartsCalm, WfPollCalm, WfAnswerCalm, ActPollCalm,
       InvokeCalm, ChatCalm, ActAnswerCalm, LeaveCalm DEF BothLoops
  <2>3. worker'.pc # "resolve"
    BY <2>1, ResolvesOnce
  <2> QED
    BY <2>2, <2>3 DEF CalmInv
<1>2. CASE Script
  <2>1. demo' = demo /\ worker' = worker
    BY <1>2 DEF Script
  <2>2. \/ awaitActive \/ execute \/ observePause \/ signal \/ pollTerminal \/ verdict
        \/ awaitWorker \/ CleanUp \/ join
    BY <1>2 DEF Script, runTrigger, soleTrigger, runHitl, AwaitVerdict, runCleanup, soleCleanup
  <2>3. Calm' => Undisturbed'
    <3>1. CASE awaitActive \/ execute \/ observePause \/ signal \/ pollTerminal \/ verdict
      BY <2>1, <3>1, AwaitActiveCalm, ExecuteCalm, ObservePauseCalm, SignalCalm,
         PollTerminalCalm, VerdictCalm
    <3>2. CASE awaitWorker \/ CleanUp \/ join
      BY <2>1, <3>2, AwaitWorkerCalm, CheckRunCalm, WalksOnCalm, NeverForced DEF CleanUp
    <3> QED
      BY <2>2, <3>1, <3>2
  <2> QED
    BY <2>1, <2>3 DEF CalmInv
<1>3. CASE killWorker /\ UNCHANGED demo
  <2>1. ~Calm'
    BY <1>3, NeverForced
  <2>2. worker'.pc = "resolve" => worker' = worker
    <3>1. worker \in Worker
      BY Basics DEF IInv
    <3> QED
      BY <1>3, <3>1 DEF killWorker, Worker, Running
  <2> QED
    BY <2>1, <2>2 DEF CalmInv
<1>4. CASE Activate \/ Lapse \/ ActivityTimesOut \/ (\E who \in {"worker", "client"} : Expire(who))
             \/ UNCHANGED vars
  <2>1. Calm' => Undisturbed'
    BY <1>4, ServiceCalm
  <2>2. worker' = worker
    BY <1>4 DEF Activate, Lapse, ActivityTimesOut, Expire, vars
  <2> QED
    BY <2>1, <2>2 DEF CalmInv
<1> QED
  BY <1>1, <1>2, <1>3, <1>4 DEF Next

\* A calm demonstration that has ended has passed.
LEMMA CalmPasses ==
  ASSUME IInv, Undisturbed, client.pc = "ended"
  PROVE  Pass
<1>1. Types /\ demo \in Demos
  BY DEF IInv, Types
<1>2. client.waited /\ NoneFailed /\ Len(client.rcs) = Len(demo.clients)
  BY DEF Undisturbed, ScriptFine, Closing, Starting, Watching
<1>3. worker.pc = "exited" /\ worker.rc = 0
  BY <1>2 DEF IInv, Counted, Undisturbed, WorkerFine
<1>4. worker.completions >= demo.max_completions /\ ~worker.missed
  BY <1>3 DEF IInv, Counted, Undisturbed, WorkerFine
<1>5. /\ worker.completions \in Nat /\ Len(demo.clients) \in Nat \ {0}
      /\ demo.max_completions = Len(demo.clients)
  BY <1>1, DemoFits, Basics DEF Worker
<1>6. Len(runs) = Len(demo.clients) /\ AllClosedWell(Len(runs))
  BY <1>2 DEF IInv, AllServed, Starting, Watching
<1>7. ASSUME NEW k \in 1 .. Len(demo.clients)
      PROVE  worker.streams[k] = Issued(PathTaken(k))
  <2>1. k \in 1 .. worker.completions
    BY <1>4, <1>5
  <2>2. worker.streams[k] = runs[k].commands
    BY <1>2, <1>4, <2>1, OrderlyIfNoneFailed DEF IInv, Printed
  <2>3. k \in DOMAIN runs /\ runs[k].status = "COMPLETED"
    BY <1>1, <1>6, Basics DEF AllClosedWell
  <2>4. RunFine(runs[k], PathTaken(k))
    BY <2>3 DEF Undisturbed, RunsFine
  <2> QED
    BY <2>2, <2>3, <2>4 DEF RunFine, CommandsFit
<1>8. /\ demo.judge = "first" => Issued(PathTaken(1)) = demo.expected
      /\ demo.judge = "pair" => Len(demo.clients) >= 2 /\ Issued(PathTaken(1)) = Issued(PathTaken(2))
  BY <1>1, ScriptsAssumption DEF PathTaken, PathOf
<1>9. StreamsAsExpected
  <2>1. worker.streams[1] = Issued(PathTaken(1))
    BY <1>5, <1>7
  <2>2. Len(demo.clients) >= 2 => worker.streams[2] = Issued(PathTaken(2))
    BY <1>5, <1>7
  <2> QED
    BY <1>8, <2>1, <2>2 DEF StreamsAsExpected
<1> QED
  BY <1>2, <1>3, <1>9 DEF Pass, NoneFailed

\* No demonstration fails of itself: whatever its specs, its clients and the
\* order in which worker, script and service take their steps, one that did not
\* pass had an exchange disturbed, ran out of a time budget, or was told to speak
\* plaintext.
THEOREM FailuresHaveCauses == Spec => []FailureHasACause
<1>1. Init => IInv /\ CalmInv
  BY StartsHolding, StartsCalm
<1>2. IInv /\ CalmInv /\ [Next]_vars => IInv' /\ CalmInv'
  BY StepsHold, CalmHolds
<1>3. IInv /\ CalmInv => FailureHasACause
  <2> SUFFICES ASSUME IInv, CalmInv, client.pc = "ended", ~Pass, ~(faults < MaxFaults),
                      ~client.timedOut, "worker" \notin late
               PROVE  ~worker.tls
    BY DEF FailureHasACause
  <2>1. faults = MaxFaults
    BY ControlPlaneAssumption DEF IInv, Types
  <2>2. ~Calm
    BY CalmPasses DEF CalmInv
  <2> QED
    BY <2>1, <2>2 DEF Calm
<1> QED
  BY <1>1, <1>2, <1>3, PTL DEF Spec
=============================================================================
