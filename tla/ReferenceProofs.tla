-------------------------- MODULE ReferenceProofs --------------------------
(***************************************************************************)
(* First, a walk that resumes from a saved state against a walk of the     *)
(* same history from nothing, for every spec and every history a run can   *)
(* have.  The saved state is what the walk of a prefix left; the walk of   *)
(* the whole history passes the steps that one had bound, with the same    *)
(* bindings, and stands where it stopped.  From there the two take the     *)
(* same steps, since the records the saved walk had passed over are        *)
(* claimed already, or are still found by the one that resumes.            *)
(*                                                                         *)
(* Then, that the walk of ReplayEngine does what ReplayReference says      *)
(* without one: a decision is made of exactly the command the history is   *)
(* owed.  The steps the walk takes are the run of the reference, for there *)
(* is no other (RunIsUnique); along them the walk keeps the reference's    *)
(* ranks and bindings (Tracks), so it goes where the reference leads, and  *)
(* stops with the reference's command.                                     *)
(***************************************************************************)
EXTENDS ReplayEngineProofs

-----------------------------------------------------------------------------
(* A walk from a saved state passes every step the saved walk had bound.   *)

LEMMA WalkGoesOn ==
  ASSUME NEW spec, Len(spec) \in Nat, NEW run, NEW ctx0, NEW w, IsWalk(w, spec, run, ctx0),
         NEW j \in 0..Len(spec), w[j].outcome = "Continue", NEW i \in 0..j
  PROVE  w[i].outcome = "Continue"
<1>1. i \in 0..Len(spec) /\ j \in i..Len(spec)
  OBVIOUS
<1>2. CASE w[i].outcome # "Continue"
  <2>1. w[j] = w[i]
    BY <1>1, <1>2, WalkHalts
  <2> QED
    BY <1>2, <2>1
<1> QED
  BY <1>2

LEMMA AdvanceReads ==
  ASSUME NEW c, IsCtx(c), NEW i
  PROVE  /\ IsCtx(Advance(c, i)) /\ Advance(c, i).at = i
         /\ Advance(c, i).results = c.results /\ Advance(c, i).input = c.input
         /\ Advance(c, i).outcome = c.outcome
  BY AdvanceCtx DEF CtxFields

LEMMA AdvanceNowhere ==
  ASSUME NEW c, IsCtx(c)
  PROVE  Advance(c, c.at) = c
<1>1. IsCtx(Advance(c, c.at)) /\ SameBut(Advance(c, c.at), c, {"at"})
      /\ Advance(c, c.at).at = c.at
  BY AdvanceCtx DEF SameBut
<1> HIDE DEF Advance
<1> QED
  BY <1>1, CtxEqual DEF SameBut, CtxFields

\* What a step that goes on makes of a context, a walk with the same bindings
\* and those to come makes of its own: it only moves on.
LEMMA StepSkips ==
  ASSUME NEW step, NEW run, NEW rest, NEW c, IsCtx(c), NEW d, StepMakes(step, run, c, d),
         d.outcome = "Continue",
         NEW b, IsCtx(b), b.input = c.input, DOMAIN d.results \subseteq DOMAIN b.results,
         step.kind = "conditional" =>
           step.op \in Operators /\ KeepsKey(c, b, step.path)
  PROVE  WalkStep(step, rest, b) = Advance(b, d.at)
<1>1. CASE Passes(step, c, d)
  <2>1. step.id \in DOMAIN b.results
    BY <1>1 DEF Passes, SameBut, CtxFields
  <2>2. IsBinding(step) /\ d.at = step.next
    BY <1>1 DEF Passes
  <2> QED
    BY <2>1, <2>2, PassStep
<1>2. CASE Takes(step, run, c, d)
  <2>1. step.id \in DOMAIN d.results
    BY <1>2 DEF Takes, Put
  <2>2. IsBinding(step) /\ d.at = step.next
    BY <1>2 DEF Takes, AtRecord, AtActivity, IsBinding
  <2> QED
    BY <2>1, <2>2, PassStep
<1>3. CASE TakesSignal(step, run, c, d)
  <2>1. step.id \in DOMAIN d.results
    BY <1>3 DEF TakesSignal, Binding, Put
  <2>2. IsBinding(step) /\ d.at = step.next
    BY <1>3 DEF TakesSignal, AtWait, IsBinding
  <2> QED
    BY <2>1, <2>2, PassStep
<1>4. CASE Branches(step, c, d)
  <2>1. /\ PredicateFails(step, c) <=> PredicateFails(step, b)
        /\ ~ PredicateFails(step, c) =>
             (PredicateHolds(step, c) <=> PredicateHolds(step, b))
    BY <1>4, PredicateReads DEF Branches
  <2>2. WalkStep(step, rest, b) = WalkConditional(step, b)
    BY <1>4 DEF WalkStep, Branches
  <2>3. /\ ~ PredicateFails(step, c)
        /\ d.at = IF PredicateHolds(step, c) THEN step.then ELSE step.else
    BY <1>4 DEF Branches
  <2> QED
    BY <2>1, <2>2, <2>3 DEF WalkConditional
<1> QED
  BY <1>1, <1>2, <1>3, <1>4 DEF StepMakes, Awaits, Fails, Schedules, Waits, Completes, Errs

LEMMA WalkSkips ==
  ASSUME NEW spec, Len(spec) \in Nat, WellScoped(spec),
         NEW run, IsOpenRun(run), NEW a0, IsCtx(a0), NEW a, IsWalk(a, spec, run, a0),
         NEW rest, NEW b0, IsCtx(b0), NEW b, IsWalk(b, spec, rest, b0),
         NEW p \in 1..Len(spec), a[p - 1].outcome = "Continue",
         a0.at = b0.at, b0.outcome = "Continue",
         b0.results = a[p - 1].results, b0.input = a[p - 1].input
  PROVE  b[p - 1] = Advance(b0, a[p - 1].at)
<1> DEFINE Good == {i \in 0..(p - 1) : b[i] = Advance(b0, a[i].at)}
<1>0. /\ \A i \in 0..Len(spec) : IsCtx(a[i])
      /\ \A i \in 1..Len(spec) : StepTakes(spec, run, a[i - 1], a[i], i)
  BY WalkGoes
<1>1. 0 \in Good
  <2>1. a[0] = a0 /\ b[0] = b0
    BY DEF IsWalk
  <2> QED
    BY <2>1, AdvanceNowhere
<1>2. ASSUME NEW i \in 0..((p - 1) - 1), i \in Good PROVE i + 1 \in Good
  <2>1. /\ i + 1 \in 1..Len(spec) /\ i + 1 \in 0..Len(spec) /\ i + 1 \in 0..(p - 1)
        /\ (i + 1) - 1 = i /\ i \in 0..Len(spec) /\ p - 1 \in i..Len(spec)
        /\ p - 1 \in (i + 1)..Len(spec) /\ p - 1 \in 0..Len(spec)
        /\ b[i] = Advance(b0, a[i].at)
    BY <1>2
  <2>2. StepTakes(spec, run, a[i], a[i + 1], i + 1)
    BY <1>0, <2>1
  <2>3. b[i + 1] = Visit(spec, rest, b[i], i + 1)
    BY <2>1 DEF IsWalk
  <2>4. /\ IsCtx(b[i]) /\ b[i].at = a[i].at /\ b[i].results = a[p - 1].results
        /\ b[i].input = a[p - 1].input /\ b[i].outcome = "Continue"
    BY <2>1, AdvanceReads
  <2>5. CASE a[i].at = i + 1 /\ a[i].outcome = "Continue"
    <3>1. StepMakes(spec[i + 1], run, a[i], a[i + 1])
      BY <2>2, <2>5 DEF StepTakes
    <3>2. b[i + 1] = WalkStep(spec[i + 1], rest, b[i])
      BY <2>3, <2>4, <2>5 DEF Visit
    <3>3. a[i + 1].outcome = "Continue"
      BY <1>0, <2>1, WalkGoesOn
    <3>4. GrowsTo(a[i], a[p - 1]) /\ GrowsTo(a[i + 1], a[p - 1])
      BY <2>1, WalkGrows
    <3>5. b[i].input = a[i].input /\ DOMAIN a[i + 1].results \subseteq DOMAIN b[i].results
      BY <2>4, <3>4 DEF GrowsTo
    <3>6. ASSUME spec[i + 1].kind = "conditional"
          PROVE  /\ spec[i + 1].op \in Operators
                 /\ KeepsKey(a[i], b[i], spec[i + 1].path)
      <4>1. \A k \in (i + 1)..(p - 1) : ~ Rebinds(spec[k], spec[i + 1].path)
        <5> TAKE k \in (i + 1)..(p - 1)
        <5>1. CASE k = i + 1
          BY <3>6, <5>1 DEF Rebinds, IsBinding
        <5>2. CASE k # i + 1
          <6>1. k \in ((i + 1) + 1)..Len(spec)
            BY <5>2
          <6> QED
            BY <2>1, <3>6, <6>1 DEF WellScoped
        <5> QED
          BY <5>1, <5>2
      <4>2. KeepsKey(a[i], a[p - 1], spec[i + 1].path)
        BY <2>1, <4>1, WalkKeepsKey
      <4>3. KeepsKey(a[i], b[i], spec[i + 1].path)
        BY <2>4, <4>2 DEF KeepsKey
      <4> QED
        BY <2>1, <3>6, <4>3 DEF WellScoped
    <3>7. b[i + 1] = Advance(b[i], a[i + 1].at)
      BY <1>0, <2>1, <2>4, <3>1, <3>2, <3>3, <3>5, <3>6, StepSkips
    <3> QED
      BY <2>1, <3>7, AdvanceTwice
  <2>6. CASE ~ (a[i].at = i + 1 /\ a[i].outcome = "Continue")
    <3>1. a[i + 1] = a[i]
      BY <2>2, <2>6 DEF StepTakes
    <3>2. a[i].outcome = "Continue"
      BY <1>0, <2>1, WalkGoesOn
    <3>3. b[i + 1] = b[i]
      BY <2>3, <2>4, <2>6, <3>2 DEF Visit
    <3> QED
      BY <2>1, <3>1, <3>3
  <2> QED
    BY <2>5, <2>6
<1>3. p - 1 \in Nat
  OBVIOUS
<1> HIDE DEF Good
<1>4. \A i \in 0..(p - 1) : i \in Good
  BY <1>1, <1>2, <1>3, UpwardInduction
<1>5. p - 1 \in 0..(p - 1)
  OBVIOUS
<1> QED
  BY <1>4, <1>5 DEF Good

-----------------------------------------------------------------------------
(* From there on the two walks go in step: the resumed one reads the       *)
(* records the other has left, and counts from where the saved walk        *)
(* stopped.                                                                *)

SameRecord(r, q) ==
  r.sched = q.sched /\ r.name = q.name /\ r.status = q.status /\ r.value = q.value

\* rest is what run reads past its first `off` records; of these the first f, none
\* or one, is a restored one.
Behind(run, rest, off, f) ==
  /\ off \in Nat /\ f \in {0, 1}
  /\ run.history = rest.history
  /\ Len(run.records) = Len(rest.records) + off
  /\ f <= Len(rest.records)
  /\ \A k \in 1..Len(run.records) : ~ run.records[k].counted
  /\ \A k \in 1..Len(rest.records) :
       /\ SameRecord(run.records[off + k], rest.records[k])
       /\ rest.records[k].counted <=> k <= f

\* A restored activity not claimed again yet has its number already.
Ahead(d, f) == IF d.cursor < f THEN 1 ELSE 0

Shift(run, rest, off, f, c, d) ==
  /\ c.at = d.at /\ c.outcome = d.outcome /\ c.input = d.input /\ c.results = d.results
  /\ c.consumed = d.consumed /\ c.pending = d.pending /\ c.commands = d.commands
  /\ c.waiting = d.waiting
  /\ c.cursor = d.cursor + off
  /\ d.nextSeq = c.nextSeq + Ahead(d, f)
  /\ \A name : Count(run.base, name) + Count(c.claim, name)
                 = Count(rest.base, name) + Count(d.claim, name)

\* What a step reads, it reads alike in both walks.
ReadsAlike(step, run, rest, c, d) ==
  /\ c.results = d.results
  /\ AtActivity(step, c) <=> AtActivity(step, d)
  /\ AtWait(step, c) <=> AtWait(step, d)
  /\ c.cursor < Len(run.records) <=> d.cursor < Len(rest.records)
  /\ c.cursor < Len(run.records) => SameRecord(NextRecord(run, c), NextRecord(rest, d))
  /\ \A src : /\ HasValue(c, src) <=> HasValue(d, src)
              /\ ValueOf(c, src) = ValueOf(d, src)
  /\ NextSignal(step, run, c) = NextSignal(step, rest, d)
  /\ HasSignal(step, run, c) <=> HasSignal(step, rest, d)
  /\ SignalPayload(step, run, c) = SignalPayload(step, rest, d)
  /\ Binding(step, run, c) = Binding(step, rest, d)
  /\ step.kind = "conditional" =>
       /\ PredicateFails(step, c) <=> PredicateFails(step, d)
       /\ ~ PredicateFails(step, c) =>
            (PredicateHolds(step, c) <=> PredicateHolds(step, d))

LEMMA ShiftReadsAlike ==
  ASSUME NEW run, IsOpenRun(run), NEW rest, IsOpenRun(rest), NEW off, NEW f,
         Behind(run, rest, off, f), NEW c, IsCtx(c), NEW d, IsCtx(d),
         Shift(run, rest, off, f, c, d),
         NEW step, step.kind = "conditional" => step.op \in Operators
  PROVE  ReadsAlike(step, run, rest, c, d)
<1>1. c.results = d.results /\ c.input = d.input
  BY DEF Shift
<1>2. /\ AtActivity(step, c) <=> AtActivity(step, d)
      /\ AtWait(step, c) <=> AtWait(step, d)
  BY <1>1 DEF AtActivity, AtWait
<1>3. /\ c.cursor < Len(run.records) <=> d.cursor < Len(rest.records)
      /\ c.cursor < Len(run.records) => SameRecord(NextRecord(run, c), NextRecord(rest, d))
  <2>1. /\ c.cursor = d.cursor + off /\ Len(run.records) = Len(rest.records) + off
        /\ c.cursor \in Nat /\ d.cursor \in Nat /\ off \in Nat
        /\ Len(run.records) \in Nat /\ Len(rest.records) \in Nat
    BY DEF Shift, Behind, IsCtx, IsOpenRun
  <2>2. c.cursor < Len(run.records) <=> d.cursor < Len(rest.records)
    BY <2>1
  <2>3. ASSUME c.cursor < Len(run.records)
        PROVE  SameRecord(NextRecord(run, c), NextRecord(rest, d))
    <3>1. d.cursor + 1 \in 1..Len(rest.records) /\ off + (d.cursor + 1) = c.cursor + 1
      BY <2>1, <2>3
    <3>2. SameRecord(run.records[off + (d.cursor + 1)], rest.records[d.cursor + 1])
      BY <3>1 DEF Behind
    <3> QED
      BY <3>1, <3>2 DEF NextRecord
  <2> QED
    BY <2>2, <2>3
<1>4. \A src : /\ HasValue(c, src) <=> HasValue(d, src)
               /\ ValueOf(c, src) = ValueOf(d, src)
  BY <1>1 DEF HasValue, ValueOf, Resolves, Lookup
<1>5. NextSignal(step, run, c) = NextSignal(step, rest, d)
  BY DEF Shift, NextSignal
<1>6. run.history = rest.history
  BY DEF Behind
<1>7. /\ HasSignal(step, run, c) <=> HasSignal(step, rest, d)
      /\ SignalPayload(step, run, c) = SignalPayload(step, rest, d)
  BY <1>5, <1>6 DEF HasSignal, SignalPayload
<1>8. Binding(step, run, c) = Binding(step, rest, d)
  BY <1>1, <1>7 DEF Binding
<1>9. step.kind = "conditional" =>
       /\ PredicateFails(step, c) <=> PredicateFails(step, d)
       /\ ~ PredicateFails(step, c) =>
            (PredicateHolds(step, c) <=> PredicateHolds(step, d))
  <2>1. KeepsKey(c, d, step.path)
    BY <1>1 DEF KeepsKey
  <2> QED
    BY <1>1, <2>1, PredicateReads
<1> QED
  BY <1>1, <1>2, <1>3, <1>4, <1>5, <1>7, <1>8, <1>9 DEF ReadsAlike

\* The step does the same thing in both walks.
LEMMA StepsAgree ==
  ASSUME NEW run, IsOpenRun(run), NEW rest, IsOpenRun(rest), NEW step,
         NEW c, IsCtx(c), NEW d, IsCtx(d), ReadsAlike(step, run, rest, c, d),
         c.outcome = "Continue", d.outcome = "Continue",
         NEW x, StepMakes(step, run, c, x), NEW y, StepMakes(step, rest, d, y)
  PROVE  \/ Passes(step, c, x) /\ Passes(step, d, y)
         \/ Takes(step, run, c, x) /\ Takes(step, rest, d, y)
         \/ Awaits(step, run, c, x) /\ Awaits(step, rest, d, y)
         \/ Fails(step, run, c, x) /\ Fails(step, rest, d, y)
         \/ Schedules(step, run, c, x) /\ Schedules(step, rest, d, y)
         \/ TakesSignal(step, run, c, x) /\ TakesSignal(step, rest, d, y)
         \/ Waits(step, run, c, x) /\ Waits(step, rest, d, y)
         \/ Branches(step, c, x) /\ Branches(step, d, y)
         \/ Completes(step, c, x) /\ Completes(step, d, y)
         \/ x.outcome = "Error" /\ y.outcome = "Error"
<1> USE DEF ReadsAlike
<1>0. /\ c.cursor \in Nat /\ d.cursor \in Nat
      /\ Len(run.records) \in Nat /\ Len(rest.records) \in Nat
  BY DEF IsCtx, IsOpenRun
<1>1. CASE Passes(step, c, x)
  BY <1>0, <1>1 DEF StepMakes, Passes, Takes, Awaits, Fails, Schedules, TakesSignal, Waits,
     Branches, Completes, Errs, Cannot, AtRecord, AtActivity, AtWait, IsBinding
<1>2. CASE Takes(step, run, c, x)
  BY <1>0, <1>2 DEF StepMakes, Passes, Takes, Awaits, Fails, Schedules, TakesSignal, Waits,
     Branches, Completes, Errs, Cannot, AtRecord, AtActivity, AtWait, IsBinding, SameRecord
<1>3. CASE Awaits(step, run, c, x)
  BY <1>0, <1>3 DEF StepMakes, Passes, Takes, Awaits, Fails, Schedules, TakesSignal, Waits,
     Branches, Completes, Errs, Cannot, AtRecord, AtActivity, AtWait, IsBinding, SameRecord
<1>4. CASE Fails(step, run, c, x)
  BY <1>0, <1>4 DEF StepMakes, Passes, Takes, Awaits, Fails, Schedules, TakesSignal, Waits,
     Branches, Completes, Errs, Cannot, AtRecord, AtActivity, AtWait, IsBinding, SameRecord
<1>5. CASE Schedules(step, run, c, x)
  BY <1>0, <1>5 DEF StepMakes, Passes, Takes, Awaits, Fails, Schedules, TakesSignal, Waits,
     Branches, Completes, Errs, Cannot, AtRecord, AtActivity, AtWait, IsBinding
<1>6. CASE TakesSignal(step, run, c, x)
  BY <1>0, <1>6 DEF StepMakes, Passes, Takes, Awaits, Fails, Schedules, TakesSignal, Waits,
     Branches, Completes, Errs, Cannot, AtRecord, AtActivity, AtWait, IsBinding
<1>7. CASE Waits(step, run, c, x)
  BY <1>0, <1>7 DEF StepMakes, Passes, Takes, Awaits, Fails, Schedules, TakesSignal, Waits,
     Branches, Completes, Errs, Cannot, AtRecord, AtActivity, AtWait, IsBinding
<1>8. CASE Branches(step, c, x)
  BY <1>0, <1>8 DEF StepMakes, Passes, Takes, Awaits, Fails, Schedules, TakesSignal, Waits,
     Branches, Completes, Errs, Cannot, AtRecord, AtActivity, AtWait, IsBinding
<1>9. CASE Completes(step, c, x)
  BY <1>0, <1>9 DEF StepMakes, Passes, Takes, Awaits, Fails, Schedules, TakesSignal, Waits,
     Branches, Completes, Errs, Cannot, AtRecord, AtActivity, AtWait, IsBinding
<1>10. CASE Errs(step, run, c, x)
  BY <1>0, <1>10 DEF StepMakes, Passes, Takes, Awaits, Fails, Schedules, TakesSignal, Waits,
     Branches, Completes, Errs, Cannot, AtRecord, AtActivity, AtWait, IsBinding, SameRecord
<1> QED
  BY <1>1, <1>2, <1>3, <1>4, <1>5, <1>6, <1>7, <1>8, <1>9, <1>10 DEF StepMakes

\* Both walks claim their next record.
LEMMA ClaimShifts ==
  ASSUME NEW run, IsOpenRun(run), NEW rest, IsOpenRun(rest), NEW off, NEW f,
         Behind(run, rest, off, f), NEW c, IsCtx(c), NEW d, IsCtx(d),
         Shift(run, rest, off, f, c, d), c.cursor < Len(run.records),
         NEW x, x.cursor = c.cursor + 1, x.nextSeq = NextSeqAfter(run, c),
         NEW y, y.cursor = d.cursor + 1, y.nextSeq = NextSeqAfter(rest, d)
  PROVE  x.cursor = y.cursor + off /\ y.nextSeq = x.nextSeq + Ahead(y, f)
<1>1. /\ c.cursor = d.cursor + off /\ Len(run.records) = Len(rest.records) + off
      /\ c.cursor \in Nat /\ d.cursor \in Nat /\ off \in Nat /\ f \in {0, 1}
      /\ Len(run.records) \in Nat /\ Len(rest.records) \in Nat
      /\ c.nextSeq \in Nat /\ d.nextSeq \in Nat
  BY DEF Shift, Behind, IsCtx, IsOpenRun
<1>2. c.cursor + 1 \in 1..Len(run.records) /\ d.cursor + 1 \in 1..Len(rest.records)
  <2>1. d.cursor < Len(rest.records)
    BY <1>1
  <2>2. \A i, n \in Nat : i < n => i + 1 \in 1..n
    OBVIOUS
  <2> QED
    BY <1>1, <2>1, <2>2
<1>3. x.nextSeq = c.nextSeq + 1
  <2>1. ~ NextRecord(run, c).counted
    BY <1>2 DEF Behind, NextRecord
  <2> QED
    BY <2>1 DEF NextSeqAfter
<1>4. NextRecord(rest, d).counted <=> d.cursor + 1 <= f
  BY <1>2 DEF Behind, NextRecord
<1>5. d.nextSeq = c.nextSeq + Ahead(d, f)
  BY DEF Shift
<1>6. y.nextSeq = IF d.cursor + 1 <= f THEN d.nextSeq ELSE d.nextSeq + 1
  BY <1>4 DEF NextSeqAfter
<1>7. y.nextSeq = x.nextSeq + Ahead(y, f)
  <2>1. CASE d.cursor + 1 <= f
    BY <1>1, <1>3, <1>5, <1>6, <2>1 DEF Ahead
  <2>2. CASE ~ (d.cursor + 1 <= f)
    BY <1>1, <1>3, <1>5, <1>6, <2>2 DEF Ahead
  <2> QED
    BY <2>1, <2>2
<1> QED
  BY <1>1, <1>7

\* Both walks claim a signal of one name.
\* Two contexts stand at the same signal of every name.
SameSignal(run, rest, c, d) ==
  \A name : Count(run.base, name) + Count(c.claim, name)
              = Count(rest.base, name) + Count(d.claim, name)

LEMMA SignalShifts ==
  ASSUME NEW run, IsOpenRun(run), NEW rest, IsOpenRun(rest), NEW c, IsCtx(c), NEW d, IsCtx(d),
         SameSignal(run, rest, c, d), NEW nm, NEW x, x.claim = Put(c.claim, nm, Count(c.claim, nm) + 1),
         NEW y, y.claim = Put(d.claim, nm, Count(d.claim, nm) + 1)
  PROVE  SameSignal(run, rest, x, y)
<1> SUFFICES ASSUME NEW name
             PROVE  Count(run.base, name) + Count(x.claim, name)
                      = Count(rest.base, name) + Count(y.claim, name)
  BY DEF SameSignal
<1>1. /\ Count(run.base, name) \in Nat /\ Count(rest.base, name) \in Nat
      /\ Count(c.claim, name) \in Nat /\ Count(d.claim, name) \in Nat
  BY CountIsNat DEF IsOpenRun, IsCtx
<1>2. Count(x.claim, name) = IF name = nm THEN Count(c.claim, nm) + 1
                                          ELSE Count(c.claim, name)
  BY DEF Put, Count
<1>3. Count(y.claim, name) = IF name = nm THEN Count(d.claim, nm) + 1
                                          ELSE Count(d.claim, name)
  BY DEF Put, Count
<1>4. Count(run.base, name) + Count(c.claim, name)
        = Count(rest.base, name) + Count(d.claim, name)
  BY DEF SameSignal
<1> QED
  BY <1>1, <1>2, <1>3, <1>4

LEMMA StepShifts ==
  ASSUME NEW run, IsOpenRun(run), NEW rest, IsOpenRun(rest), NEW off, NEW f,
         Behind(run, rest, off, f), NEW c, IsCtx(c), NEW d, IsCtx(d),
         Shift(run, rest, off, f, c, d), c.outcome = "Continue",
         NEW step, step.kind = "conditional" => step.op \in Operators,
         NEW x, StepMakes(step, run, c, x), NEW y, StepMakes(step, rest, d, y)
  PROVE  \/ Shift(run, rest, off, f, x, y)
         \/ x.outcome = "Error" /\ y.outcome = "Error"
<1>1. ReadsAlike(step, run, rest, c, d)
  BY ShiftReadsAlike
<1>2. /\ c.outcome = d.outcome /\ d.outcome = "Continue"
      /\ c.at = d.at /\ c.input = d.input /\ c.results = d.results
      /\ c.consumed = d.consumed /\ c.pending = d.pending /\ c.commands = d.commands
      /\ c.waiting = d.waiting /\ c.cursor = d.cursor + off
      /\ d.nextSeq = c.nextSeq + Ahead(d, f)
  BY DEF Shift
<1>3. \A name : Count(run.base, name) + Count(c.claim, name)
                  = Count(rest.base, name) + Count(d.claim, name)
  BY DEF Shift
<1>s. c.cursor < Len(run.records) => SameRecord(NextRecord(run, c), NextRecord(rest, d))
  BY <1>1 DEF ReadsAlike
<1>4. CASE Passes(step, c, x) /\ Passes(step, d, y)
  <2>1. y.cursor = d.cursor
    BY <1>4 DEF Passes, SameBut, CtxFields
  <2> QED
    BY <1>2, <1>3, <1>4, <2>1 DEF Shift, Passes, SameBut, CtxFields, Ahead
<1>5. CASE Takes(step, run, c, x) /\ Takes(step, rest, d, y)
  <2>1. x.cursor = y.cursor + off /\ y.nextSeq = x.nextSeq + Ahead(y, f)
    BY <1>5, ClaimShifts DEF Takes, AtRecord
  <2>2. x.results = y.results
    BY <1>2, <1>5, <1>s DEF Takes, AtRecord, SameRecord
  <2> QED
    BY <1>2, <1>3, <1>5, <2>1, <2>2 DEF Shift, Takes, SameBut, CtxFields
<1>6. CASE Awaits(step, run, c, x) /\ Awaits(step, rest, d, y)
  <2>1. x.cursor = y.cursor + off /\ y.nextSeq = x.nextSeq + Ahead(y, f)
    BY <1>6, ClaimShifts DEF Awaits, AtRecord
  <2>2. x.pending = y.pending
    BY <1>6, <1>s DEF Awaits, AtRecord, SameRecord
  <2> QED
    BY <1>2, <1>3, <1>6, <2>1, <2>2 DEF Shift, Awaits, SameBut, CtxFields
<1>7. CASE Fails(step, run, c, x) /\ Fails(step, rest, d, y)
  <2>1. x.cursor = y.cursor + off /\ y.nextSeq = x.nextSeq + Ahead(y, f)
    BY <1>7, ClaimShifts DEF Fails, AtRecord
  <2> QED
    BY <1>2, <1>3, <1>7, <2>1 DEF Shift, Fails, SameBut, CtxFields
<1>8. CASE Schedules(step, run, c, x) /\ Schedules(step, rest, d, y)
  <2>1. Ahead(d, f) = 0
    <3>1. d.cursor >= Len(rest.records)
      BY <1>8 DEF Schedules
    <3> QED
      BY <3>1 DEF Ahead, Behind, IsCtx, IsOpenRun
  <2>2. c.nextSeq = d.nextSeq
    BY <1>2, <2>1 DEF IsCtx
  <2>3. x.commands = y.commands
    BY <1>1, <1>2, <1>8, <2>2 DEF Schedules, ReadsAlike
  <2>4. y.cursor = d.cursor
    BY <1>8 DEF Schedules, SameBut, CtxFields
  <2>5. Ahead(y, f) = Ahead(d, f)
    BY <2>4 DEF Ahead
  <2> QED
    BY <1>2, <1>3, <1>8, <2>3, <2>4, <2>5 DEF Shift, Schedules, SameBut, CtxFields
<1>9. CASE TakesSignal(step, run, c, x) /\ TakesSignal(step, rest, d, y)
  <2>1. \A name : Count(run.base, name) + Count(x.claim, name)
                    = Count(rest.base, name) + Count(y.claim, name)
    <3>1. /\ x.claim = Put(c.claim, step.name, Count(c.claim, step.name) + 1)
          /\ y.claim = Put(d.claim, step.name, Count(d.claim, step.name) + 1)
      BY <1>9 DEF TakesSignal
    <3>2. SameSignal(run, rest, c, d)
      BY <1>3 DEF SameSignal
    <3>3. SameSignal(run, rest, x, y)
      BY <3>1, <3>2, SignalShifts
    <3> QED
      BY <3>3 DEF SameSignal
  <2>2. x.results = y.results /\ x.consumed = y.consumed
    BY <1>1, <1>2, <1>9 DEF TakesSignal, ReadsAlike
  <2>3. y.cursor = d.cursor
    BY <1>9 DEF TakesSignal, SameBut, CtxFields
  <2> QED
    BY <1>2, <1>9, <2>1, <2>2, <2>3 DEF Shift, TakesSignal, SameBut, CtxFields, Ahead
<1>10. CASE Waits(step, run, c, x) /\ Waits(step, rest, d, y)
  <2>1. y.cursor = d.cursor
    BY <1>10 DEF Waits, SameBut, CtxFields
  <2> QED
    BY <1>2, <1>3, <1>10, <2>1 DEF Shift, Waits, SameBut, CtxFields, Ahead
<1>11. CASE Branches(step, c, x) /\ Branches(step, d, y)
  <2>1. y.cursor = d.cursor
    BY <1>11 DEF Branches, SameBut, CtxFields
  <2>2. x.at = y.at
    BY <1>1, <1>11 DEF Branches, ReadsAlike
  <2> QED
    BY <1>2, <1>3, <1>11, <2>1, <2>2 DEF Shift, Branches, SameBut, CtxFields, Ahead
<1>12. CASE Completes(step, c, x) /\ Completes(step, d, y)
  <2>1. y.cursor = d.cursor
    BY <1>12 DEF Completes, SameBut, CtxFields
  <2>2. x.commands = y.commands
    BY <1>1, <1>2, <1>12 DEF Completes, ReadsAlike
  <2> QED
    BY <1>2, <1>3, <1>12, <2>1, <2>2 DEF Shift, Completes, SameBut, CtxFields, Ahead
<1> QED
  BY <1>1, <1>2, <1>4, <1>5, <1>6, <1>7, <1>8, <1>9, <1>10, <1>11, <1>12, StepsAgree

LEMMA WalkShifts ==
  ASSUME NEW spec, Len(spec) \in Nat, WellScoped(spec),
         NEW run, IsOpenRun(run), NEW rest, IsOpenRun(rest), NEW off, NEW f,
         Behind(run, rest, off, f),
         NEW v0, IsCtx(v0), NEW v, IsWalk(v, spec, run, v0),
         NEW b0, IsCtx(b0), NEW b, IsWalk(b, spec, rest, b0),
         NEW p \in 0..Len(spec), Shift(run, rest, off, f, v[p], b[p])
  PROVE  \/ Shift(run, rest, off, f, v[Len(spec)], b[Len(spec)])
         \/ v[Len(spec)].outcome = "Error" /\ b[Len(spec)].outcome = "Error"
<1> DEFINE Same(i) == \/ Shift(run, rest, off, f, v[i], b[i])
                      \/ v[i].outcome = "Error" /\ b[i].outcome = "Error"
           Good == {i \in p..Len(spec) : Same(i)}
<1>0. /\ \A i \in 0..Len(spec) : IsCtx(v[i]) /\ IsCtx(b[i])
      /\ \A i \in 1..Len(spec) : /\ StepTakes(spec, run, v[i - 1], v[i], i)
                                 /\ StepTakes(spec, rest, b[i - 1], b[i], i)
  BY WalkGoes
<1>1. p \in Good
  OBVIOUS
<1>2. ASSUME NEW i \in p..(Len(spec) - 1), i \in Good PROVE i + 1 \in Good
  <2>1. /\ i + 1 \in 1..Len(spec) /\ i + 1 \in p..Len(spec) /\ (i + 1) - 1 = i
        /\ i \in 0..Len(spec) /\ Same(i)
    BY <1>2
  <2>2. /\ StepTakes(spec, run, v[i], v[i + 1], i + 1)
        /\ StepTakes(spec, rest, b[i], b[i + 1], i + 1)
        /\ IsCtx(v[i]) /\ IsCtx(b[i])
    BY <1>0, <2>1
  <2>3. CASE v[i].outcome = "Error" /\ b[i].outcome = "Error"
    BY <2>1, <2>2, <2>3 DEF StepTakes
  <2>4. CASE Shift(run, rest, off, f, v[i], b[i])
    <3>1. v[i].at = b[i].at /\ v[i].outcome = b[i].outcome
      BY <2>4 DEF Shift
    <3>2. CASE v[i].at = i + 1 /\ v[i].outcome = "Continue"
      <4>1. /\ StepMakes(spec[i + 1], run, v[i], v[i + 1])
            /\ StepMakes(spec[i + 1], rest, b[i], b[i + 1])
        BY <2>2, <3>1, <3>2 DEF StepTakes
      <4>2. spec[i + 1].kind = "conditional" => spec[i + 1].op \in Operators
        BY <2>1 DEF WellScoped
      <4>3. Same(i + 1)
        BY <2>2, <2>4, <3>2, <4>1, <4>2, StepShifts
      <4> QED
        BY <2>1, <4>3
    <3>3. CASE ~ (v[i].at = i + 1 /\ v[i].outcome = "Continue")
      <4>1. v[i + 1] = v[i] /\ b[i + 1] = b[i]
        BY <2>2, <3>1, <3>3 DEF StepTakes
      <4>2. Same(i + 1)
        BY <2>1, <4>1
      <4> QED
        BY <2>1, <4>2
    <3> QED
      BY <3>2, <3>3
  <2> QED
    BY <2>1, <2>3, <2>4
<1>3. p \in Nat /\ Len(spec) \in p..Len(spec)
  OBVIOUS
<1> HIDE DEF Good
<1>4. \A i \in p..Len(spec) : i \in Good
  BY <1>1, <1>2, <1>3, UpwardInduction
<1> QED
  BY <1>3, <1>4 DEF Good

-----------------------------------------------------------------------------
(* Histories the service records of a run whose activities do not fail.    *)

HasPrefix(h, g) ==
  /\ Len(g) <= Len(h)
  /\ \A i \in 1..Len(g) : h[i] = g[i]

\* An activity that completes was scheduled before, and completes once.
Regular(h) ==
  /\ IsList(h) /\ Len(h) >= 1
  /\ NeverClosed(h)
  /\ \A e \in 1..Len(h) :
       /\ h[e].type = "Started" <=> e = 1
       /\ h[e].type # "ActivityFailed"
       /\ h[e].type = "ActivityCompleted" =>
            h[e].ref \in 1..(e - 1) /\ h[h[e].ref].type = "ActivityScheduled"
  /\ \A e, x \in 1..Len(h) :
       /\ h[e].type = "ActivityCompleted" /\ h[x].type = "ActivityCompleted"
       /\ h[e].ref = h[x].ref
       => e = x

\* A state that has seen nothing.
IsFresh(st) == st.watermark = 0 /\ st.pending = NoPending /\ st.consumed = EmptyMap

\* All activities of a history, in scheduling order.
ActivityIds(h) == {e \in 1..Len(h) : h[e].type = "ActivityScheduled"}
Activities(h)  == InOrder(ActivityIds(h), Len(h))

LEMMA FreshIdsAreAll ==
  ASSUME NEW h, Len(h) \in Nat, NEW fr, IsFresh(fr)
  PROVE  FreshIds(h, fr) = Activities(h)
<1>1. InSuffix(h, fr, {"ActivityScheduled"}) = ActivityIds(h)
  BY DEF InSuffix, Suffix, ActivityIds, IsFresh
<1> QED
  BY <1>1 DEF FreshIds, Activities

LEMMA ActivitiesList ==
  ASSUME NEW h, Len(h) \in Nat
  PROVE  /\ IsList(Activities(h)) /\ Len(Activities(h)) \in Nat
         /\ \A k \in 1..Len(Activities(h)) : Activities(h)[k] \in ActivityIds(h)
         /\ \A e \in ActivityIds(h) : \E k \in 1..Len(Activities(h)) : Activities(h)[k] = e
         /\ \A j, k \in 1..Len(Activities(h)) : j < k => Activities(h)[j] < Activities(h)[k]
<1> DEFINE q == Activities(h)
           S == ActivityIds(h)
<1>1. Lists(q, S, Len(h))
  BY InOrderLists DEF Activities
<1>2. S \cap 1..Len(h) = S
  BY DEF ActivityIds
<1> HIDE DEF q, S
<1>3. q \in Seq(Nat)
  BY <1>1 DEF Lists
<1>4. IsList(q) /\ Len(q) \in Nat
  BY <1>3, SeqIsList DEF IsList
<1>5. /\ \A k \in 1..Len(q) : q[k] \in S
      /\ \A e \in S : \E k \in 1..Len(q) : q[k] = e
      /\ \A j, k \in 1..Len(q) : j < k => q[j] < q[k]
  BY <1>1, <1>2 DEF Lists
<1> QED
  BY <1>4, <1>5 DEF q, S

\* The activities of a history and those past it make those of a longer one.
LEMMA ActivitiesGrow ==
  ASSUME NEW g, Len(g) \in Nat, NEW h, Len(h) \in Nat, HasPrefix(h, g),
         NEW st, st.watermark = Len(g)
  PROVE  /\ Len(Activities(h)) = Len(Activities(g)) + Len(FreshIds(h, st))
         /\ Len(FreshIds(h, st)) \in Nat
         /\ \A k \in 1..Len(Activities(g)) : Activities(h)[k] = Activities(g)[k]
         /\ \A k \in 1..Len(FreshIds(h, st)) :
              Activities(h)[Len(Activities(g)) + k] = FreshIds(h, st)[k]
<1> DEFINE S == ActivityIds(h)
           T == InSuffix(h, st, {"ActivityScheduled"})
           m == Len(g)
           n == Len(h)
<1>1. /\ \A k \in 1..m : k \notin T
      /\ \A k \in (m + 1)..n : k \in T <=> k \in S
      /\ \A k \in 1..m : k \in S <=> k \in ActivityIds(g)
  BY DEF InSuffix, Suffix, ActivityIds, HasPrefix
<1>2. m <= n /\ m \in Nat /\ n \in Nat
  BY DEF HasPrefix
<1> HIDE DEF S, T, m, n
<1>3. InOrder(S, n) = InOrder(S, m) \o InOrder(T, n)
  <2>1. m \in Nat /\ n \in Nat /\ m <= n
    BY <1>2
  <2>2. \A k \in 1..m : k \notin T
    BY <1>1
  <2>3. \A k \in (m + 1)..n : k \in T <=> k \in S
    BY <1>1
  <2> QED
    <3>1. Splits(S, T, m, n)
      BY <2>1, <2>2, <2>3, InOrderSplits
    <3> QED
      BY <3>1 DEF Splits
<1>4. InOrder(S, m) = InOrder(ActivityIds(g), m)
  BY <1>1, <1>2, InOrderAgrees
<1>5. Activities(h) = Activities(g) \o FreshIds(h, st)
  BY <1>3, <1>4 DEF Activities, FreshIds, S, T, m, n
<1> USE DEF m, n
<1>6. IsList(Activities(g)) /\ IsList(FreshIds(h, st)) /\ Len(FreshIds(h, st)) \in Nat
  <2>1. st.watermark \in Nat
    BY <1>2
  <2> QED
    BY <2>1, ActivitiesList, FreshIdsList DEF IsList
<1> QED
  BY <1>5, <1>6, ListConcat

LEMMA SignalsGrow ==
  ASSUME NEW g, Len(g) \in Nat, NEW h, Len(h) \in Nat, HasPrefix(h, g), NEW name
  PROVE  /\ Len(SignalsNamed(g, name)) <= Len(SignalsNamed(h, name))
         /\ \A k \in 1..Len(SignalsNamed(g, name)) :
              /\ SignalsNamed(h, name)[k] = SignalsNamed(g, name)[k]
              /\ SignalsNamed(g, name)[k] \in 1..Len(g)
<1> DEFINE S == SignalIds(h, name)
           T == S \ 1..Len(g)
           m == Len(g)
           n == Len(h)
           q == SignalsNamed(g, name)
           r == InOrder(T, n)
<1>1. \A k \in 1..m : k \in S <=> k \in SignalIds(g, name)
  BY DEF SignalIds, HasPrefix
<1>2. m <= n /\ m \in Nat /\ n \in Nat
  BY DEF HasPrefix
<1>t. (\A k \in 1..m : k \notin T) /\ \A k \in (m + 1)..n : k \in T <=> k \in S
  BY <1>2
<1> HIDE DEF S, T, m, n
<1>3. InOrder(S, n) = InOrder(S, m) \o InOrder(T, n)
  <2>1. m \in Nat /\ n \in Nat /\ m <= n
    BY <1>2
  <2>2. \A k \in 1..m : k \notin T
    BY <1>t
  <2>3. \A k \in (m + 1)..n : k \in T <=> k \in S
    BY <1>t
  <2> QED
    <3>1. Splits(S, T, m, n)
      BY <2>1, <2>2, <2>3, InOrderSplits
    <3> QED
      BY <3>1 DEF Splits
<1>4. InOrder(S, m) = InOrder(SignalIds(g, name), m)
  BY <1>1, <1>2, InOrderAgrees
<1>5. SignalsNamed(h, name) = q \o r
  BY <1>3, <1>4 DEF SignalsNamed, S, m, n
<1> USE DEF m, n
<1>6. Lists(q, SignalIds(g, name), m) /\ Lists(r, T, n)
  BY <1>2, InOrderLists DEF SignalsNamed
<1> HIDE DEF q, r
<1>7. q \in Seq(Nat) /\ r \in Seq(Nat) /\ \A k \in 1..Len(q) : q[k] \in 1..m
  BY <1>6 DEF Lists
<1>8. IsList(q) /\ IsList(r) /\ Len(q) \in Nat /\ Len(r) \in Nat
  BY <1>7, SeqIsList DEF IsList
<1>9. Len(q \o r) = Len(q) + Len(r) /\ \A k \in 1..Len(q) : (q \o r)[k] = q[k]
  BY <1>8, ListConcat
<1> QED
  BY <1>5, <1>7, <1>8, <1>9 DEF q

-----------------------------------------------------------------------------
(* How activities end in a longer history.                                 *)

LEMMA EndsStay ==
  ASSUME NEW g, Regular(g), NEW h, Regular(h), HasPrefix(h, g), NEW fr, IsFresh(fr), NEW id,
         EndsIn(g, fr, id) # {}
  PROVE  /\ EndsIn(h, fr, id) # {}
         /\ StatusIn(h, fr, id) = StatusIn(g, fr, id)
         /\ ValueIn(h, fr, id) = ValueIn(g, fr, id)
<1> DEFINE E == EndsIn(g, fr, id)
           F == EndsIn(h, fr, id)
<1>0. Len(g) \in Nat /\ Len(h) \in Nat /\ Len(g) <= Len(h)
  BY DEF Regular, IsList, HasPrefix
<1>1. /\ E = {e \in 1..Len(g) : g[e].type = "ActivityCompleted" /\ g[e].ref = id}
      /\ F = {e \in 1..Len(h) : h[e].type = "ActivityCompleted" /\ h[e].ref = id}
  BY <1>0 DEF EndsIn, InSuffix, Suffix, IsFresh, Regular, ActivityEnds
<1>2. E \subseteq F
  BY <1>0, <1>1 DEF HasPrefix
<1>3. \A e, x \in F : e = x
  BY <1>1 DEF Regular
<1>4. E = F
  BY <1>2, <1>3
<1>5. E \subseteq 1..Len(g) /\ E # {}
  BY <1>1
<1> HIDE DEF E, F
<1>6. Max(E) \in 1..Len(g)
  BY <1>0, <1>5, MaxIsIn
<1>7. LastEnd(h, fr, id) = LastEnd(g, fr, id)
  <2>1. h[Max(E)] = g[Max(E)]
    BY <1>6 DEF HasPrefix
  <2> QED
    BY <1>4, <2>1 DEF LastEnd, E, F
<1> QED
  BY <1>4, <1>5, <1>7 DEF StatusIn, ValueIn, E, F

\* An activity that had not ended below the watermark ends past it, or not at all.
LEMMA EndsPast ==
  ASSUME NEW h, Regular(h), NEW fr, IsFresh(fr), NEW st, st.watermark \in Nat, NEW id,
         \A e \in EndsIn(h, fr, id) : e > st.watermark
  PROVE  /\ StatusIn(h, st, id) = StatusIn(h, fr, id)
         /\ ValueIn(h, st, id) = ValueIn(h, fr, id)
<1>1. EndsIn(h, st, id) = EndsIn(h, fr, id)
  BY DEF EndsIn, InSuffix, Suffix, IsFresh, Regular, IsList
<1> QED
  BY <1>1 DEF StatusIn, ValueIn, LastEnd

-----------------------------------------------------------------------------
(* What the two walks read of one history.                                 *)

RecordOf(h, fr, k) == FreshRecord(h, fr, Activities(h)[k])

LEMMA RecordOfIs ==
  ASSUME NEW h, NEW fr, NEW k
  PROVE  /\ RecordOf(h, fr, k).sched = Activities(h)[k]
         /\ RecordOf(h, fr, k).name = h[Activities(h)[k]].name
         /\ ~ RecordOf(h, fr, k).counted
         /\ RecordOf(h, fr, k).status = StatusIn(h, fr, Activities(h)[k])
         /\ RecordOf(h, fr, k).value = ValueIn(h, fr, Activities(h)[k])
         /\ RecordOf(h, fr, k) =
              [sched |-> Activities(h)[k], name |-> h[Activities(h)[k]].name,
               counted |-> FALSE, status |-> StatusIn(h, fr, Activities(h)[k]),
               value |-> ValueIn(h, fr, Activities(h)[k])]
  BY FreshRecordIs DEF RecordOf

LEMMA ScratchRecords ==
  ASSUME NEW h, Len(h) \in Nat, NEW fr, IsFresh(fr)
  PROVE  /\ RunFrom(h, fr).records = ActRecords(h, fr)
         /\ Len(ActRecords(h, fr)) = Len(Activities(h))
         /\ Len(Activities(h)) \in Nat
         /\ \A k \in 1..Len(Activities(h)) : ActRecords(h, fr)[k] = RecordOf(h, fr, k)
<1>1. /\ Restored(fr) = 0 /\ fr.watermark \in Nat
      /\ FreshIds(h, fr) = Activities(h)
  BY FreshIdsAreAll DEF IsFresh, Restored
<1>2. /\ Len(ActRecords(h, fr)) = Restored(fr) + Len(FreshIds(h, fr))
      /\ Len(FreshIds(h, fr)) \in Nat
  BY <1>1, ActRecordsAre
<1>3. \A k \in 1..Len(FreshIds(h, fr)) :
        ActRecords(h, fr)[Restored(fr) + k] = FreshRecord(h, fr, FreshIds(h, fr)[k])
  <2>1. fr.watermark \in Nat
    BY <1>1
  <2> QED
    BY <2>1, ActRecordsAre
<1>4. ASSUME NEW k \in 1..Len(Activities(h))
      PROVE  ActRecords(h, fr)[k] = RecordOf(h, fr, k)
  <2>1. Restored(fr) + k = k
    BY <1>1, <1>2
  <2> QED
    BY <1>1, <1>3, <2>1 DEF RecordOf
<1> QED
  BY <1>1, <1>2, <1>4 DEF RunFrom

LEMMA RunIsScratch ==
  ASSUME NEW h, Regular(h), NEW fr, IsFresh(fr), IsPrior(fr)
  PROVE  IsScratchRun(RunFrom(h, fr))
<1>0. Len(h) \in Nat /\ NeverClosed(h)
  BY DEF Regular, IsList
<1>1. IsOpenRun(RunFrom(h, fr))
  BY <1>0, RunIsOpen
<1>2. ASSUME NEW k \in 1..Len(RunFrom(h, fr).records)
      PROVE  ~ RunFrom(h, fr).records[k].counted
  <2>1. /\ RunFrom(h, fr).records = ActRecords(h, fr)
        /\ Len(ActRecords(h, fr)) = Len(Activities(h))
        /\ \A i \in 1..Len(Activities(h)) : ActRecords(h, fr)[i] = RecordOf(h, fr, i)
    BY <1>0, ScratchRecords
  <2>2. RunFrom(h, fr).records[k] = RecordOf(h, fr, k)
    BY <2>1
  <2> QED
    BY <2>2, RecordOfIs
<1>3. RunFrom(h, fr).base = EmptyMap
  BY DEF RunFrom, SignalBase, IsFresh
<1> QED
  BY <1>1, <1>2, <1>3 DEF IsScratchRun

LEMMA RunExtends ==
  ASSUME NEW g, Regular(g), NEW h, Regular(h), HasPrefix(h, g), NEW fr, IsFresh(fr)
  PROVE  Extends(RunFrom(g, fr), RunFrom(h, fr))
<1> DEFINE run == RunFrom(g, fr)
           ext == RunFrom(h, fr)
<1>0. Len(g) \in Nat /\ Len(h) \in Nat
  BY DEF Regular, IsList
<1>1. /\ run.history = g /\ ext.history = h
      /\ run.base = fr.consumed /\ ext.base = fr.consumed
      /\ run.records = ActRecords(g, fr) /\ ext.records = ActRecords(h, fr)
  BY DEF RunFrom, SignalBase
<1>2. /\ Len(run.records) = Len(Activities(g)) /\ Len(ext.records) = Len(Activities(h))
      /\ \A k \in 1..Len(Activities(g)) : run.records[k] = RecordOf(g, fr, k)
      /\ \A k \in 1..Len(Activities(h)) : ext.records[k] = RecordOf(h, fr, k)
  BY <1>0, ScratchRecords
<1> DEFINE st == [watermark |-> Len(g)]
<1>3. /\ Len(Activities(h)) = Len(Activities(g)) + Len(FreshIds(h, st))
      /\ Len(FreshIds(h, st)) \in Nat /\ Len(Activities(g)) \in Nat
      /\ \A k \in 1..Len(Activities(g)) : Activities(h)[k] = Activities(g)[k]
  <2>1. st.watermark = Len(g)
    OBVIOUS
  <2> HIDE DEF st
  <2> QED
    BY <1>0, <2>1, ActivitiesGrow, ActivitiesList
<1> HIDE DEF st, run, ext
<1>4. Len(run.records) <= Len(ext.records)
  BY <1>2, <1>3
<1>5. ASSUME NEW k \in 1..Len(run.records)
      PROVE  /\ ext.records[k].name = run.records[k].name
             /\ run.records[k].status # "InFlight" => ext.records[k] = run.records[k]
  <2>1. /\ k \in 1..Len(Activities(g)) /\ k \in 1..Len(Activities(h))
        /\ Activities(h)[k] = Activities(g)[k]
        /\ run.records[k] = RecordOf(g, fr, k) /\ ext.records[k] = RecordOf(h, fr, k)
    BY <1>2, <1>3
  <2>2. h[Activities(g)[k]] = g[Activities(g)[k]]
    <3>1. Activities(g)[k] \in 1..Len(g)
      BY <1>0, <2>1, ActivitiesList DEF ActivityIds
    <3> QED
      BY <3>1 DEF HasPrefix
  <2>3. ext.records[k].name = run.records[k].name
    BY <2>1, <2>2, RecordOfIs
  <2>4. ASSUME run.records[k].status # "InFlight"
        PROVE  ext.records[k] = run.records[k]
    <3>1. EndsIn(g, fr, Activities(g)[k]) # {}
      BY <2>1, <2>4, RecordOfIs DEF StatusIn
    <3>2. /\ StatusIn(h, fr, Activities(g)[k]) = StatusIn(g, fr, Activities(g)[k])
          /\ ValueIn(h, fr, Activities(g)[k]) = ValueIn(g, fr, Activities(g)[k])
      BY <3>1, EndsStay
    <3>3. RecordOf(g, fr, k) =
            [sched |-> Activities(g)[k], name |-> g[Activities(g)[k]].name,
             counted |-> FALSE, status |-> StatusIn(g, fr, Activities(g)[k]),
             value |-> ValueIn(g, fr, Activities(g)[k])]
      BY RecordOfIs
    <3>4. RecordOf(h, fr, k) =
            [sched |-> Activities(h)[k], name |-> h[Activities(h)[k]].name,
             counted |-> FALSE, status |-> StatusIn(h, fr, Activities(h)[k]),
             value |-> ValueIn(h, fr, Activities(h)[k])]
      BY RecordOfIs
    <3> QED
      BY <2>1, <2>2, <3>2, <3>3, <3>4
  <2> QED
    BY <2>3, <2>4
<1>6. ASSUME NEW name
      PROVE  /\ Len(SignalsNamed(g, name)) <= Len(SignalsNamed(h, name))
             /\ \A k \in 1..Len(SignalsNamed(g, name)) :
                  h[SignalsNamed(h, name)[k]].value = g[SignalsNamed(g, name)[k]].value
  BY <1>0, SignalsGrow DEF HasPrefix
<1> QED
  BY <1>1, <1>4, <1>5, <1>6 DEF Extends, run, ext

\* The state has seen all of g: all of its activities but a last one, which is then
\* pending, have ended.
Covers(g, fr, st, off) ==
  /\ st.watermark = Len(g)
  /\ off \in Nat
  /\ \A k \in 1..off : EndsIn(g, fr, Activities(g)[k]) # {}
  /\ \/ st.pending = NoPending /\ off = Len(Activities(g))
     \/ /\ off + 1 = Len(Activities(g))
        /\ st.pending = [sched |-> Activities(g)[off + 1],
                         name |-> g[Activities(g)[off + 1]].name]
        /\ EndsIn(g, fr, Activities(g)[off + 1]) = {}

LEMMA RestoredIs ==
  ASSUME NEW g, Len(g) \in Nat, NEW fr, NEW st, NEW off, Covers(g, fr, st, off)
  PROVE  /\ Restored(st) \in {0, 1}
         /\ off + Restored(st) = Len(Activities(g))
         /\ Restored(st) = 1 =>
              /\ st.pending # NoPending
              /\ off + 1 \in 1..Len(Activities(g))
              /\ st.pending.sched = Activities(g)[off + 1]
              /\ st.pending.name = g[Activities(g)[off + 1]].name
              /\ EndsIn(g, fr, Activities(g)[off + 1]) = {}
<1>1. CASE st.pending = NoPending /\ off = Len(Activities(g))
  BY <1>1, ActivitiesList DEF Restored
<1>2. CASE /\ off + 1 = Len(Activities(g))
           /\ st.pending = [sched |-> Activities(g)[off + 1],
                            name |-> g[Activities(g)[off + 1]].name]
           /\ EndsIn(g, fr, Activities(g)[off + 1]) = {}
  <2>1. off + 1 \in 1..Len(Activities(g))
    BY <1>2 DEF Covers
  <2>2. Activities(g)[off + 1] \in 1..Len(g)
    BY <2>1, ActivitiesList DEF ActivityIds
  <2>3. /\ st.pending.sched = Activities(g)[off + 1]
        /\ st.pending.name = g[Activities(g)[off + 1]].name
        /\ st.pending.sched # 0
    BY <1>2, <2>2
  <2>4. st.pending # NoPending
    BY <2>3 DEF NoPending
  <2> QED
    BY <1>2, <2>1, <2>3, <2>4 DEF Restored
<1> QED
  BY <1>1, <1>2 DEF Covers

LEMMA RunBehind ==
  ASSUME NEW g, Regular(g), NEW h, Regular(h), HasPrefix(h, g), NEW fr, IsFresh(fr),
         NEW st, NEW off, Covers(g, fr, st, off)
  PROVE  Behind(RunFrom(h, fr), RunFrom(h, st), off, Restored(st))
<1> DEFINE run == RunFrom(h, fr)
           rest == RunFrom(h, st)
           K == Len(Activities(g))
           M == Len(FreshIds(h, st))
           f == Restored(st)
<1>0. Len(g) \in Nat /\ Len(h) \in Nat /\ st.watermark = Len(g) /\ off \in Nat
  BY DEF Regular, IsList, Covers
<1>1. /\ run.history = h /\ rest.history = h
      /\ run.records = ActRecords(h, fr) /\ rest.records = ActRecords(h, st)
  BY DEF RunFrom
<1>2. /\ Len(run.records) = Len(Activities(h))
      /\ \A k \in 1..Len(Activities(h)) : run.records[k] = RecordOf(h, fr, k)
  BY <1>0, <1>1, ScratchRecords
<1>3. /\ Len(rest.records) = f + M /\ M \in Nat
      /\ st.pending # NoPending => rest.records[1] = PendingRecord(h, st)
      /\ \A k \in 1..M : rest.records[f + k] = FreshRecord(h, st, FreshIds(h, st)[k])
  <2>1. Len(rest.records) = f + M /\ M \in Nat
    BY <1>0, <1>1, ActRecordsAre
  <2>2. st.pending # NoPending => rest.records[1] = PendingRecord(h, st)
    BY <1>0, <1>1, ActRecordsAre
  <2>3. \A k \in 1..M : rest.records[f + k] = FreshRecord(h, st, FreshIds(h, st)[k])
    BY <1>0, <1>1, ActRecordsAre
  <2> QED
    BY <2>1, <2>2, <2>3
<1>4. /\ f \in {0, 1} /\ off + f = K
      /\ f = 1 => /\ st.pending # NoPending
                  /\ off + 1 \in 1..K
                  /\ st.pending.sched = Activities(g)[off + 1]
                  /\ st.pending.name = g[Activities(g)[off + 1]].name
                  /\ EndsIn(g, fr, Activities(g)[off + 1]) = {}
  BY <1>0, RestoredIs
<1>5. /\ Len(Activities(h)) = K + M /\ K \in Nat
      /\ \A k \in 1..K : Activities(h)[k] = Activities(g)[k]
      /\ \A k \in 1..M : Activities(h)[K + k] = FreshIds(h, st)[k]
  BY <1>0, ActivitiesGrow, ActivitiesList
<1> HIDE DEF run, rest, K, M, f
<1>6. \A k \in 1..Len(run.records) : ~ run.records[k].counted
  BY <1>2, RecordOfIs
<1>7. ASSUME f = 1
      PROVE  SameRecord(run.records[off + 1], rest.records[1]) /\ rest.records[1].counted
  <2> DEFINE id == Activities(g)[off + 1]
  <2>1. /\ rest.records[1] = PendingRecord(h, st) /\ off + 1 \in 1..K
        /\ st.pending.sched = id /\ st.pending.name = g[id].name
        /\ EndsIn(g, fr, id) = {}
    BY <1>3, <1>4, <1>7
  <2>2. id \in 1..Len(g)
    BY <1>0, <2>1, ActivitiesList DEF ActivityIds, K
  <2>3. h[id] = g[id]
    BY <2>2 DEF HasPrefix
  <2>4. run.records[off + 1] = RecordOf(h, fr, off + 1) /\ Activities(h)[off + 1] = id
    BY <1>0, <1>2, <1>3, <1>5, <2>1
  <2> HIDE DEF id
  <2>5. ASSUME NEW e \in EndsIn(h, fr, id) PROVE e > st.watermark
    <3>1. /\ e \in 1..Len(h) /\ h[e].type \in ActivityEnds /\ h[e].ref = id
      BY DEF EndsIn, InSuffix, Suffix, IsFresh
    <3>2. ASSUME e \in 1..Len(g) PROVE FALSE
      <4>1. g[e] = h[e]
        BY <3>2 DEF HasPrefix
      <4>2. e \in EndsIn(g, fr, id)
        BY <1>0, <3>1, <3>2, <4>1 DEF EndsIn, InSuffix, Suffix, IsFresh
      <4> QED
        BY <2>1, <4>2
    <3> QED
      BY <1>0, <3>1, <3>2
  <2>6. /\ StatusIn(h, st, id) = StatusIn(h, fr, id) /\ ValueIn(h, st, id) = ValueIn(h, fr, id)
    <3>1. \A e \in EndsIn(h, fr, id) : e > st.watermark
      BY <2>5
    <3> QED
      BY <1>0, <3>1, EndsPast
  <2>7. /\ rest.records[1].sched = id /\ rest.records[1].name = g[id].name
        /\ rest.records[1].counted /\ rest.records[1].status = StatusIn(h, st, id)
        /\ rest.records[1].value = ValueIn(h, st, id)
    BY <2>1, PendingRecordIs
  <2>8. /\ run.records[off + 1].sched = id /\ run.records[off + 1].name = h[id].name
        /\ run.records[off + 1].status = StatusIn(h, fr, id)
        /\ run.records[off + 1].value = ValueIn(h, fr, id)
    BY <2>4, RecordOfIs
  <2> QED
    BY <2>3, <2>6, <2>7, <2>8 DEF SameRecord
<1>8. ASSUME NEW k \in 1..M
      PROVE  SameRecord(run.records[K + k], rest.records[f + k])
             /\ ~ rest.records[f + k].counted
  <2> DEFINE id == FreshIds(h, st)[k]
  <2>1. /\ rest.records[f + k] = FreshRecord(h, st, id)
        /\ Activities(h)[K + k] = id
        /\ run.records[K + k] = RecordOf(h, fr, K + k)
    <3>1. K + k \in 1..Len(Activities(h))
      BY <1>3, <1>5
    <3> QED
      BY <1>2, <1>3, <1>5, <3>1
  <2>2. id > st.watermark
    <3>1. st.watermark \in Nat
      BY <1>0
    <3>2. id \in (st.watermark + 1)..Len(h)
      BY <1>0, <3>1, FreshIdsList DEF M
    <3> QED
      BY <1>0, <3>1, <3>2
  <2> HIDE DEF id
  <2>3. ASSUME NEW e \in EndsIn(h, fr, id) PROVE e > st.watermark
    <3>1. /\ e \in 1..Len(h) /\ h[e].type \in ActivityEnds /\ h[e].ref = id
      BY DEF EndsIn, InSuffix, Suffix, IsFresh
    <3>2. id \in 1..(e - 1)
      BY <3>1 DEF Regular, ActivityEnds
    <3> QED
      BY <1>0, <2>2, <3>1, <3>2
  <2>4. /\ StatusIn(h, st, id) = StatusIn(h, fr, id) /\ ValueIn(h, st, id) = ValueIn(h, fr, id)
    <3>1. \A e \in EndsIn(h, fr, id) : e > st.watermark
      BY <2>3
    <3> QED
      BY <1>0, <3>1, EndsPast
  <2>5. /\ rest.records[f + k].sched = id /\ rest.records[f + k].name = h[id].name
        /\ ~ rest.records[f + k].counted /\ rest.records[f + k].status = StatusIn(h, st, id)
        /\ rest.records[f + k].value = ValueIn(h, st, id)
    BY <2>1, FreshRecordIs
  <2>6. /\ run.records[K + k].sched = id /\ run.records[K + k].name = h[id].name
        /\ run.records[K + k].status = StatusIn(h, fr, id)
        /\ run.records[K + k].value = ValueIn(h, fr, id)
    BY <2>1, RecordOfIs
  <2> QED
    BY <2>4, <2>5, <2>6 DEF SameRecord
<1>9. ASSUME NEW k \in 1..Len(rest.records)
      PROVE  /\ SameRecord(run.records[off + k], rest.records[k])
             /\ rest.records[k].counted <=> k <= f
  <2>1. CASE k <= f
    <3>1. k = 1 /\ f = 1
      BY <1>3, <1>4, <2>1
    <3> QED
      BY <1>7, <2>1, <3>1
  <2>2. CASE ~ (k <= f)
    <3>1. k - f \in 1..M /\ f + (k - f) = k /\ K + (k - f) = off + k
      BY <1>0, <1>3, <1>4, <1>5, <2>2
    <3> QED
      BY <1>8, <2>2, <3>1
  <2> QED
    BY <2>1, <2>2
<1>10. Len(run.records) = Len(rest.records) + off /\ f <= Len(rest.records)
  BY <1>0, <1>2, <1>3, <1>4, <1>5
<1>11. Behind(run, rest, off, f)
  BY <1>0, <1>1, <1>4, <1>6, <1>9, <1>10 DEF Behind
<1> QED
  BY <1>11 DEF run, rest, f

-----------------------------------------------------------------------------
(* A walk from nothing over a history the run has made.                    *)

ScratchRun(spec, h) == RunFrom(h, FreshState(spec))

IsScratchWalk(w, spec, h) == IsWalkFrom(w, spec, h, FreshState(spec))

LEMMA FreshStateIs ==
  ASSUME NEW spec
  PROVE  IsFresh(FreshState(spec)) /\ IsPrior(FreshState(spec))
  BY DEF FreshState, IsFresh, IsPrior, EmptyMap

LEMMA ScratchContexts ==
  ASSUME NEW spec, Len(spec) \in Nat, NEW h, Regular(h), NEW w, IsScratchWalk(w, spec, h)
  PROVE  /\ IsScratchRun(ScratchRun(spec, h)) /\ IsOpenRun(ScratchRun(spec, h))
         /\ IsCtx(StartFrom(h, FreshState(spec)))
         /\ IsWalk(w, spec, ScratchRun(spec, h), StartFrom(h, FreshState(spec)))
         /\ \A i \in 0..Len(spec) : IsCtx(w[i]) /\ Scratch(ScratchRun(spec, h), w[i])
         /\ \A i \in 1..Len(spec) : StepTakes(spec, ScratchRun(spec, h), w[i - 1], w[i], i)
<1> DEFINE run == ScratchRun(spec, h)
           ctx0 == StartFrom(h, FreshState(spec))
<1>1. IsFresh(FreshState(spec)) /\ IsPrior(FreshState(spec))
  BY FreshStateIs
<1>2. IsScratchRun(run)
  BY <1>1, RunIsScratch DEF ScratchRun
<1>3. IsOpenRun(run) /\ Len(run.records) \in Nat
  BY <1>2 DEF IsScratchRun, IsOpenRun
<1>4. IsCtx(ctx0)
  BY <1>1, StartIsCtx DEF IsPrior
<1>5. IsWalk(w, spec, run, ctx0)
  BY DEF IsScratchWalk, IsWalkFrom, ScratchRun
<1>6. Scratch(run, ctx0)
  <2>1. /\ ctx0.cursor = 0 /\ ctx0.nextSeq = 1 /\ ctx0.consumed = EmptyMap
        /\ ctx0.claim = EmptyMap /\ ctx0.pending = NoPending /\ ctx0.commands = << >>
        /\ ctx0.waiting = Nothing
    BY DEF StartFrom, FreshState
  <2> HIDE DEF run, ctx0
  <2> QED
    BY <1>3, <2>1 DEF Scratch
<1> HIDE DEF run, ctx0
<1>7. \A i \in 0..Len(spec) : IsCtx(w[i])
  BY <1>3, <1>4, <1>5, WalkGoes
<1>8. \A i \in 1..Len(spec) : StepTakes(spec, run, w[i - 1], w[i], i)
  BY <1>3, <1>4, <1>5, WalkGoes
<1>9. \A i \in 0..Len(spec) : Scratch(run, w[i])
  BY <1>2, <1>4, <1>5, <1>6, ScratchWalk
<1> QED
  BY <1>2, <1>3, <1>4, <1>5, <1>7, <1>8, <1>9 DEF run, ctx0

\* The context after i steps has claimed every record, or stands before the last.
AtEnd(spec, run, c, i) ==
  /\ c.outcome = "Continue"
  /\ \/ c.cursor = Len(run.records)
     \/ /\ i + 1 \in 1..Len(spec)
        /\ c.at = i + 1
        /\ c.cursor + 1 = Len(run.records)
        /\ AtRecord(spec[i + 1], run, c)

\* The run has scheduled nothing that the walk does not come to.
Reached(spec, h) ==
  \A w : IsScratchWalk(w, spec, h) =>
    \E i \in 0..Len(spec) : AtEnd(spec, ScratchRun(spec, h), w[i], i)

LEMMA NeverFailed ==
  ASSUME NEW h, Regular(h), NEW spec, NEW k \in 1..Len(ScratchRun(spec, h).records)
  PROVE  ScratchRun(spec, h).records[k].status # "ActivityFailed"
<1> DEFINE fr == FreshState(spec)
           id == Activities(h)[k]
<1>0. Len(h) \in Nat
  BY DEF Regular, IsList
<1>1. IsFresh(fr)
  BY FreshStateIs
<1> HIDE DEF fr
<1>2. /\ RunFrom(h, fr).records = ActRecords(h, fr)
      /\ Len(ActRecords(h, fr)) = Len(Activities(h))
      /\ \A i \in 1..Len(Activities(h)) : ActRecords(h, fr)[i] = RecordOf(h, fr, i)
  BY <1>0, <1>1, ScratchRecords
<1>3. ScratchRun(spec, h).records[k] = RecordOf(h, fr, k)
  BY <1>2 DEF ScratchRun, fr
<1>4. ScratchRun(spec, h).records[k].status = StatusIn(h, fr, id)
  BY <1>3, RecordOfIs
<1> HIDE DEF id
<1>5. StatusIn(h, fr, id) # "ActivityFailed"
  <2>1. CASE EndsIn(h, fr, id) = {}
    BY <2>1 DEF StatusIn
  <2>2. CASE EndsIn(h, fr, id) # {}
    <3>1. EndsIn(h, fr, id) \subseteq 1..Len(h)
      BY <1>1 DEF EndsIn, InSuffix, Suffix, IsFresh
    <3>2. Max(EndsIn(h, fr, id)) \in 1..Len(h)
      BY <1>0, <2>2, <3>1, MaxIsIn
    <3> QED
      BY <2>2, <3>2 DEF StatusIn, LastEnd, Regular
  <2> QED
    BY <2>1, <2>2
<1> QED
  BY <1>4, <1>5

\* Where it stops, the step d makes of c changes no binding and no claim; and it
\* stops with every record claimed, or waiting for the last.
StopsAtEnd(step, run, c, d) ==
  /\ d.results = c.results /\ d.input = c.input /\ d.consumed = c.consumed
  /\ \/ /\ c.cursor = Len(run.records)
        /\ d.pending = NoPending /\ d.nextSeq = c.nextSeq
     \/ c.cursor + 1 = Len(run.records) /\ Awaits(step, run, c, d)

LEMMA ScratchStops ==
  ASSUME NEW spec, Len(spec) \in Nat, NEW h, Regular(h), NEW w, IsScratchWalk(w, spec, h),
         Reached(spec, h), NEW p \in 1..Len(spec),
         \A i \in 0..(p - 1) : w[i].outcome = "Continue",
         w[p - 1].at = p, w[p].outcome = "Stop"
  PROVE  StopsAtEnd(spec[p], ScratchRun(spec, h), w[p - 1], w[p])
<1> DEFINE run == ScratchRun(spec, h)
           ctx0 == StartFrom(h, FreshState(spec))
           K == Len(run.records)
           c == w[p - 1]
           d == w[p]
<1>0. /\ IsScratchRun(run) /\ IsOpenRun(run) /\ IsCtx(ctx0) /\ IsWalk(w, spec, run, ctx0)
      /\ \A i \in 0..Len(spec) : IsCtx(w[i]) /\ Scratch(run, w[i])
      /\ \A i \in 1..Len(spec) : StepTakes(spec, run, w[i - 1], w[i], i)
  BY ScratchContexts
<1>1. PICK i \in 0..Len(spec) : AtEnd(spec, run, w[i], i)
  BY DEF Reached
<1>n. \A k \in 1..K : run.records[k].status # "ActivityFailed"
  BY NeverFailed
<1> HIDE DEF run, ctx0
<1>2. i \in 0..(p - 1)
  <2>1. CASE i >= p
    <3>1. p \in 0..Len(spec) /\ p \in 0..i
      BY <2>1
    <3>2. w[p].outcome = "Continue"
      BY <1>0, <1>1, <3>1, WalkGoesOn DEF AtEnd
    <3> QED
      BY <3>2
  <2> QED
    BY <2>1
<1>3. /\ p - 1 \in 0..Len(spec) /\ p - 1 \in i..Len(spec) /\ p \in 0..Len(spec)
      /\ c.outcome = "Continue"
  BY <1>2
<1>4. IsCtx(c) /\ Scratch(run, c) /\ StepMakes(spec[p], run, c, d)
  BY <1>0, <1>3 DEF StepTakes
<1>5. /\ K \in Nat /\ c.cursor \in Nat /\ c.cursor <= K /\ c.pending = NoPending
  BY <1>0, <1>3, <1>4 DEF IsOpenRun, IsCtx, Scratch
<1>6. CASE c.cursor = K
  <2>1. ~ (c.cursor < Len(run.records))
    BY <1>5, <1>6
  <2>2. \/ Schedules(spec[p], run, c, d) \/ Waits(spec[p], run, c, d)
        \/ Completes(spec[p], c, d)
    BY <1>3, <1>4, <2>1 DEF StepMakes, Passes, Takes, Awaits, Fails, TakesSignal, Branches,
       Errs, AtRecord, SameBut, CtxFields
  <2>3. /\ d.results = c.results /\ d.input = c.input /\ d.consumed = c.consumed
        /\ d.pending = c.pending /\ d.nextSeq = c.nextSeq
    BY <2>2 DEF Schedules, Waits, Completes, SameBut, CtxFields
  <2> QED
    BY <1>5, <1>6, <2>3 DEF StopsAtEnd, run
<1>7. CASE c.cursor # K
  <2>1. GrowsTo(w[i], c) /\ IsCtx(w[i])
    BY <1>0, <1>3, WalkGrows
  <2>2. w[i].cursor # K
    BY <1>5, <1>7, <2>1 DEF GrowsTo, IsCtx
  <2>3. /\ i + 1 \in 1..Len(spec) /\ w[i].at = i + 1 /\ w[i].cursor + 1 = K
        /\ w[i].outcome = "Continue" /\ AtRecord(spec[i + 1], run, w[i])
    BY <1>1, <2>2 DEF AtEnd
  <2>4. CASE i = p - 1
    <3>1. c.cursor + 1 = K /\ AtRecord(spec[p], run, c)
      BY <2>3, <2>4
    <3>2. NextRecord(run, c).status # "ActivityFailed"
      BY <1>5, <1>n, <3>1 DEF NextRecord
    <3>3. Awaits(spec[p], run, c, d)
      <4>1. c.cursor < Len(run.records) /\ ~ (c.cursor >= Len(run.records))
        BY <1>5, <1>7
      <4> QED
        BY <1>3, <1>4, <3>1, <3>2, <4>1 DEF StepMakes, Passes, Takes, Fails, Schedules,
           TakesSignal, Waits, Branches, Completes, Errs, AtRecord, AtActivity, AtWait,
           IsBinding, SameBut, CtxFields
    <3>4. d.results = c.results /\ d.input = c.input /\ d.consumed = c.consumed
      BY <3>3 DEF Awaits, SameBut, CtxFields
    <3> QED
      BY <3>1, <3>3, <3>4 DEF StopsAtEnd, run
  <2>5. CASE i # p - 1
    <3>1. i + 1 \in 0..(p - 1) /\ p - 1 \in (i + 1)..Len(spec) /\ i + 1 \in 0..Len(spec)
          /\ (i + 1) - 1 = i
      BY <1>2, <2>5
    <3>2. w[i + 1].outcome = "Continue"
      BY <3>1
    <3>3. StepMakes(spec[i + 1], run, w[i], w[i + 1])
      BY <1>0, <2>3, <3>1 DEF StepTakes
    <3>4. ~ (w[i].cursor >= Len(run.records))
      BY <1>5, <2>1, <2>3 DEF IsCtx
    <3>5. w[i + 1].cursor = w[i].cursor + 1
      BY <2>3, <3>2, <3>3, <3>4 DEF StepMakes, Passes, Takes, Awaits, Fails, Schedules,
         TakesSignal, Waits, Branches, Completes, Errs, AtRecord, AtActivity, AtWait, IsBinding
    <3>6. GrowsTo(w[i + 1], c)
      BY <1>0, <3>1, WalkGrows
    <3>7. K <= c.cursor
      BY <2>3, <3>5, <3>6 DEF GrowsTo
    <3> QED
      BY <1>5, <1>7, <3>7
  <2> QED
    BY <2>4, <2>5
<1> QED
  BY <1>6, <1>7 DEF run

LEMMA StopCovers ==
  ASSUME NEW spec, Len(spec) \in Nat, NEW h, Regular(h), NEW w, IsScratchWalk(w, spec, h),
         NEW p \in 1..Len(spec), w[p - 1].outcome = "Continue",
         StopsAtEnd(spec[p], ScratchRun(spec, h), w[p - 1], w[p]),
         NEW st, st.watermark = Len(h), st.pending = w[p].pending
  PROVE  Covers(h, FreshState(spec), st, w[p - 1].cursor)
<1> DEFINE run == ScratchRun(spec, h)
           fr == FreshState(spec)
           c == w[p - 1]
           d == w[p]
           n == Len(Activities(h))
<1>0. Len(h) \in Nat /\ IsFresh(fr)
  BY FreshStateIs DEF Regular, IsList
<1>1. p - 1 \in 0..Len(spec)
  OBVIOUS
<1>2. IsCtx(c) /\ Scratch(run, c)
  BY <1>1, ScratchContexts
<1> HIDE DEF fr
<1>3. /\ run.records = ActRecords(h, fr) /\ Len(run.records) = n /\ n \in Nat
      /\ \A k \in 1..n : run.records[k] = RecordOf(h, fr, k)
  BY <1>0, ScratchRecords DEF ScratchRun, fr
<1> HIDE DEF run
<1>4. /\ c.cursor \in Nat /\ c.cursor <= n
      /\ \A k \in 1..c.cursor : run.records[k].status = "ActivityCompleted"
  BY <1>2, <1>3 DEF IsCtx, Scratch
<1>5. ASSUME NEW k \in 1..c.cursor PROVE EndsIn(h, fr, Activities(h)[k]) # {}
  <2>1. k \in 1..n /\ run.records[k].status = "ActivityCompleted"
    BY <1>3, <1>4
  <2>2. StatusIn(h, fr, Activities(h)[k]) = "ActivityCompleted"
    BY <1>3, <2>1, RecordOfIs
  <2> QED
    BY <2>2 DEF StatusIn
<1>6. CASE c.cursor = Len(run.records) /\ d.pending = NoPending
  BY <1>3, <1>4, <1>5, <1>6 DEF Covers, fr
<1>7. CASE c.cursor + 1 = Len(run.records) /\ Awaits(spec[p], run, c, d)
  <2>1. c.cursor + 1 \in 1..n
    BY <1>3, <1>4, <1>7
  <2>2. NextRecord(run, c) = RecordOf(h, fr, c.cursor + 1)
    BY <1>3, <2>1 DEF NextRecord
  <2>3. /\ NextRecord(run, c).sched = Activities(h)[c.cursor + 1]
        /\ NextRecord(run, c).name = h[Activities(h)[c.cursor + 1]].name
        /\ NextRecord(run, c).status = StatusIn(h, fr, Activities(h)[c.cursor + 1])
    BY <2>2, RecordOfIs
  <2>4. EndsIn(h, fr, Activities(h)[c.cursor + 1]) = {}
    <3>1. fr.watermark \in Nat
      BY <1>0 DEF IsFresh
    <3>2. StatusIn(h, fr, Activities(h)[c.cursor + 1]) = "InFlight"
      BY <1>7, <2>3 DEF Awaits
    <3> QED
      BY <1>0, <3>1, <3>2, StatusIs
  <2>5. st.pending = [sched |-> Activities(h)[c.cursor + 1],
                      name |-> h[Activities(h)[c.cursor + 1]].name]
    BY <1>7, <2>3 DEF Awaits
  <2> QED
    BY <1>3, <1>4, <1>5, <1>7, <2>4, <2>5 DEF Covers, fr
<1> QED
  BY <1>6, <1>7 DEF StopsAtEnd, run

-----------------------------------------------------------------------------
(* Resuming is replaying.                                                  *)

LEMMA NothingDangles ==
  ASSUME NEW h, Regular(h), NEW fr, IsFresh(fr)
  PROVE  ~ DanglingEnd(h, fr)
  BY DEF DanglingEnd, InSuffix, Suffix, ActivityEnds, Regular, IsFresh, IsList

LEMMA NothingDanglesPast ==
  ASSUME NEW g, Regular(g), NEW h, Regular(h), HasPrefix(h, g), NEW fr, IsFresh(fr),
         NEW st, NEW off, Covers(g, fr, st, off)
  PROVE  ~ DanglingEnd(h, st)
<1>0. /\ Len(g) \in Nat /\ Len(h) \in Nat /\ Len(g) <= Len(h) /\ st.watermark = Len(g)
      /\ \A i \in 1..Len(g) : h[i] = g[i]
  BY DEF Regular, IsList, HasPrefix, Covers
<1> SUFFICES ASSUME NEW e \in InSuffix(h, st, ActivityEnds),
                    h[e].ref \notin InSuffix(h, st, {"ActivityScheduled"}) \cup {st.pending.sched}
             PROVE  FALSE
  BY DEF DanglingEnd
<1>1. /\ e \in (Len(g) + 1)..Len(h) /\ e \in 1..Len(h)
      /\ h[e].type = "ActivityCompleted"
      /\ h[e].ref \in 1..(e - 1) /\ h[h[e].ref].type = "ActivityScheduled"
  BY <1>0 DEF InSuffix, Suffix, ActivityEnds, Regular
<1>2. h[e].ref \in 1..Len(g)
  BY <1>0, <1>1 DEF InSuffix, Suffix
<1>3. h[e].ref \in ActivityIds(g)
  BY <1>0, <1>1, <1>2 DEF ActivityIds
<1>4. PICK k \in 1..Len(Activities(g)) : Activities(g)[k] = h[e].ref
  BY <1>0, <1>3, ActivitiesList
<1>5. k \in 1..off \/ st.pending.sched = h[e].ref
  <2>1. Len(Activities(g)) \in Nat
    BY <1>0, ActivitiesList
  <2>2. CASE st.pending = NoPending /\ off = Len(Activities(g))
    BY <2>2
  <2>3. CASE off + 1 = Len(Activities(g))
             /\ st.pending = [sched |-> Activities(g)[off + 1],
                              name |-> g[Activities(g)[off + 1]].name]
    BY <1>4, <2>1, <2>3 DEF Covers
  <2> QED
    BY <2>2, <2>3 DEF Covers
<1>6. EndsIn(g, fr, h[e].ref) # {}
  BY <1>4, <1>5 DEF Covers
<1>7. PICK x : x \in EndsIn(g, fr, h[e].ref)
  BY <1>6
<1>8. x \in 1..Len(g) /\ g[x].type \in ActivityEnds /\ g[x].ref = h[e].ref
  BY <1>7 DEF EndsIn, InSuffix, Suffix, IsFresh
<1>9. x \in 1..Len(h) /\ h[x].type = "ActivityCompleted" /\ h[x].ref = h[e].ref
  BY <1>0, <1>8 DEF ActivityEnds, Regular
<1> QED
  BY <1>0, <1>1, <1>8, <1>9 DEF Regular

\* The run is started once, so its input is the first event's.
LEMMA InputStays ==
  ASSUME NEW g, Regular(g), NEW h, Regular(h), HasPrefix(h, g), NEW fr, IsFresh(fr)
  PROVE  InputOf(h, fr) = InputOf(g, fr)
<1>0. /\ Len(g) \in Nat /\ Len(h) \in Nat /\ Len(g) >= 1 /\ Len(g) <= Len(h)
      /\ h[1] = g[1]
  BY DEF Regular, IsList, HasPrefix
<1>1. InSuffix(g, fr, {"Started"}) = {1} /\ InSuffix(h, fr, {"Started"}) = {1}
  BY <1>0 DEF InSuffix, Suffix, Regular, IsFresh
<1>2. Max({1}) = 1
  BY MaxIsIn
<1> QED
  BY <1>0, <1>1, <1>2 DEF InputOf

LEMMA InputIsSaved ==
  ASSUME NEW h, Regular(h), NEW st, st.watermark \in Nat \ {0}
  PROVE  InputOf(h, st) = st.input
<1>1. InSuffix(h, st, {"Started"}) = {}
  BY DEF InSuffix, Suffix, Regular, IsList
<1> QED
  BY <1>1 DEF InputOf

\* A walk over h that an answer was made of stops at step p.
StoppedAt(w, spec, h, p) ==
  /\ IsScratchWalk(w, spec, h)
  /\ p \in 1..Len(spec)
  /\ \A i \in 0..(p - 1) : w[i].outcome = "Continue"
  /\ w[p - 1].at = p
  /\ w[p] = WalkStep(spec[p], ScratchRun(spec, h), w[p - 1])
  /\ w[p].outcome = "Stop"
  /\ w[p] = w[Len(spec)]

\* The state that is saved of a walk which stops at context c.
SavedOf(c, h, st) ==
  /\ st.watermark = Len(h) /\ st.nextSeq = c.nextSeq /\ st.input = c.input
  /\ st.results = c.results /\ st.consumed = c.consumed /\ st.pending = c.pending

LEMMA ReplayStops ==
  ASSUME NEW spec, Len(spec) \in Nat, NEW h, Regular(h), Replay(spec, h).ok
  PROVE  \E w, p : /\ StoppedAt(w, spec, h, p)
                   /\ SavedOf(w[p], h, Replay(spec, h).state)
                   /\ Replay(spec, h).commands = w[p].commands
<1> DEFINE fr == FreshState(spec)
<1>0. Len(h) \in Nat /\ Len(h) >= 1
  BY DEF Regular, IsList
<1>1. PICK w : /\ IsWalkFrom(w, spec, h, fr)
               /\ DecideFrom(spec, h, fr) =
                    IF Refuses(h, fr, w[Len(spec)]) THEN Failure
                    ELSE AnswerOf(spec, h, fr, w[Len(spec)])
  BY <1>0, DecideWalks
<1>2. Replay(spec, h) = DecideFrom(spec, h, fr)
  BY DEF Replay
<1> HIDE DEF fr
<1>3. ~ Refuses(h, fr, w[Len(spec)]) /\ Replay(spec, h) = AnswerOf(spec, h, fr, w[Len(spec)])
  BY <1>1, <1>2 DEF Failure
<1>4. w[Len(spec)].outcome = "Stop"
  BY <1>3 DEF Refuses
<1>5. IsScratchWalk(w, spec, h)
  BY <1>1 DEF IsScratchWalk, fr
<1>6. /\ IsWalk(w, spec, ScratchRun(spec, h), StartFrom(h, FreshState(spec)))
      /\ StartFrom(h, FreshState(spec)).outcome = "Continue"
  BY <1>5, ScratchContexts DEF StartFrom
<1>7. PICK p \in 1..Len(spec) :
         /\ \A i \in 0..(p - 1) : w[i].outcome = "Continue"
         /\ w[p - 1].at = p
         /\ w[p] = WalkStep(spec[p], ScratchRun(spec, h), w[p - 1])
         /\ w[p] = w[Len(spec)]
  BY <1>4, <1>6, WalkHaltsAt
<1>8. StoppedAt(w, spec, h, p)
  BY <1>4, <1>5, <1>7 DEF StoppedAt
<1>9. NextWatermark(h, fr) = Len(h)
  BY <1>0, FreshStateIs DEF NextWatermark, IsFresh, fr
<1>10. SavedOf(w[p], h, Replay(spec, h).state) /\ Replay(spec, h).commands = w[p].commands
  BY <1>3, <1>7, <1>9 DEF SavedOf, AnswerOf
<1> QED
  BY <1>8, <1>10

\* The walk that resumes comes to the step where the other stopped, in step with the
\* walk that replays.
LEMMA ResumeComes ==
  ASSUME NEW spec, Len(spec) \in Nat, WellScoped(spec),
         NEW g, Regular(g), NEW h, Regular(h), HasPrefix(h, g), Reached(spec, g),
         NEW w, NEW p, StoppedAt(w, spec, g, p),
         NEW st, IsPrior(st), SavedOf(w[p], g, st),
         NEW v, IsScratchWalk(v, spec, h), NEW b, IsWalkFrom(b, spec, h, st)
  PROVE  /\ b[p - 1].at = p /\ b[p - 1].outcome = "Continue" /\ b[p - 1].cursor = 0
         /\ \E off : /\ Covers(g, FreshState(spec), st, off)
                     /\ Behind(ScratchRun(spec, h), RunFrom(h, st), off, Restored(st))
                     /\ Shift(ScratchRun(spec, h), RunFrom(h, st), off, Restored(st),
                              v[p - 1], b[p - 1])
                     /\ Restored(st) = 1 => AtActivity(spec[p], b[p - 1])
<1> DEFINE fr   == FreshState(spec)
           run  == ScratchRun(spec, g)
           ext  == ScratchRun(spec, h)
           rest == RunFrom(h, st)
           v0   == StartFrom(h, FreshState(spec))
           w0   == StartFrom(g, FreshState(spec))
           b0   == StartFrom(h, st)
           off  == w[p - 1].cursor
<1>0. /\ Len(g) \in Nat /\ Len(g) >= 1 /\ Len(h) \in Nat /\ Len(g) <= Len(h)
      /\ NeverClosed(h) /\ IsFresh(fr) /\ IsPrior(fr)
  BY FreshStateIs DEF Regular, IsList, HasPrefix
<1>1. /\ IsScratchWalk(w, spec, g) /\ p \in 1..Len(spec) /\ w[p - 1].at = p
      /\ w[p].outcome = "Stop" /\ \A i \in 0..(p - 1) : w[i].outcome = "Continue"
  BY DEF StoppedAt
<1>2. p - 1 \in 0..Len(spec) /\ p \in 0..Len(spec) /\ p - 1 \in 0..(p - 1)
  BY <1>1
<1>3. w[p - 1].outcome = "Continue"
  BY <1>1, <1>2
<1>4. /\ IsScratchRun(run) /\ IsOpenRun(run) /\ IsCtx(w0) /\ IsWalk(w, spec, run, w0)
      /\ \A i \in 0..Len(spec) : IsCtx(w[i]) /\ Scratch(run, w[i])
  BY <1>1, ScratchContexts
<1>5. /\ IsScratchRun(ext) /\ IsOpenRun(ext) /\ IsCtx(v0) /\ IsWalk(v, spec, ext, v0)
      /\ \A i \in 0..Len(spec) : IsCtx(v[i])
  BY ScratchContexts
<1>6. Extends(run, ext)
  BY <1>0, RunExtends DEF ScratchRun
<1>7. v0 = w0
  BY <1>0, InputStays DEF StartFrom
<1>8. v[p - 1] = w[p - 1]
  <2>1. IsWalk(v, spec, ext, w0)
    BY <1>5, <1>7
  <2> HIDE DEF run, ext, w0
  <2> QED
    BY <1>2, <1>3, <1>4, <1>5, <1>6, <2>1, WalkExtends
<1>9. StopsAtEnd(spec[p], run, w[p - 1], w[p])
  BY <1>1, ScratchStops
<1>10. st.watermark = Len(g) /\ st.pending = w[p].pending
  BY DEF SavedOf
<1>11. Covers(g, fr, st, off)
  BY <1>1, <1>3, <1>9, <1>10, StopCovers
<1>12. Behind(ext, rest, off, Restored(st))
  BY <1>0, <1>11, RunBehind DEF ScratchRun
<1>13. IsOpenRun(rest) /\ IsCtx(b0) /\ IsWalk(b, spec, rest, b0)
  BY <1>0, RunIsOpen, StartIsCtx DEF IsWalkFrom, IsPrior
<1>14. b0.results = w[p - 1].results /\ b0.input = w[p - 1].input
  <2>1. w[p].results = w[p - 1].results /\ w[p].input = w[p - 1].input
    BY <1>9 DEF StopsAtEnd
  <2>2. st.watermark \in Nat \ {0}
    BY <1>0, <1>10
  <2>3. InputOf(h, st) = st.input
    BY <2>2, InputIsSaved
  <2> QED
    BY <2>1, <2>3 DEF SavedOf, StartFrom
<1>15. b[p - 1] = Advance(b0, w[p - 1].at)
  <2>1. w0.at = b0.at /\ b0.outcome = "Continue"
    BY DEF StartFrom
  <2>2. p \in 1..Len(spec) /\ IsOpenRun(run) /\ IsCtx(w0) /\ IsWalk(w, spec, run, w0)
    BY <1>1, <1>4
  <2>3. w0.at = b0.at
    BY <2>1
  <2>4. b0.outcome = "Continue"
    BY <2>1
  <2>5. b0.results = w[p - 1].results
    BY <1>14
  <2>6. b0.input = w[p - 1].input
    BY <1>14
  <2>7. IsCtx(b0) /\ IsWalk(b, spec, rest, b0)
    BY <1>13
  <2> HIDE DEF run, rest, w0, b0
  <2> QED
    BY <1>3, <2>2, <2>3, <2>4, <2>5, <2>6, <2>7, WalkSkips
<1>16. /\ b[p - 1].at = p /\ b[p - 1].outcome = "Continue"
       /\ b[p - 1].results = w[p - 1].results /\ b[p - 1].input = w[p - 1].input
       /\ b[p - 1].consumed = w[p - 1].consumed
       /\ b[p - 1].pending = NoPending /\ b[p - 1].commands = << >>
       /\ b[p - 1].waiting = Nothing /\ b[p - 1].cursor = 0
       /\ b[p - 1].nextSeq = st.nextSeq /\ b[p - 1].claim = EmptyMap
  <2>1. st.consumed = w[p - 1].consumed
    BY <1>9 DEF StopsAtEnd, SavedOf
  <2>2. /\ b0.outcome = "Continue" /\ b0.consumed = st.consumed
        /\ b0.pending = NoPending /\ b0.commands = << >>
        /\ b0.waiting = Nothing /\ b0.cursor = 0
        /\ b0.nextSeq = st.nextSeq /\ b0.claim = EmptyMap
    BY DEF StartFrom
  <2>3. /\ b[p - 1].at = w[p - 1].at
        /\ \A f \in CtxFields \ {"at"} : b[p - 1][f] = b0[f]
    <3> HIDE DEF b0
    <3> QED
      BY <1>13, <1>15, AdvanceCtx
  <2> HIDE DEF b0
  <2> QED
    BY <1>1, <1>14, <2>1, <2>2, <2>3 DEF CtxFields
<1>17. /\ w[p - 1].pending = NoPending /\ w[p - 1].commands = << >>
       /\ w[p - 1].waiting = Nothing /\ w[p - 1].consumed = w[p - 1].claim
       /\ w[p - 1].cursor \in Nat /\ w[p - 1].nextSeq \in Nat
       /\ \A key \in DOMAIN w[p - 1].claim : w[p - 1].claim[key] \in Nat
  BY <1>2, <1>3, <1>4 DEF Scratch, IsCtx
<1>18. \A name : Count(ext.base, name) + Count(v[p - 1].claim, name)
                   = Count(rest.base, name) + Count(b[p - 1].claim, name)
  <2>1. ext.base = EmptyMap
    BY <1>5 DEF IsScratchRun
  <2>2. rest.base = w[p - 1].claim
    BY <1>9, <1>17 DEF RunFrom, SignalBase, SavedOf, StopsAtEnd
  <2>3. \A name : Count(EmptyMap, name) = 0
    BY DEF Count, EmptyMap
  <2> HIDE DEF ext, rest
  <2>4. \A name : Count(w[p - 1].claim, name) \in Nat
    BY <1>17, CountIsNat
  <2> QED
    BY <1>8, <1>16, <2>1, <2>2, <2>3, <2>4
<1>19. Len(run.records) = Len(Activities(g)) /\ Len(Activities(g)) \in Nat
  <2>1. RunFrom(g, fr).records = ActRecords(g, fr) /\ Len(ActRecords(g, fr)) = Len(Activities(g))
        /\ Len(Activities(g)) \in Nat
    BY <1>0, ScratchRecords
  <2> QED
    BY <2>1 DEF ScratchRun
<1>20. off + Restored(st) = Len(Activities(g)) /\ Restored(st) \in {0, 1}
  BY <1>0, <1>11, RestoredIs
<1>21. /\ st.nextSeq = w[p - 1].nextSeq + Restored(st)
       /\ Restored(st) = 1 => AtActivity(spec[p], w[p - 1])
  <2>1. st.nextSeq = w[p].nextSeq
    BY DEF SavedOf
  <2>2. CASE w[p - 1].cursor = Len(run.records) /\ w[p].nextSeq = w[p - 1].nextSeq
    BY <1>17, <1>19, <1>20, <2>1, <2>2
  <2>3. CASE w[p - 1].cursor + 1 = Len(run.records)
             /\ Awaits(spec[p], run, w[p - 1], w[p])
    <3>1. w[p].nextSeq = NextSeqAfter(run, w[p - 1]) /\ AtActivity(spec[p], w[p - 1])
      BY <2>3 DEF Awaits, AtRecord
    <3>2. ~ NextRecord(run, w[p - 1]).counted
      BY <1>4, <1>17, <2>3 DEF NextRecord, IsScratchRun, IsOpenRun
    <3>3. Restored(st) = 1
      BY <1>17, <1>19, <1>20, <2>3
    <3> QED
      BY <2>1, <3>1, <3>2, <3>3 DEF NextSeqAfter
  <2> QED
    BY <1>9, <2>2, <2>3 DEF StopsAtEnd
<1>22. Restored(st) = 1 => AtActivity(spec[p], b[p - 1])
  BY <1>16, <1>21 DEF AtActivity
<1>23. b[p - 1].nextSeq = v[p - 1].nextSeq + Ahead(b[p - 1], Restored(st))
  BY <1>8, <1>16, <1>17, <1>20, <1>21 DEF Ahead
<1>24. v[p - 1].cursor = b[p - 1].cursor + off
  BY <1>8, <1>16, <1>17
<1>25. Shift(ext, rest, off, Restored(st), v[p - 1], b[p - 1])
  <2> HIDE DEF ext, rest, off
  <2> QED
    BY <1>1, <1>3, <1>8, <1>16, <1>17, <1>18, <1>23, <1>24 DEF Shift
<1> QED
  BY <1>11, <1>12, <1>16, <1>22, <1>25

\* Where a restored activity awaited its step, the step claims it.
LEMMA RestoredIsClaimed ==
  ASSUME NEW spec, Len(spec) \in Nat, NEW rest, IsOpenRun(rest), NEW b0, IsCtx(b0),
         NEW b, IsWalk(b, spec, rest, b0), NEW p \in 1..Len(spec),
         b[p - 1].at = p, b[p - 1].outcome = "Continue", b[p - 1].cursor = 0,
         AtActivity(spec[p], b[p - 1]), Len(rest.records) >= 1,
         b[Len(spec)].outcome = "Stop"
  PROVE  b[Len(spec)].cursor >= 1
<1>0. p - 1 \in 0..Len(spec) /\ p \in 0..Len(spec) /\ Len(spec) \in p..Len(spec)
  OBVIOUS
<1>1. IsCtx(b[p - 1]) /\ IsCtx(b[p]) /\ IsCtx(b[Len(spec)])
  BY <1>0, WalkGoes
<1>2. StepTakes(spec, rest, b[p - 1], b[p], p)
  BY <1>0, WalkGoes
<1>3. StepMakes(spec[p], rest, b[p - 1], b[p])
  BY <1>2 DEF StepTakes
<1>4. b[p].outcome # "Error"
  <2>1. CASE b[p].outcome # "Continue"
    <3>1. b[Len(spec)] = b[p]
      BY <1>0, <2>1, WalkHalts
    <3> QED
      BY <3>1
  <2> QED
    BY <2>1
<1>5. b[p - 1].cursor < Len(rest.records) /\ ~ (b[p - 1].cursor >= Len(rest.records))
  BY DEF IsOpenRun
<1>6. \/ Takes(spec[p], rest, b[p - 1], b[p]) \/ Awaits(spec[p], rest, b[p - 1], b[p])
      \/ Fails(spec[p], rest, b[p - 1], b[p])
  BY <1>3, <1>4, <1>5 DEF StepMakes, Passes, Schedules, TakesSignal, Waits, Branches,
     Completes, Errs, AtActivity, AtWait, IsBinding
<1>7. b[p].cursor = 1
  BY <1>6 DEF Takes, Awaits, Fails
<1>8. GrowsTo(b[p], b[Len(spec)])
  BY <1>0, WalkGrows
<1> QED
  BY <1>1, <1>7, <1>8 DEF GrowsTo, IsCtx

\* A device that resumes from the state it saved of a history decides of any longer
\* one what it would decide of it from nothing (replay_engine.h:28-34).
LEMMA ResumeIsReplay ==
  ASSUME NEW spec, Len(spec) \in Nat, WellScoped(spec),
         NEW g, Regular(g), NEW h, Regular(h), HasPrefix(h, g), Reached(spec, g),
         Replay(spec, g).ok, NEW st, st = Replay(spec, g).state
  PROVE  DecideFrom(spec, h, st) = Replay(spec, h)
<1> DEFINE fr   == FreshState(spec)
           ext  == ScratchRun(spec, h)
           rest == RunFrom(h, st)
           v0   == StartFrom(h, FreshState(spec))
           b0   == StartFrom(h, st)
           N    == Len(spec)
<1>0. /\ Len(g) \in Nat /\ Len(g) >= 1 /\ Len(h) \in Nat /\ Len(g) <= Len(h)
      /\ NeverClosed(g) /\ NeverClosed(h) /\ IsFresh(fr) /\ IsPrior(fr)
  BY FreshStateIs DEF Regular, IsList, HasPrefix
<1>1. PICK w, p : StoppedAt(w, spec, g, p) /\ SavedOf(w[p], g, st)
  BY ReplayStops
<1>2. IsPrior(st)
  <2>1. PendingIn(g, fr.pending)
    BY DEF PendingIn, FreshState
  <2>2. Replay(spec, g) = DecideFrom(spec, g, fr)
    BY DEF Replay
  <2> HIDE DEF fr
  <2> QED
    BY <1>0, <2>1, <2>2, DecisionShape
<1>3. PICK v : /\ IsWalkFrom(v, spec, h, fr)
               /\ DecideFrom(spec, h, fr) = IF Refuses(h, fr, v[N]) THEN Failure
                                            ELSE AnswerOf(spec, h, fr, v[N])
  <2> HIDE DEF fr
  <2> QED
    BY <1>0, DecideWalks
<1>4. PICK b : /\ IsWalkFrom(b, spec, h, st)
               /\ DecideFrom(spec, h, st) = IF Refuses(h, st, b[N]) THEN Failure
                                            ELSE AnswerOf(spec, h, st, b[N])
  BY <1>0, DecideWalks
<1>5. IsScratchWalk(v, spec, h)
  BY <1>3 DEF IsScratchWalk
<1>6. PICK off : /\ Covers(g, FreshState(spec), st, off)
                 /\ Behind(ext, rest, off, Restored(st))
                 /\ Shift(ext, rest, off, Restored(st), v[p - 1], b[p - 1])
                 /\ Restored(st) = 1 => AtActivity(spec[p], b[p - 1])
  BY <1>1, <1>2, <1>4, <1>5, ResumeComes
<1>7. p \in 1..N /\ p - 1 \in 0..N
  BY <1>1 DEF StoppedAt
<1>8. /\ IsOpenRun(ext) /\ IsCtx(v0) /\ IsWalk(v, spec, ext, v0)
      /\ \A i \in 0..N : IsCtx(v[i])
  BY <1>5, ScratchContexts
<1>9. IsOpenRun(rest) /\ IsCtx(b0) /\ IsWalk(b, spec, rest, b0) /\ ~ HistoryFinished(h, st)
  BY <1>0, <1>2, <1>4, RunIsOpen, StartIsCtx DEF IsWalkFrom, IsPrior
<1>10. \A i \in 0..N : IsCtx(b[i])
  <2> HIDE DEF rest, b0
  <2> QED
    BY <1>9, WalkGoes
<1>11. ~ HistoryFinished(h, fr)
  BY <1>0, RunIsOpen
<1>12. ~ DanglingEnd(h, fr) /\ ~ DanglingEnd(h, st)
  BY <1>0, <1>6, NothingDangles, NothingDanglesPast
<1>13. InputOf(h, st) = InputOf(h, fr)
  <2>1. w[p].input = InputOf(g, fr)
    <3> DEFINE w0 == StartFrom(g, FreshState(spec))
    <3>1. IsOpenRun(ScratchRun(spec, g)) /\ IsCtx(w0) /\ IsWalk(w, spec, ScratchRun(spec, g), w0)
      BY <1>1, ScratchContexts DEF StoppedAt
    <3>2. w0.input = InputOf(g, fr)
      BY DEF StartFrom
    <3> HIDE DEF w0, fr
    <3>3. w[0] = w0 /\ 0 \in 0..Len(spec) /\ p \in 0..Len(spec)
      BY <1>7, <3>1 DEF IsWalk
    <3>4. GrowsTo(w[0], w[p])
      BY <3>1, <3>3, WalkGrows
    <3> QED
      BY <3>2, <3>3, <3>4 DEF GrowsTo
  <2>2. st.watermark \in Nat \ {0} /\ st.input = w[p].input
    BY <1>0, <1>1 DEF SavedOf
  <2>3. InputOf(h, st) = st.input
    BY <2>2, InputIsSaved
  <2>4. InputOf(h, fr) = InputOf(g, fr)
    BY <1>0, InputStays
  <2> QED
    BY <2>1, <2>2, <2>3, <2>4
<1>14. \/ Shift(ext, rest, off, Restored(st), v[N], b[N])
       \/ v[N].outcome = "Error" /\ b[N].outcome = "Error"
  <2>1. Behind(ext, rest, off, Restored(st)) /\ Shift(ext, rest, off, Restored(st), v[p - 1], b[p - 1])
    BY <1>6
  <2> HIDE DEF ext, rest, v0, b0
  <2> QED
    BY <1>7, <1>8, <1>9, <2>1, WalkShifts
<1>15. Replay(spec, h) = IF Refuses(h, fr, v[N]) THEN Failure ELSE AnswerOf(spec, h, fr, v[N])
  BY <1>3 DEF Replay
<1>16. CASE v[N].outcome # "Stop"
  <2>1. b[N].outcome # "Stop"
    BY <1>14, <1>16 DEF Shift
  <2> QED
    BY <1>4, <1>15, <1>16, <2>1 DEF Refuses
<1>17. CASE v[N].outcome = "Stop"
  <2>1. Shift(ext, rest, off, Restored(st), v[N], b[N])
    BY <1>14, <1>17
  <2>2. b[N].outcome = "Stop"
    BY <1>17, <2>1 DEF Shift
  <2>3. Restored(st) = 1 => b[N].cursor >= 1
    <3> SUFFICES ASSUME Restored(st) = 1
                 PROVE  b[N].cursor >= 1
      OBVIOUS
    <3>1. AtActivity(spec[p], b[p - 1])
      BY <1>6
    <3>2. Len(rest.records) >= 1
      BY <1>6, <1>9 DEF Behind, IsOpenRun
    <3>3. b[p - 1].at = p /\ b[p - 1].outcome = "Continue" /\ b[p - 1].cursor = 0
      BY <1>1, <1>2, <1>4, <1>5, ResumeComes
    <3> HIDE DEF rest, b0
    <3> QED
      BY <1>7, <1>9, <2>2, <3>1, <3>2, <3>3, RestoredIsClaimed
  <2>4. b[N].nextSeq = v[N].nextSeq
    <3>1. b[N].nextSeq = v[N].nextSeq + Ahead(b[N], Restored(st))
      BY <2>1 DEF Shift
    <3>2. N \in 0..N /\ IsCtx(v[N]) /\ IsCtx(b[N])
      BY <1>7, <1>8, <1>10
    <3>3. Restored(st) \in {0, 1}
      BY DEF Restored
    <3> QED
      BY <2>3, <3>1, <3>2, <3>3 DEF Ahead, IsCtx
  <2>5. NextWatermark(h, st) = Len(h) /\ NextWatermark(h, fr) = Len(h)
    BY <1>0, <1>1 DEF NextWatermark, SavedOf, IsFresh
  <2>6. Refuses(h, st, b[N]) <=> Refuses(h, fr, v[N])
    BY <1>12, <1>13, <1>17, <2>2 DEF Refuses
  <2>7. AnswerOf(spec, h, st, b[N]) = AnswerOf(spec, h, fr, v[N])
    <3>1. /\ b[N].commands = v[N].commands /\ b[N].waiting = v[N].waiting
          /\ b[N].input = v[N].input /\ b[N].results = v[N].results
          /\ b[N].consumed = v[N].consumed /\ b[N].pending = v[N].pending
      BY <2>1 DEF Shift
    <3>2. HistoryFinished(h, st) = FALSE /\ HistoryFinished(h, fr) = FALSE
      BY <1>9, <1>11 DEF HistoryFinished
    <3> HIDE DEF fr, N
    <3> QED
      BY <2>4, <2>5, <3>1, <3>2 DEF AnswerOf
  <2> QED
    BY <1>4, <1>15, <2>6, <2>7
<1> QED
  BY <1>16, <1>17

-----------------------------------------------------------------------------
(* The run schedules nothing its spec does not come to.                    *)

LEMMA ScratchWalkExists ==
  ASSUME NEW spec, Len(spec) \in Nat, NEW h
  PROVE  \E w : IsScratchWalk(w, spec, h)
  BY WalkExists DEF IsScratchWalk, IsWalkFrom

\* Two walks over one history and a longer one agree as far as the first goes on.
LEMMA ScratchAgrees ==
  ASSUME NEW spec, Len(spec) \in Nat, NEW g, Regular(g), NEW h, Regular(h), HasPrefix(h, g),
         NEW w, IsScratchWalk(w, spec, g), NEW v, IsScratchWalk(v, spec, h)
  PROVE  /\ Extends(ScratchRun(spec, g), ScratchRun(spec, h))
         /\ \A i \in 0..Len(spec) : w[i].outcome = "Continue" => v[i] = w[i]
<1> DEFINE run == ScratchRun(spec, g)
           ext == ScratchRun(spec, h)
           w0  == StartFrom(g, FreshState(spec))
           v0  == StartFrom(h, FreshState(spec))
<1>0. IsFresh(FreshState(spec))
  BY FreshStateIs
<1>1. IsOpenRun(run) /\ IsCtx(w0) /\ IsWalk(w, spec, run, w0)
  BY ScratchContexts
<1>2. IsOpenRun(ext) /\ IsWalk(v, spec, ext, v0)
  BY ScratchContexts
<1>3. Extends(run, ext)
  BY <1>0, RunExtends DEF ScratchRun
<1>4. v0 = w0
  BY <1>0, InputStays DEF StartFrom
<1>5. IsWalk(v, spec, ext, w0)
  BY <1>2, <1>4
<1>6. \A i \in 0..Len(spec) : w[i].outcome = "Continue" => v[i] = w[i]
  <2> HIDE DEF run, ext, w0, v0
  <2> QED
    BY <1>1, <1>2, <1>3, <1>5, WalkExtends
<1> QED
  BY <1>3, <1>6

LEMMA ScratchLength ==
  ASSUME NEW spec, NEW h, Regular(h)
  PROVE  /\ Len(ScratchRun(spec, h).records) = Len(Activities(h))
         /\ Len(Activities(h)) \in Nat
         /\ \A k \in 1..Len(Activities(h)) :
              ScratchRun(spec, h).records[k] = RecordOf(h, FreshState(spec), k)
<1>1. Len(h) \in Nat /\ IsFresh(FreshState(spec))
  BY FreshStateIs DEF Regular, IsList
<1> QED
  BY <1>1, ScratchRecords DEF ScratchRun

LEMMA ReachedAtStart ==
  ASSUME NEW spec, Len(spec) \in Nat, NEW h, Regular(h), Len(h) = 1
  PROVE  Reached(spec, h)
<1> SUFFICES ASSUME NEW w, IsScratchWalk(w, spec, h)
             PROVE  AtEnd(spec, ScratchRun(spec, h), w[0], 0)
  BY DEF Reached
<1>1. ActivityIds(h) = {}
  BY DEF ActivityIds, Regular
<1>2. Len(Activities(h)) = 0
  BY <1>1, ActivitiesList
<1>3. Len(ScratchRun(spec, h).records) = 0
  BY <1>2, ScratchLength
<1>4. w[0] = StartFrom(h, FreshState(spec))
  BY ScratchContexts DEF IsWalk
<1> QED
  BY <1>3, <1>4 DEF AtEnd, StartFrom

\* Nothing that only happens to the run makes a difference.
LEMMA ReachedStays ==
  ASSUME NEW spec, Len(spec) \in Nat, NEW g, Regular(g), NEW h, Regular(h), HasPrefix(h, g),
         Reached(spec, g), ActivityIds(h) \subseteq 1..Len(g)
  PROVE  Reached(spec, h)
<1> SUFFICES ASSUME NEW v, IsScratchWalk(v, spec, h)
             PROVE  \E i \in 0..Len(spec) : AtEnd(spec, ScratchRun(spec, h), v[i], i)
  BY DEF Reached
<1> DEFINE run == ScratchRun(spec, g)
           ext == ScratchRun(spec, h)
           st  == [watermark |-> Len(g)]
<1>0. Len(g) \in Nat /\ Len(h) \in Nat
  BY DEF Regular, IsList
<1>1. PICK w : IsScratchWalk(w, spec, g)
  BY ScratchWalkExists
<1>2. PICK i \in 0..Len(spec) : AtEnd(spec, run, w[i], i)
  BY <1>1 DEF Reached
<1>3. v[i] = w[i] /\ Extends(run, ext)
  BY <1>1, <1>2, ScratchAgrees DEF AtEnd
<1>4. Len(ext.records) = Len(run.records)
  <2>1. /\ Lists(FreshIds(h, st), InSuffix(h, st, {"ActivityScheduled"}), Len(h))
    BY <1>0, FreshIdsList
  <2>2. InSuffix(h, st, {"ActivityScheduled"}) = {}
    BY <1>0 DEF InSuffix, Suffix, ActivityIds
  <2>3. Len(FreshIds(h, st)) = 0
    BY <2>1, <2>2 DEF Lists
  <2>4. Len(Activities(h)) = Len(Activities(g)) + Len(FreshIds(h, st))
    BY <1>0, ActivitiesGrow
  <2>5. Len(ext.records) = Len(Activities(h)) /\ Len(run.records) = Len(Activities(g))
        /\ Len(Activities(g)) \in Nat
    BY ScratchLength
  <2> HIDE DEF run, ext, st
  <2> QED
    BY <2>3, <2>4, <2>5
<1>5. IsCtx(w[i]) /\ IsOpenRun(run)
  BY <1>1, <1>2, ScratchContexts
<1>6. AtRecord(spec[i + 1], run, w[i]) => AtRecord(spec[i + 1], ext, w[i])
  <2> HIDE DEF run, ext
  <2> SUFFICES ASSUME AtRecord(spec[i + 1], run, w[i])
               PROVE  AtRecord(spec[i + 1], ext, w[i])
    OBVIOUS
  <2>1. AtActivity(spec[i + 1], w[i]) /\ w[i].cursor < Len(run.records)
        /\ NextRecord(run, w[i]).name = spec[i + 1].name
    BY DEF AtRecord
  <2>2. w[i].cursor + 1 \in 1..Len(run.records)
    BY <1>5, <2>1 DEF IsCtx, IsOpenRun
  <2>3. NextRecord(ext, w[i]).name = NextRecord(run, w[i]).name
    BY <1>3, <2>2 DEF Extends, NextRecord
  <2> QED
    BY <1>4, <2>1, <2>3 DEF AtRecord
<1>7. AtEnd(spec, ext, v[i], i)
  <2> HIDE DEF run, ext
  <2> QED
    BY <1>2, <1>3, <1>4, <1>6 DEF AtEnd
<1> QED
  BY <1>7

\* What the decided activity's step is like when the walk stops there.
LEMMA SchedulingStops ==
  ASSUME NEW spec, Len(spec) \in Nat, NEW h, Regular(h), NEW w, NEW p, StoppedAt(w, spec, h, p),
         NEW cmd, w[p].commands = <<cmd>>, ~ IsTerminal(cmd)
  PROVE  /\ AtActivity(spec[p], w[p - 1])
         /\ w[p - 1].cursor = Len(ScratchRun(spec, h).records)
         /\ cmd.name = spec[p].name
         /\ cmd.seq = w[p].nextSeq
<1> DEFINE run == ScratchRun(spec, h)
           c == w[p - 1]
           d == w[p]
<1>1. /\ IsScratchWalk(w, spec, h) /\ p \in 1..Len(spec) /\ p - 1 \in 0..(p - 1)
      /\ c.outcome = "Continue" /\ c.at = p
  BY DEF StoppedAt
<1>2. IsOpenRun(run) /\ IsCtx(c) /\ Scratch(run, c) /\ StepTakes(spec, run, c, d, p)
  BY <1>1, ScratchContexts
<1>3. StepMakes(spec[p], run, c, d)
  BY <1>1, <1>2 DEF StepTakes
<1>4. c.cursor <= Len(run.records) /\ c.commands = << >>
  BY <1>1, <1>2 DEF Scratch
<1> HIDE DEF run, c
<1>5. d.commands # << >> /\ d.commands = <<cmd>>
  OBVIOUS
<1> HIDE DEF d
<1>6. \/ Fails(spec[p], run, c, d) \/ Schedules(spec[p], run, c, d)
      \/ Completes(spec[p], c, d) \/ Errs(spec[p], run, c, d)
  BY <1>3, <1>4, <1>5 DEF StepMakes, Passes, Takes, Awaits, TakesSignal, Waits, Branches,
     SameBut, CtxFields
<1>7. d.outcome = "Stop"
  BY DEF StoppedAt, d
<1>8. Schedules(spec[p], run, c, d)
  <2>1. ~ Fails(spec[p], run, c, d)
    BY <1>4, <1>5, OneCommand DEF Fails, FailWorkflow, IsTerminal, Command
  <2>2. ~ Completes(spec[p], c, d)
    BY <1>4, <1>5, OneCommand DEF Completes, CompleteWorkflow, IsTerminal, Command
  <2> QED
    BY <1>6, <1>7, <2>1, <2>2 DEF Errs
<1>9. /\ cmd = ScheduleActivity(c.nextSeq, spec[p].name, ValueOf(c, spec[p].arg))
      /\ d.nextSeq = c.nextSeq
  BY <1>4, <1>5, <1>8, OneCommand DEF Schedules, SameBut, CtxFields
<1>10. c.cursor = Len(run.records) /\ AtActivity(spec[p], c)
  BY <1>2, <1>4, <1>8 DEF Schedules, IsCtx, IsOpenRun
<1> QED
  BY <1>9, <1>10 DEF ScheduleActivity, Command, run, c, d

\* What a decided activity adds when the service records it.
LEMMA ReachedGrows ==
  ASSUME NEW spec, Len(spec) \in Nat, NEW g, Regular(g), NEW h, Regular(h), HasPrefix(h, g),
         Replay(spec, g).ok, Reached(spec, g),
         NEW cmd, Replay(spec, g).commands = <<cmd>>, ~ IsTerminal(cmd),
         Len(g) < Len(h), ActivityIds(h) = ActivityIds(g) \cup {Len(g) + 1},
         h[Len(g) + 1].name = cmd.name
  PROVE  Reached(spec, h)
<1> SUFFICES ASSUME NEW v, IsScratchWalk(v, spec, h)
             PROVE  \E i \in 0..Len(spec) : AtEnd(spec, ScratchRun(spec, h), v[i], i)
  BY DEF Reached
<1> DEFINE run == ScratchRun(spec, g)
           ext == ScratchRun(spec, h)
           st  == [watermark |-> Len(g)]
           K   == Len(Activities(g))
<1>0. Len(g) \in Nat /\ Len(h) \in Nat /\ Len(g) + 1 \in 1..Len(h)
  BY DEF Regular, IsList
<1>1. PICK w, p : StoppedAt(w, spec, g, p) /\ w[p].commands = <<cmd>>
  BY ReplayStops
<1>2. /\ AtActivity(spec[p], w[p - 1]) /\ w[p - 1].cursor = Len(run.records)
      /\ cmd.name = spec[p].name
  BY <1>1, SchedulingStops
<1>3. /\ IsScratchWalk(w, spec, g) /\ p \in 1..Len(spec) /\ w[p - 1].at = p
      /\ p - 1 \in 0..(p - 1) /\ p - 1 \in 0..Len(spec) /\ (p - 1) + 1 = p
      /\ w[p - 1].outcome = "Continue"
  BY <1>1 DEF StoppedAt
<1>4. v[p - 1] = w[p - 1]
  BY <1>3, ScratchAgrees
<1>5. /\ Len(ext.records) = Len(Activities(h)) /\ Len(run.records) = K /\ K \in Nat
      /\ \A k \in 1..Len(Activities(h)) : ext.records[k] = RecordOf(h, FreshState(spec), k)
  BY ScratchLength
<1>6. FreshIds(h, st)[1] = Len(g) + 1 /\ Len(FreshIds(h, st)) = 1
  <2>1. Lists(FreshIds(h, st), InSuffix(h, st, {"ActivityScheduled"}), Len(h))
    BY <1>0, FreshIdsList
  <2>2. InSuffix(h, st, {"ActivityScheduled"}) = {Len(g) + 1}
    BY <1>0 DEF InSuffix, Suffix, ActivityIds
  <2> HIDE DEF st
  <2>3. {Len(g) + 1} \cap 1..Len(h) = {Len(g) + 1}
    BY <1>0
  <2>4. PICK q : q = FreshIds(h, st)
    OBVIOUS
  <2>5. /\ q \in Seq(Nat)
        /\ \A i \in 1..Len(q) : q[i] = Len(g) + 1
        /\ \E i \in 1..Len(q) : q[i] = Len(g) + 1
        /\ \A i, j \in 1..Len(q) : i < j => q[i] < q[j]
    BY <1>0, <2>1, <2>2, <2>3, <2>4 DEF Lists
  <2>6. Len(q) \in Nat /\ Len(q) >= 1
    BY <2>5
  <2>7. ~ (1 < Len(q))
    BY <1>0, <2>5, <2>6
  <2>8. Len(q) = 1
    <3>1. PICK n : n = Len(q)
      OBVIOUS
    <3>2. n \in Nat /\ n >= 1 /\ ~ (1 < n)
      BY <2>6, <2>7, <3>1
    <3>3. n = 1
      BY <3>2
    <3> QED
      BY <3>1, <3>3
  <2>9. q[1] = Len(g) + 1
    BY <2>5, <2>8
  <2> QED
    BY <2>4, <2>8, <2>9
<1>7. Len(Activities(h)) = K + 1 /\ Activities(h)[K + 1] = Len(g) + 1
  <2>1. /\ Len(Activities(h)) = Len(Activities(g)) + Len(FreshIds(h, st))
        /\ \A k \in 1..Len(FreshIds(h, st)) :
             Activities(h)[Len(Activities(g)) + k] = FreshIds(h, st)[k]
    BY <1>0, ActivitiesGrow
  <2> HIDE DEF st
  <2> QED
    BY <1>6, <2>1
<1>8. ext.records[K + 1].name = cmd.name
  <2>1. K + 1 \in 1..Len(Activities(h))
    BY <1>5, <1>7
  <2>2. ext.records[K + 1] = RecordOf(h, FreshState(spec), K + 1)
    BY <1>5, <2>1
  <2> HIDE DEF ext, K
  <2> QED
    BY <1>7, <2>2, RecordOfIs
<1>9. AtEnd(spec, ext, v[p - 1], p - 1)
  <2> HIDE DEF ext, run, K
  <2>1. v[p - 1].cursor = K /\ Len(ext.records) = K + 1
    BY <1>2, <1>4, <1>5, <1>7
  <2>2. NextRecord(ext, v[p - 1]).name = spec[p].name
    BY <1>2, <1>8, <2>1 DEF NextRecord
  <2>3. AtRecord(spec[p], ext, v[p - 1])
    BY <1>2, <1>4, <1>5, <2>1, <2>2 DEF AtRecord
  <2> QED
    BY <1>3, <1>4, <2>1, <2>3 DEF AtEnd
<1> QED
  BY <1>3, <1>9

-----------------------------------------------------------------------------
(* What is open, and what is counted.                                      *)

Ended(h, id) ==
  \E e \in 1..Len(h) : h[e].type = "ActivityCompleted" /\ h[e].ref = id

LEMMA EndedIs ==
  ASSUME NEW h, Regular(h), NEW fr, IsFresh(fr), NEW id, EndsIn(h, fr, id) # {}
  PROVE  Ended(h, id)
  BY DEF EndsIn, InSuffix, Suffix, ActivityEnds, Regular, IsFresh, Ended

\* A record that is claimed and does not stop the walk belongs to an activity that
\* has ended.
LEMMA ClaimedHasEnded ==
  ASSUME NEW spec, NEW h, Regular(h), NEW k \in 1..Len(Activities(h)),
         ScratchRun(spec, h).records[k].status = "ActivityCompleted"
  PROVE  Ended(h, Activities(h)[k])
<1> DEFINE fr == FreshState(spec)
<1>1. IsFresh(fr)
  BY FreshStateIs
<1>2. StatusIn(h, fr, Activities(h)[k]) = "ActivityCompleted"
  BY ScratchLength, RecordOfIs
<1> HIDE DEF fr
<1>3. EndsIn(h, fr, Activities(h)[k]) # {}
  BY <1>2 DEF StatusIn
<1> QED
  BY <1>1, <1>3, EndedIs

\* At most the activity scheduled last is open.
LEMMA LastIsOpen ==
  ASSUME NEW spec, Len(spec) \in Nat, NEW h, Regular(h), Reached(spec, h),
         NEW e \in ActivityIds(h), ~ Ended(h, e), NEW x \in ActivityIds(h)
  PROVE  x <= e
<1> DEFINE run == ScratchRun(spec, h)
<1>0. Len(h) \in Nat
  BY DEF Regular, IsList
<1>1. PICK w : IsScratchWalk(w, spec, h)
  BY ScratchWalkExists
<1>2. PICK i \in 0..Len(spec) : AtEnd(spec, run, w[i], i)
  BY <1>1 DEF Reached
<1>3. Scratch(run, w[i]) /\ IsCtx(w[i])
  BY <1>1, <1>2, ScratchContexts
<1>4. Len(run.records) = Len(Activities(h)) /\ Len(Activities(h)) \in Nat
  BY ScratchLength
<1>5. PICK k \in 1..Len(Activities(h)) : Activities(h)[k] = e
  BY <1>0, ActivitiesList
<1>6. PICK j \in 1..Len(Activities(h)) : Activities(h)[j] = x
  BY <1>0, ActivitiesList
<1>7. k = Len(Activities(h))
  <2> SUFFICES ASSUME k # Len(Activities(h))
               PROVE  FALSE
    OBVIOUS
  <2> HIDE DEF run
  <2>1. k \in 1..w[i].cursor
    BY <1>2, <1>3, <1>4 DEF AtEnd, IsCtx
  <2>2. run.records[k].status = "ActivityCompleted"
    BY <1>2, <1>3, <2>1 DEF AtEnd, Scratch
  <2> QED
    BY <1>5, <2>2, ClaimedHasEnded DEF run
<1>8. Activities(h)[j] \in Nat /\ Activities(h)[k] \in Nat
      /\ (j < k => Activities(h)[j] < Activities(h)[k])
  BY <1>0, <1>5, <1>6, ActivitiesList DEF ActivityIds
<1> QED
  BY <1>4, <1>5, <1>6, <1>7, <1>8

\* A decision counts every activity, and schedules one only when none is open.
LEMMA DecisionCounts ==
  ASSUME NEW spec, Len(spec) \in Nat, NEW h, Regular(h), Reached(spec, h), Replay(spec, h).ok
  PROVE  /\ Replay(spec, h).state.nextSeq = 1 + Cardinality(ActivityIds(h))
         /\ \A cmd : Replay(spec, h).commands = <<cmd>> /\ ~ IsTerminal(cmd)
                     => \A e \in ActivityIds(h) : Ended(h, e)
<1> DEFINE run == ScratchRun(spec, h)
           st  == Replay(spec, h).state
<1>0. Len(h) \in Nat
  BY DEF Regular, IsList
<1>1. PICK w, p : /\ StoppedAt(w, spec, h, p) /\ SavedOf(w[p], h, st)
                  /\ Replay(spec, h).commands = w[p].commands
  BY ReplayStops
<1>2. /\ IsScratchWalk(w, spec, h) /\ p \in 1..Len(spec) /\ w[p - 1].at = p
      /\ p - 1 \in 0..(p - 1) /\ p - 1 \in 0..Len(spec)
      /\ w[p - 1].outcome = "Continue" /\ w[p].outcome = "Stop"
      /\ \A i \in 0..(p - 1) : w[i].outcome = "Continue"
  BY <1>1 DEF StoppedAt
<1>3. StopsAtEnd(spec[p], run, w[p - 1], w[p])
  BY <1>2, ScratchStops
<1>4. Scratch(run, w[p - 1]) /\ IsScratchRun(run) /\ IsOpenRun(run) /\ IsCtx(w[p - 1])
  BY <1>2, ScratchContexts
<1>5. Len(run.records) = Len(Activities(h)) /\ Len(Activities(h)) \in Nat
  BY ScratchLength
<1>6. Len(Activities(h)) = Cardinality(ActivityIds(h))
  <2>1. ActivityIds(h) \cap 1..Len(h) = ActivityIds(h)
    BY DEF ActivityIds
  <2> QED
    BY <1>0, <2>1, InOrderCounts DEF Activities
<1>7. w[p].nextSeq = 1 + Len(run.records)
  <2> HIDE DEF run
  <2>1. w[p - 1].nextSeq = 1 + w[p - 1].cursor /\ w[p - 1].cursor \in Nat
    BY <1>2, <1>4 DEF Scratch, IsCtx
  <2>2. CASE w[p - 1].cursor = Len(run.records) /\ w[p].nextSeq = w[p - 1].nextSeq
    BY <2>1, <2>2
  <2>3. CASE w[p - 1].cursor + 1 = Len(run.records) /\ Awaits(spec[p], run, w[p - 1], w[p])
    <3>1. w[p].nextSeq = NextSeqAfter(run, w[p - 1])
      BY <2>3 DEF Awaits
    <3>2. ~ NextRecord(run, w[p - 1]).counted
      BY <1>4, <2>1, <2>3 DEF NextRecord, IsScratchRun, IsOpenRun
    <3> QED
      BY <2>1, <2>3, <3>1, <3>2 DEF NextSeqAfter
  <2> QED
    BY <1>3, <2>2, <2>3 DEF StopsAtEnd
<1>8. st.nextSeq = 1 + Cardinality(ActivityIds(h))
  BY <1>1, <1>5, <1>6, <1>7 DEF SavedOf
<1>9. ASSUME NEW cmd, Replay(spec, h).commands = <<cmd>>, ~ IsTerminal(cmd),
             NEW e \in ActivityIds(h)
      PROVE  Ended(h, e)
  <2>1. w[p - 1].cursor = Len(run.records)
    <3>1. w[p].commands = <<cmd>>
      BY <1>1, <1>9
    <3> QED
      BY <1>1, <1>9, <3>1, SchedulingStops
  <2>2. PICK k \in 1..Len(Activities(h)) : Activities(h)[k] = e
    BY <1>0, ActivitiesList
  <2>3. run.records[k].status = "ActivityCompleted"
    <3> HIDE DEF run
    <3>1. k \in 1..w[p - 1].cursor
      BY <1>5, <2>1, <2>2
    <3> QED
      BY <1>2, <1>4, <3>1 DEF Scratch
  <2> QED
    BY <2>2, <2>3, ClaimedHasEnded
<1> QED
  BY <1>8, <1>9

-----------------------------------------------------------------------------
(* How a regular history grows.                                            *)

LEMMA RegularPrefix ==
  ASSUME NEW h, Regular(h), NEW g, IsList(g), Len(g) >= 1, HasPrefix(h, g)
  PROVE  Regular(g)
<1>1. /\ Len(g) \in Nat /\ Len(h) \in Nat /\ Len(g) <= Len(h)
      /\ \A i \in 1..Len(g) : h[i] = g[i]
  BY DEF IsList, HasPrefix, Regular
<1>2. NeverClosed(g)
  BY <1>1 DEF Regular, NeverClosed
<1>3. \A e \in 1..Len(g) :
        /\ g[e].type = "Started" <=> e = 1
        /\ g[e].type # "ActivityFailed"
        /\ g[e].type = "ActivityCompleted" =>
             g[e].ref \in 1..(e - 1) /\ g[g[e].ref].type = "ActivityScheduled"
  <2> TAKE e \in 1..Len(g)
  <2>1. e \in 1..Len(h) /\ h[e] = g[e] /\ 1..(e - 1) \subseteq 1..Len(g)
    BY <1>1
  <2>2. /\ h[e].type = "Started" <=> e = 1
        /\ h[e].type # "ActivityFailed"
        /\ h[e].type = "ActivityCompleted" =>
             h[e].ref \in 1..(e - 1) /\ h[h[e].ref].type = "ActivityScheduled"
    BY <2>1 DEF Regular
  <2> QED
    BY <1>1, <2>1, <2>2
<1>4. \A e, x \in 1..Len(g) :
        /\ g[e].type = "ActivityCompleted" /\ g[x].type = "ActivityCompleted"
        /\ g[e].ref = g[x].ref
        => e = x
  BY <1>1 DEF Regular
<1> QED
  BY <1>2, <1>3, <1>4 DEF Regular

\* One more event that the service records on its own.
LEMMA RegularAppends ==
  ASSUME NEW h, Regular(h), NEW k, IsList(k), Len(k) = Len(h) + 1, HasPrefix(k, h),
         k[Len(k)].type \in {"Signaled", "ActivityCompleted", "ActivityTimedOut"},
         k[Len(k)].type = "ActivityCompleted" =>
           k[Len(k)].ref \in ActivityIds(h) /\ ~ Ended(h, k[Len(k)].ref)
  PROVE  Regular(k)
<1>1. /\ Len(h) \in Nat /\ Len(h) >= 1 /\ Len(k) \in Nat /\ Len(k) = Len(h) + 1
      /\ \A i \in 1..Len(h) : k[i] = h[i]
  BY DEF IsList, HasPrefix, Regular
<1>2. NeverClosed(k)
  BY <1>1 DEF Regular, NeverClosed, TerminalEvents
<1>3. \A e \in 1..Len(k) :
        /\ k[e].type = "Started" <=> e = 1
        /\ k[e].type # "ActivityFailed"
        /\ k[e].type = "ActivityCompleted" =>
             k[e].ref \in 1..(e - 1) /\ k[k[e].ref].type = "ActivityScheduled"
  <2> TAKE e \in 1..Len(k)
  <2>1. CASE e = Len(k)
    BY <1>1, <2>1 DEF ActivityIds
  <2>2. CASE e # Len(k)
    <3>1. e \in 1..Len(h) /\ k[e] = h[e] /\ 1..(e - 1) \subseteq 1..Len(h)
      BY <1>1, <2>2
    <3>2. /\ h[e].type = "Started" <=> e = 1
          /\ h[e].type # "ActivityFailed"
          /\ h[e].type = "ActivityCompleted" =>
               h[e].ref \in 1..(e - 1) /\ h[h[e].ref].type = "ActivityScheduled"
      BY <3>1 DEF Regular
    <3> QED
      BY <1>1, <3>1, <3>2
  <2> QED
    BY <2>1, <2>2
<1>4. ASSUME NEW e \in 1..Len(k), NEW x \in 1..Len(k),
             k[e].type = "ActivityCompleted", k[x].type = "ActivityCompleted",
             k[e].ref = k[x].ref
      PROVE  e = x
  <2>1. CASE e = Len(k) /\ x # Len(k)
    BY <1>1, <1>4, <2>1 DEF Ended
  <2>2. CASE x = Len(k) /\ e # Len(k)
    BY <1>1, <1>4, <2>2 DEF Ended
  <2>3. CASE e # Len(k) /\ x # Len(k)
    BY <1>1, <1>4, <2>3 DEF Regular
  <2> QED
    BY <2>1, <2>2, <2>3
<1> QED
  BY <1>1, <1>2, <1>3, <1>4 DEF Regular

\* An activity is scheduled before the events that arrived meanwhile are recorded.
LEMMA RegularInserts ==
  ASSUME NEW h, Regular(h), NEW m \in 1..Len(h), NEW k, IsList(k), Len(k) = Len(h) + 1,
         \A i \in 1..m : k[i] = h[i],
         k[m + 1].type = "ActivityScheduled",
         \A i \in (m + 1)..Len(h) : k[i + 1] = h[i] /\ h[i].type # "ActivityScheduled"
  PROVE  Regular(k)
<1>1. Len(h) \in Nat /\ Len(h) >= 1 /\ Len(k) \in Nat /\ m \in Nat /\ m >= 1
  BY DEF IsList, Regular
\* Where event e of k stood in h.
<1> DEFINE at(e) == IF e <= m THEN e ELSE e - 1
<1>2. \A e \in (1..Len(k)) \ {m + 1} : at(e) \in 1..Len(h) /\ k[e] = h[at(e)]
  <2> TAKE e \in (1..Len(k)) \ {m + 1}
  <2>1. CASE e <= m
    BY <1>1, <2>1
  <2>2. CASE ~ (e <= m)
    <3>1. e - 1 \in (m + 1)..Len(h) /\ (e - 1) + 1 = e /\ at(e) = e - 1
      BY <1>1, <2>2
    <3>2. k[(e - 1) + 1] = h[e - 1]
      BY <3>1
    <3> QED
      BY <1>1, <3>1, <3>2
  <2> QED
    BY <2>1, <2>2
<1>3. NeverClosed(k)
  BY <1>1, <1>2 DEF Regular, NeverClosed, TerminalEvents
<1>4. \A e \in 1..Len(k) :
        /\ k[e].type = "Started" <=> e = 1
        /\ k[e].type # "ActivityFailed"
        /\ k[e].type = "ActivityCompleted" =>
             k[e].ref \in 1..(e - 1) /\ k[k[e].ref].type = "ActivityScheduled"
  <2> TAKE e \in 1..Len(k)
  <2>1. CASE e = m + 1
    BY <1>1, <2>1
  <2>2. CASE e # m + 1
    <3>1. at(e) \in 1..Len(h) /\ k[e] = h[at(e)] /\ (at(e) = 1 <=> e = 1) /\ at(e) <= e
      BY <1>1, <1>2, <2>2
    <3> HIDE DEF at
    <3>2. /\ h[at(e)].type = "Started" <=> at(e) = 1
          /\ h[at(e)].type # "ActivityFailed"
          /\ h[at(e)].type = "ActivityCompleted" =>
               h[at(e)].ref \in 1..(at(e) - 1) /\ h[h[at(e)].ref].type = "ActivityScheduled"
      BY <3>1 DEF Regular
    <3>3. ASSUME k[e].type = "ActivityCompleted"
          PROVE  k[e].ref \in 1..(e - 1) /\ k[k[e].ref].type = "ActivityScheduled"
      <4>1. k[e].ref \in 1..(at(e) - 1) /\ h[k[e].ref].type = "ActivityScheduled"
        BY <3>1, <3>2, <3>3
      <4>2. k[e].ref \in 1..Len(h) /\ k[e].ref \in 1..(e - 1)
        BY <1>1, <3>1, <4>1
      <4>3. k[e].ref \in 1..m
        BY <1>1, <4>1, <4>2
      <4> QED
        BY <4>1, <4>2, <4>3
    <3> QED
      BY <3>1, <3>2, <3>3
  <2> QED
    BY <2>1, <2>2
<1>5. ASSUME NEW e \in 1..Len(k), NEW x \in 1..Len(k),
             k[e].type = "ActivityCompleted", k[x].type = "ActivityCompleted",
             k[e].ref = k[x].ref
      PROVE  e = x
  <2>1. e # m + 1 /\ x # m + 1
    BY <1>5
  <2>2. at(e) \in 1..Len(h) /\ at(x) \in 1..Len(h) /\ k[e] = h[at(e)] /\ k[x] = h[at(x)]
    BY <1>2, <2>1
  <2>3. at(e) = at(x)
    <3> HIDE DEF at
    <3> QED
      BY <1>5, <2>2 DEF Regular
  <2> QED
    BY <1>1, <2>1, <2>3
<1> QED
  BY <1>1, <1>3, <1>4, <1>5 DEF Regular


-----------------------------------------------------------------------------
(* The steps a walk takes.                                                 *)

Taken(spec, w) ==
  {i \in 1..Len(spec) : w[i - 1].at = i /\ w[i - 1].outcome = "Continue"}

\* A walk over the steps of a spec that goes on up to its step p.
GoesOnTo(w, spec, p) ==
  /\ p \in 1..Len(spec)
  /\ \A i \in 0..(p - 1) : w[i].outcome = "Continue"
  /\ w[0].at = 1
  /\ w[p - 1].at = p
  /\ w[p].outcome # "Continue"
  /\ \A i \in p..Len(spec) : w[i] = w[p]
  /\ \A i \in 1..Len(spec) : i \notin Taken(spec, w) => w[i] = w[i - 1]

LEMMA TakenIs ==
  ASSUME NEW spec, Len(spec) \in Nat, NEW w, NEW p, GoesOnTo(w, spec, p)
  PROVE  /\ Taken(spec, w) \subseteq 1..p
         /\ 1 \in Taken(spec, w) /\ p \in Taken(spec, w)
         /\ p \in Nat
         /\ \A i \in 1..p : i \in Taken(spec, w) <=> w[i - 1].at = i
<1>1. p \in 1..Len(spec)
  BY DEF GoesOnTo
<1>2. ASSUME NEW i \in Taken(spec, w) PROVE i \in 1..p
  <2>1. i \in 1..Len(spec) /\ w[i - 1].outcome = "Continue"
    BY DEF Taken
  <2>2. CASE i > p
    <3>1. i - 1 \in p..Len(spec)
      BY <1>1, <2>1, <2>2
    <3>2. w[i - 1] = w[p] /\ w[p].outcome # "Continue"
      BY <3>1 DEF GoesOnTo
    <3> QED
      BY <2>1, <3>2
  <2> QED
    BY <1>1, <2>1, <2>2
<1>3. \A i \in 1..p : i \in Taken(spec, w) <=> w[i - 1].at = i
  <2> TAKE i \in 1..p
  <2>1. i - 1 \in 0..(p - 1) /\ i \in 1..Len(spec)
    BY <1>1
  <2>2. w[i - 1].outcome = "Continue"
    BY <2>1 DEF GoesOnTo
  <2> QED
    BY <2>1, <2>2 DEF Taken
<1>4. 1 \in 1..p /\ p \in 1..p /\ 1 - 1 = 0
  BY <1>1
<1>5. w[0].at = 1 /\ w[p - 1].at = p
  BY DEF GoesOnTo
<1> QED
  BY <1>1, <1>2, <1>3, <1>4, <1>5

\* From a step it takes the walk goes to the next one it takes.
LEMMA NextTaken ==
  ASSUME NEW spec, Len(spec) \in Nat, NEW w, NEW p, GoesOnTo(w, spec, p),
         NEW i \in Taken(spec, w), i # p
  PROVE  \E q \in (i + 1)..p : /\ q \in Taken(spec, w) /\ w[i].at = q
                               /\ \A k \in (i + 1)..(q - 1) : k \notin Taken(spec, w)
<1>a. p \in 1..Len(spec)
  BY DEF GoesOnTo
<1>b. i \in 1..p
  BY TakenIs
<1>1. i \in 1..(p - 1) /\ p \in 1..Len(spec)
  BY <1>a, <1>b
<1> DEFINE S == {k \in (i + 1)..p : k \in Taken(spec, w)}
<1>2. S \subseteq Nat /\ S # {}
  BY <1>1, TakenIs
<1>3. PICK q \in S : \A k \in S : q <= k
  BY <1>2, LeastNatural
<1>4. q \in (i + 1)..p /\ q \in Taken(spec, w)
      /\ \A k \in (i + 1)..(q - 1) : k \notin Taken(spec, w)
  BY <1>1, <1>3
<1> HIDE DEF S
<1> DEFINE Same == {k \in i..(q - 1) : w[k] = w[i]}
<1>5. ASSUME NEW k \in i..((q - 1) - 1), k \in Same PROVE k + 1 \in Same
  <2>1. k + 1 \in (i + 1)..(q - 1) /\ k + 1 \in 1..Len(spec) /\ (k + 1) - 1 = k
    BY <1>1, <1>4
  <2>2. w[k + 1] = w[k]
    BY <1>4, <2>1 DEF GoesOnTo
  <2> QED
    BY <1>1, <1>5, <2>1, <2>2
<1>6. i \in Same /\ i \in Nat /\ q - 1 \in Nat /\ q - 1 \in i..(q - 1)
  BY <1>1, <1>4
<1> HIDE DEF Same
<1>7. q - 1 \in Same
  BY <1>5, <1>6, UpwardInduction
<1>8. w[q - 1] = w[i]
  BY <1>7 DEF Same
<1>9. w[q - 1].at = q
  BY <1>4 DEF Taken
<1> QED
  BY <1>4, <1>8, <1>9

\* Every step it takes but the first was led to.
LEMMA TakenBefore ==
  ASSUME NEW spec, Len(spec) \in Nat, NEW w, NEW p, GoesOnTo(w, spec, p),
         NEW j \in Taken(spec, w), j # 1
  PROVE  \E i \in Taken(spec, w) : i < j /\ i # p /\ w[i].at = j
<1>1. j \in 2..p /\ p \in Nat /\ 1 \in Taken(spec, w)
  BY TakenIs
<1> DEFINE S == {k \in 1..(j - 1) : k \in Taken(spec, w)}
<1>2. S \subseteq 1..(j - 1) /\ S # {} /\ j - 1 \in Nat
  BY <1>1
<1>3. Max(S) \in S /\ \A k \in S : k <= Max(S)
  BY <1>2, MaxIsIn
<1>4. PICK i \in S : \A k \in S : k <= i
  BY <1>3
<1>5. i \in Taken(spec, w) /\ i \in 1..(j - 1) /\ i # p
  BY <1>1, <1>4
<1>6. PICK q \in (i + 1)..p : /\ q \in Taken(spec, w) /\ w[i].at = q
                              /\ \A k \in (i + 1)..(q - 1) : k \notin Taken(spec, w)
  BY <1>5, NextTaken
<1>7. q >= j
  BY <1>1, <1>4, <1>5, <1>6
<1>8. q <= j
  BY <1>1, <1>5, <1>6
<1> QED
  BY <1>1, <1>5, <1>6, <1>7, <1>8

-----------------------------------------------------------------------------
(* Every step it takes is one that the document lets follow the steps      *)
(* before, so the ids it binds are new ones.                               *)

ReachUpTo(reach, spec, i, k) ==
  IF k = 0 THEN LexicalSuccessors(spec, i)
  ELSE IF k \in reach[k - 1] THEN reach[k - 1] \cup LexicalSuccessors(spec, k)
  ELSE reach[k - 1]

IsReach(reach, spec, i, n) == reach = [k \in 0..n |-> ReachUpTo(reach, spec, i, k)]

LEMMA ReachExists ==
  ASSUME NEW spec, NEW i, NEW n \in Nat
  PROVE  \E reach : IsReach(reach, spec, i, n)
<1> DEFINE Bad == {m \in Nat : ~ \E reach : IsReach(reach, spec, i, m)}
<1> SUFFICES ASSUME Bad # {} PROVE FALSE
  OBVIOUS
<1>1. PICK m \in Bad : \A k \in Bad : m <= k
  BY LeastNatural
<1>2. CASE m = 0
  <2> DEFINE f == [k \in 0..0 |-> LexicalSuccessors(spec, i)]
  <2>1. IsReach(f, spec, i, 0)
    BY DEF IsReach, ReachUpTo
  <2> QED
    BY <2>1, <1>2
<1>3. CASE m # 0
  <2>1. m - 1 \in Nat /\ m - 1 \notin Bad
    BY <1>1, <1>3
  <2>2. PICK f : IsReach(f, spec, i, m - 1)
    BY <2>1
  <2> DEFINE last == IF m \in f[m - 1] THEN f[m - 1] \cup LexicalSuccessors(spec, m)
                                       ELSE f[m - 1]
  <2> DEFINE g == [k \in 0..m |-> IF k < m THEN f[k] ELSE last]
  <2>3. \A k \in 0..m : g[k] = ReachUpTo(g, spec, i, k)
    <3> TAKE k \in 0..m
    <3>1. CASE k = m
      <4>1. g[k] = last /\ g[k - 1] = f[m - 1] /\ k # 0
        BY <3>1, <1>3, <2>1
      <4> HIDE DEF g
      <4> QED
        BY <3>1, <4>1 DEF ReachUpTo
    <3>2. CASE k # m
      <4>1. k \in 0..(m - 1) /\ (k # 0 => k - 1 \in 0..(m - 1) /\ g[k - 1] = f[k - 1])
            /\ g[k] = f[k]
        BY <3>2
      <4>2. f[k] = ReachUpTo(f, spec, i, k)
        BY <4>1, <2>1, <2>2 DEF IsReach
      <4> HIDE DEF g
      <4> QED
        BY <4>1, <4>2 DEF ReachUpTo
    <3> QED BY <3>1, <3>2
  <2>4. IsReach(g, spec, i, m)
    BY <2>3 DEF IsReach
  <2> QED
    BY <2>4
<1> QED
  BY <1>2, <1>3

LEMMA FollowsIs ==
  ASSUME NEW spec, Len(spec) \in Nat, NEW i
  PROVE  \E reach :
           /\ \A j : Follows(spec, i, j) <=> j \in reach[Len(spec)]
           /\ reach[0] = LexicalSuccessors(spec, i)
           /\ \A k \in 1..Len(spec) :
                /\ reach[k - 1] \subseteq reach[k]
                /\ k \in reach[k - 1] => LexicalSuccessors(spec, k) \subseteq reach[k]
<1> DEFINE reach == CHOOSE reach : IsReach(reach, spec, i, Len(spec))
<1>1. IsReach(reach, spec, i, Len(spec))
  BY ReachExists
<1>2. \A j : Follows(spec, i, j) <=> j \in reach[Len(spec)]
  BY DEF Follows, IsReach, ReachUpTo
<1> HIDE DEF reach
<1>3. \A k \in 0..Len(spec) : reach[k] = ReachUpTo(reach, spec, i, k)
  BY <1>1 DEF IsReach
<1>4. reach[0] = LexicalSuccessors(spec, i)
  <2>1. 0 \in 0..Len(spec)
    OBVIOUS
  <2> QED
    BY <1>3, <2>1 DEF ReachUpTo
<1>5. ASSUME NEW k \in 1..Len(spec)
      PROVE  /\ reach[k - 1] \subseteq reach[k]
             /\ k \in reach[k - 1] => LexicalSuccessors(spec, k) \subseteq reach[k]
  <2>1. k \in 0..Len(spec) /\ k # 0
    OBVIOUS
  <2>2. reach[k] = IF k \in reach[k - 1] THEN reach[k - 1] \cup LexicalSuccessors(spec, k)
                                         ELSE reach[k - 1]
    BY <1>3, <2>1 DEF ReachUpTo
  <2> QED
    BY <2>2
<1> QED
  BY <1>2, <1>4, <1>5

\* What the walk goes to from a step is what the document has next.
GoesByTheDocument(spec, w, p) ==
  \A i \in Taken(spec, w) : i # p => w[i].at \in LexicalSuccessors(spec, i)

LEMMA TakenFollow ==
  ASSUME NEW spec, Len(spec) \in Nat, NEW w, NEW p, GoesOnTo(w, spec, p),
         GoesByTheDocument(spec, w, p),
         NEW i \in Taken(spec, w), NEW j \in Taken(spec, w), i < j
  PROVE  Follows(spec, i, j)
<1>1. PICK reach :
        /\ \A m : Follows(spec, i, m) <=> m \in reach[Len(spec)]
        /\ reach[0] = LexicalSuccessors(spec, i)
        /\ \A k \in 1..Len(spec) :
             /\ reach[k - 1] \subseteq reach[k]
             /\ k \in reach[k - 1] => LexicalSuccessors(spec, k) \subseteq reach[k]
  BY FollowsIs
<1>2. Taken(spec, w) \subseteq 1..Len(spec) /\ Taken(spec, w) \subseteq 1..p /\ p \in 1..Len(spec)
  BY TakenIs DEF Taken, GoesOnTo
<1>3. ASSUME NEW a \in 0..Len(spec), NEW b \in a..Len(spec)
      PROVE  reach[a] \subseteq reach[b]
  <2> DEFINE S == {k \in a..b : reach[a] \subseteq reach[k]}
  <2>1. a \in S /\ a \in Nat /\ b \in Nat
    OBVIOUS
  <2>2. ASSUME NEW k \in a..(b - 1), k \in S PROVE k + 1 \in S
    <3>1. k + 1 \in 1..Len(spec) /\ (k + 1) - 1 = k /\ k + 1 \in a..b
      OBVIOUS
    <3>2. reach[k] \subseteq reach[k + 1]
      BY <1>1, <3>1
    <3> QED
      BY <2>2, <3>1, <3>2
  <2> HIDE DEF S
  <2>3. \A k \in a..b : k \in S
    BY <2>1, <2>2, UpwardInduction
  <2>4. b \in a..b
    OBVIOUS
  <2> QED
    BY <2>3, <2>4 DEF S
<1> DEFINE Bad == {m \in Taken(spec, w) : i < m /\ m \notin reach[m - 1]}
<1>4. Bad = {}
  <2> SUFFICES ASSUME Bad # {} PROVE FALSE
    OBVIOUS
  <2>1. Bad \subseteq Nat
    BY <1>2
  <2>2. PICK m \in Bad : \A k \in Bad : m <= k
    BY <2>1, LeastNatural
  <2>3. m \in Taken(spec, w) /\ i < m /\ m \notin reach[m - 1] /\ m \in 1..Len(spec)
        /\ i \in 1..Len(spec) /\ m # 1
    BY <2>2, <1>2
  <2>4. PICK l \in Taken(spec, w) : l < m /\ l # p /\ w[l].at = m
    BY <2>3, TakenBefore
  <2>5. m \in LexicalSuccessors(spec, l) /\ l \in 1..Len(spec)
    BY <2>4, <1>2 DEF GoesByTheDocument
  <2>6. CASE l = i
    <3>1. m \in reach[0] /\ m - 1 \in 0..Len(spec)
      BY <2>3, <2>5, <2>6, <1>1
    <3> QED
      BY <3>1, <1>3, <2>3
  <2>7. CASE l > i
    <3>1. l \notin Bad
      BY <2>2, <2>3, <2>4, <2>5
    <3>2. l \in reach[l - 1]
      BY <3>1, <2>7, <2>4
    <3>3. m \in reach[l]
      BY <3>2, <2>5, <1>1
    <3>4. l \in 0..Len(spec) /\ m - 1 \in l..Len(spec)
      BY <2>3, <2>4, <2>5
    <3> QED
      BY <3>3, <3>4, <1>3, <2>3
  <2>8. CASE l < i
    <3>1. PICK q \in (l + 1)..p : /\ q \in Taken(spec, w) /\ w[l].at = q
                                  /\ \A k \in (l + 1)..(q - 1) : k \notin Taken(spec, w)
      BY <2>4, NextTaken
    <3>2. q = m /\ i \in (l + 1)..(q - 1)
      BY <3>1, <2>3, <2>4, <2>5, <2>8
    <3> QED
      BY <3>1, <3>2
  <2> QED
    BY <2>3, <2>5, <2>6, <2>7, <2>8
<1>5. j \in reach[j - 1] /\ j - 1 \in 0..Len(spec) /\ Len(spec) \in (j - 1)..Len(spec)
  BY <1>2, <1>4
<1> QED
  BY <1>1, <1>3, <1>5

-----------------------------------------------------------------------------
(* A walk from nothing, as a walk over the steps it takes.                 *)

LEMMA ScratchGoes ==
  ASSUME NEW spec, Len(spec) \in Nat, NEW h, Regular(h), NEW w, NEW p, StoppedAt(w, spec, h, p)
  PROVE  GoesOnTo(w, spec, p)
<1>1. IsWalk(w, spec, ScratchRun(spec, h), StartFrom(h, FreshState(spec)))
  BY DEF StoppedAt, IsScratchWalk, IsWalkFrom, ScratchRun
<1>2. w[0].at = 1
  BY <1>1 DEF IsWalk, StartFrom
<1>3. p \in 1..Len(spec) /\ w[p].outcome # "Continue" /\ w[p - 1].at = p
      /\ \A i \in 0..(p - 1) : w[i].outcome = "Continue"
  BY DEF StoppedAt
<1>4. \A i \in p..Len(spec) : w[i] = w[p]
  <2>1. p \in 0..Len(spec)
    BY <1>3
  <2> QED
    BY <1>1, <1>3, <2>1, WalkHalts
<1>5. \A i \in 1..Len(spec) : i \notin Taken(spec, w) => w[i] = w[i - 1]
  BY <1>1 DEF IsWalk, Visit, Taken
<1> QED
  BY <1>2, <1>3, <1>4, <1>5 DEF GoesOnTo

\* Where it does not stop, a step passes, takes its result or branches; and where it
\* stops, nothing has failed.
MovesOnBy(step, run, c, d) ==
  \/ Passes(step, c, d) \/ Takes(step, run, c, d)
  \/ TakesSignal(step, run, c, d) \/ Branches(step, c, d)

StopsBy(step, run, c, d) ==
  \/ Awaits(step, run, c, d) \/ Schedules(step, run, c, d)
  \/ Waits(step, run, c, d) \/ Completes(step, c, d)

LEMMA ScratchMoves ==
  ASSUME NEW spec, Len(spec) \in Nat, NEW h, Regular(h), NEW w, NEW p, StoppedAt(w, spec, h, p),
         NEW i \in Taken(spec, w)
  PROVE  /\ IsCtx(w[i - 1]) /\ IsCtx(w[i]) /\ w[i - 1].outcome = "Continue"
         /\ i # p => MovesOnBy(spec[i], ScratchRun(spec, h), w[i - 1], w[i])
         /\ i = p => StopsBy(spec[i], ScratchRun(spec, h), w[i - 1], w[i])
<1>1. IsScratchWalk(w, spec, h)
  BY DEF StoppedAt
<1>2. IsOpenRun(ScratchRun(spec, h))
  BY <1>1, ScratchContexts
<1>3. \A k \in 0..Len(spec) : IsCtx(w[k])
  BY <1>1, ScratchContexts
<1>4. \A k \in 1..Len(spec) : StepTakes(spec, ScratchRun(spec, h), w[k - 1], w[k], k)
  BY <1>1, ScratchContexts
<1>5. i \in 1..Len(spec) /\ w[i - 1].at = i /\ w[i - 1].outcome = "Continue"
      /\ i - 1 \in 0..Len(spec) /\ i \in 0..Len(spec)
  BY DEF Taken
<1>6. StepMakes(spec[i], ScratchRun(spec, h), w[i - 1], w[i])
  BY <1>4, <1>5 DEF StepTakes
<1>7. GoesOnTo(w, spec, p)
  BY ScratchGoes
<1>8. i \in 1..p /\ p \in Nat
  BY <1>7, TakenIs
<1>9. i # p => MovesOnBy(spec[i], ScratchRun(spec, h), w[i - 1], w[i])
  <2> SUFFICES ASSUME i # p PROVE MovesOnBy(spec[i], ScratchRun(spec, h), w[i - 1], w[i])
    OBVIOUS
  <2>1. i \in 0..(p - 1)
    BY <1>8
  <2>2. w[i].outcome = "Continue"
    BY <2>1, <1>7 DEF GoesOnTo
  <2> QED
    BY <1>6, <2>2 DEF StepMakes, MovesOnBy, Awaits, Fails, Schedules, Waits, Completes, Errs
<1>10. i = p => StopsBy(spec[i], ScratchRun(spec, h), w[i - 1], w[i])
  <2> SUFFICES ASSUME i = p PROVE StopsBy(spec[i], ScratchRun(spec, h), w[i - 1], w[i])
    OBVIOUS
  <2>1. w[i].outcome = "Stop"
    BY DEF StoppedAt
  <2>2. ~ Fails(spec[i], ScratchRun(spec, h), w[i - 1], w[i])
    <3> SUFFICES ASSUME Fails(spec[i], ScratchRun(spec, h), w[i - 1], w[i]) PROVE FALSE
      OBVIOUS
    <3>1. w[i - 1].cursor < Len(ScratchRun(spec, h).records)
      BY DEF Fails, AtRecord
    <3>2. w[i - 1].cursor + 1 \in 1..Len(ScratchRun(spec, h).records)
      BY <1>2, <1>3, <1>5, <3>1, NextRecordExists
    <3> QED
      BY <3>2, NeverFailed DEF Fails, NextRecord
  <2>3. SameBut(w[i], w[i - 1], {"at"}) => w[i].outcome = w[i - 1].outcome
    BY DEF SameBut, CtxFields
  <2>4. SameBut(w[i], w[i - 1], {"at", "cursor", "nextSeq", "results"})
          => w[i].outcome = w[i - 1].outcome
    BY DEF SameBut, CtxFields
  <2>5. SameBut(w[i], w[i - 1], {"at", "claim", "consumed", "results"})
          => w[i].outcome = w[i - 1].outcome
    BY DEF SameBut, CtxFields
  <2> QED
    BY <1>5, <1>6, <2>1, <2>2, <2>3, <2>4, <2>5
       DEF StepMakes, StopsBy, Passes, Takes, TakesSignal, Branches, Errs
<1> QED
  BY <1>3, <1>5, <1>9, <1>10

LEMMA ScratchByTheDocument ==
  ASSUME NEW spec, Len(spec) \in Nat, NEW h, Regular(h), NEW w, NEW p, StoppedAt(w, spec, h, p)
  PROVE  GoesByTheDocument(spec, w, p)
<1> SUFFICES ASSUME NEW i \in Taken(spec, w), i # p
             PROVE  w[i].at \in LexicalSuccessors(spec, i)
  BY DEF GoesByTheDocument
<1>1. MovesOnBy(spec[i], ScratchRun(spec, h), w[i - 1], w[i])
  BY ScratchMoves
<1> QED
  BY <1>1 DEF MovesOnBy, Passes, Takes, AtRecord, AtActivity, TakesSignal, AtWait, Branches,
              IsBinding, LexicalSuccessors

-----------------------------------------------------------------------------
(* Ranks, and what a step is worth.                                        *)

ActsBefore(spec, run, i) == {j \in run : j < i /\ spec[j].kind = "activity"}

WaitsBefore(spec, run, i, name) ==
  {j \in run : j < i /\ spec[j].kind = "wait_signal" /\ spec[j].name = name}

Binders(spec, run, i, key) == {j \in run : j < i /\ Binds(spec[j], key)}

LatestBinder(spec, run, i, key) == Max(Binders(spec, run, i, key))

LEMMA OneMore ==
  ASSUME NEW n \in Nat, NEW A, A \subseteq 1..n, NEW i, i \notin A, NEW B, B = A \cup {i}
  PROVE  Cardinality(A) \in Nat /\ Cardinality(B) = Cardinality(A) + 1
<1>1. IsFiniteSet(1..n)
  BY FS_Interval
<1>2. IsFiniteSet(A)
  BY <1>1, FS_Subset
<1> QED
  BY <1>2, FS_CardinalityType, FS_AddElement

LEMMA RanksAre ==
  ASSUME NEW spec, Len(spec) \in Nat, NEW run, run \subseteq 1..Len(spec), NEW i \in run
  PROVE  /\ Cardinality(ActsBefore(spec, run, i)) \in Nat
         /\ \A name : Cardinality(WaitsBefore(spec, run, i, name)) \in Nat
         /\ spec[i].kind = "activity" =>
              /\ RankOf(spec, run, i) = Cardinality(ActsBefore(spec, run, i)) + 1
              /\ Cardinality(ActsBefore(spec, run, i + 1))
                   = Cardinality(ActsBefore(spec, run, i)) + 1
         /\ spec[i].kind = "wait_signal" =>
              /\ RankOf(spec, run, i)
                   = Cardinality(WaitsBefore(spec, run, i, spec[i].name)) + 1
              /\ Cardinality(WaitsBefore(spec, run, i + 1, spec[i].name))
                   = Cardinality(WaitsBefore(spec, run, i, spec[i].name)) + 1
<1> DEFINE Same == {j \in run : /\ j <= i
                                /\ spec[j].kind = spec[i].kind
                                /\ spec[i].kind = "wait_signal" => spec[j].name = spec[i].name}
<1>1. RankOf(spec, run, i) = Cardinality(Same)
  BY DEF RankOf
<1>2. /\ ActsBefore(spec, run, i) \subseteq 1..Len(spec)
      /\ i \notin ActsBefore(spec, run, i)
      /\ \A name : /\ WaitsBefore(spec, run, i, name) \subseteq 1..Len(spec)
                   /\ i \notin WaitsBefore(spec, run, i, name)
  BY DEF ActsBefore, WaitsBefore
<1>3. Cardinality(ActsBefore(spec, run, i)) \in Nat
  BY <1>2, OneMore
<1>4. \A name : Cardinality(WaitsBefore(spec, run, i, name)) \in Nat
  BY <1>2, OneMore
<1>5. ASSUME spec[i].kind = "activity"
      PROVE  /\ Cardinality(Same) = Cardinality(ActsBefore(spec, run, i)) + 1
             /\ Cardinality(ActsBefore(spec, run, i + 1))
                  = Cardinality(ActsBefore(spec, run, i)) + 1
  <2>1. Same = ActsBefore(spec, run, i) \cup {i}
    <3>1. \A j \in run : j <= i <=> j < i \/ j = i
      OBVIOUS
    <3>2. Same = {j \in run : (j < i \/ j = i) /\ spec[j].kind = "activity"}
      BY <1>5, <3>1
    <3> HIDE DEF Same
    <3> QED
      BY <1>5, <3>2 DEF ActsBefore
  <2>2. ActsBefore(spec, run, i + 1) = ActsBefore(spec, run, i) \cup {i}
    BY <1>5 DEF ActsBefore
  <2> QED
    BY <1>2, <2>1, <2>2, OneMore
<1>6. ASSUME spec[i].kind = "wait_signal"
      PROVE  /\ Cardinality(Same) = Cardinality(WaitsBefore(spec, run, i, spec[i].name)) + 1
             /\ Cardinality(WaitsBefore(spec, run, i + 1, spec[i].name))
                  = Cardinality(WaitsBefore(spec, run, i, spec[i].name)) + 1
  <2>1. Same = WaitsBefore(spec, run, i, spec[i].name) \cup {i}
    BY <1>6 DEF WaitsBefore
  <2>2. WaitsBefore(spec, run, i + 1, spec[i].name)
          = WaitsBefore(spec, run, i, spec[i].name) \cup {i}
    BY <1>6 DEF WaitsBefore
  <2> QED
    BY <1>2, <2>1, <2>2, OneMore
<1> QED
  BY <1>1, <1>3, <1>4, <1>5, <1>6

LEMMA EndsAre ==
  ASSUME NEW h, Regular(h), NEW fr, IsFresh(fr), NEW k
  PROVE  /\ ScheduledIds(h) = Activities(h)
         /\ EndsOf(h, k) = EndsIn(h, fr, Activities(h)[k])
         /\ \A e \in EndsOf(h, k) : e \in 1..Len(h) /\ h[e].type = "ActivityCompleted"
<1>1. ScheduledIds(h) = Activities(h)
  BY DEF ScheduledIds, Activities, ActivityIds
<1>2. Suffix(h, fr) = 1..Len(h)
  BY DEF Suffix, IsFresh
<1>3. EndsOf(h, k) = EndsIn(h, fr, Activities(h)[k])
  BY <1>1, <1>2 DEF EndsOf, EndsIn, InSuffix
<1>4. \A e \in EndsOf(h, k) : e \in 1..Len(h) /\ h[e].type = "ActivityCompleted"
  BY DEF EndsOf, ActivityEnds, Regular
<1> QED
  BY <1>1, <1>3, <1>4

\* The k-th activity has its result when the walk's k-th record has it.
LEMMA RecordIsEnd ==
  ASSUME NEW spec, NEW h, Regular(h), NEW k \in 1..Len(Activities(h))
  PROVE  /\ EndsOf(h, k) # {} <=>
              ScratchRun(spec, h).records[k].status = "ActivityCompleted"
         /\ EndsOf(h, k) # {} =>
              ScratchRun(spec, h).records[k].value = Payload(h[Max(EndsOf(h, k))].value)
<1> DEFINE fr == FreshState(spec)
<1>1. IsFresh(fr)
  BY FreshStateIs
<1> HIDE DEF fr
<1>2. ScratchRun(spec, h).records[k] = RecordOf(h, FreshState(spec), k)
  BY ScratchLength
<1>3. ScratchRun(spec, h).records[k] = RecordOf(h, fr, k)
  BY <1>2 DEF fr
<1>4. EndsOf(h, k) = EndsIn(h, fr, Activities(h)[k])
  BY <1>1, EndsAre
<1>5. \A e \in EndsOf(h, k) : e \in 1..Len(h) /\ h[e].type = "ActivityCompleted"
  BY <1>1, EndsAre
<1>6. Len(h) \in Nat
  BY DEF Regular, IsList
<1>7. EndsOf(h, k) # {} => Max(EndsOf(h, k)) \in EndsOf(h, k)
  <2>1. EndsOf(h, k) \subseteq 1..Len(h)
    BY <1>5
  <2> QED
    BY <2>1, <1>6, MaxIsIn
<1>8. /\ RecordOf(h, fr, k).status = StatusIn(h, fr, Activities(h)[k])
      /\ RecordOf(h, fr, k).value = ValueIn(h, fr, Activities(h)[k])
  BY RecordOfIs
<1>9. CASE EndsOf(h, k) = {}
  BY <1>3, <1>4, <1>8, <1>9 DEF StatusIn
<1>10. CASE EndsOf(h, k) # {}
  <2>1. h[Max(EndsOf(h, k))].type = "ActivityCompleted"
    BY <1>5, <1>7, <1>10
  <2> QED
    BY <1>3, <1>4, <1>8, <1>10, <2>1 DEF StatusIn, ValueIn, LastEnd
<1> QED
  BY <1>9, <1>10

LEMMA ActivityWorth ==
  ASSUME NEW spec, Len(spec) \in Nat, NEW h, Regular(h),
         NEW run, run \subseteq 1..Len(spec), NEW i \in run, spec[i].kind = "activity",
         NEW n, n = Cardinality(ActsBefore(spec, run, i))
  PROVE  LET records == ScratchRun(spec, h).records
         IN  StepValue(spec, h, run, i)
               = IF n < Len(records) /\ records[n + 1].status = "ActivityCompleted"
                 THEN records[n + 1].value ELSE Nothing
<1>1. n \in Nat /\ RankOf(spec, run, i) = n + 1
  BY RanksAre
<1>2. ScheduledIds(h) = Activities(h)
  BY FreshStateIs, EndsAre
<1>3. Len(ScratchRun(spec, h).records) = Len(Activities(h)) /\ Len(Activities(h)) \in Nat
  BY ScratchLength
<1>4. StepValue(spec, h, run, i)
        = IF n + 1 <= Len(Activities(h)) /\ \E e \in EndsOf(h, n + 1) : h[e].type = "ActivityCompleted"
          THEN Payload(h[Max(EndsOf(h, n + 1))].value) ELSE Nothing
  BY <1>1, <1>2 DEF StepValue
<1>5. CASE n + 1 <= Len(Activities(h))
  <2>1. n + 1 \in 1..Len(Activities(h)) /\ n < Len(Activities(h))
    BY <1>1, <1>3, <1>5
  <2>2. EndsOf(h, n + 1) # {} <=> \E e \in EndsOf(h, n + 1) : h[e].type = "ActivityCompleted"
    BY FreshStateIs, EndsAre
  <2>3. /\ EndsOf(h, n + 1) # {} <=>
             ScratchRun(spec, h).records[n + 1].status = "ActivityCompleted"
        /\ EndsOf(h, n + 1) # {} =>
             ScratchRun(spec, h).records[n + 1].value = Payload(h[Max(EndsOf(h, n + 1))].value)
    BY <2>1, RecordIsEnd
  <2> QED
    BY <1>3, <1>4, <1>5, <2>1, <2>2, <2>3
<1>6. CASE ~ (n + 1 <= Len(Activities(h)))
  <2>1. ~ (n < Len(Activities(h)))
    BY <1>1, <1>3, <1>6
  <2> QED
    BY <1>3, <1>4, <1>6, <2>1
<1> QED
  BY <1>5, <1>6

LEMMA WaitWorth ==
  ASSUME NEW spec, Len(spec) \in Nat, NEW h,
         NEW run, run \subseteq 1..Len(spec), NEW i \in run, spec[i].kind = "wait_signal",
         Len(SignalsNamed(h, spec[i].name)) \in Nat,
         NEW n, n = Cardinality(WaitsBefore(spec, run, i, spec[i].name))
  PROVE  StepValue(spec, h, run, i)
           = IF n < Len(SignalsNamed(h, spec[i].name))
             THEN Payload(h[SignalsNamed(h, spec[i].name)[n + 1]].value) ELSE Nothing
<1>1. n \in Nat /\ RankOf(spec, run, i) = n + 1
  BY RanksAre
<1>2. n + 1 <= Len(SignalsNamed(h, spec[i].name)) <=> n < Len(SignalsNamed(h, spec[i].name))
  BY <1>1
<1> QED
  BY <1>1, <1>2 DEF StepValue

-----------------------------------------------------------------------------
(* Before each step the walk has bound what the steps it took bind, with   *)
(* the values they are worth, and counted what they claim.                 *)

KeysTrack(spec, h, run, i, results) ==
  \A key :
    /\ key \in DOMAIN results <=> key # Nothing /\ Binders(spec, run, i, key) # {}
    /\ key \in DOMAIN results =>
         results[key] = StepValue(spec, h, run, LatestBinder(spec, run, i, key))

Tracks(spec, h, run, i, c) ==
  /\ c.input = h[1].value
  /\ KeysTrack(spec, h, run, i, c.results)
  /\ c.cursor = Cardinality(ActsBefore(spec, run, i))
  /\ \A name : Count(c.claim, name) = Cardinality(WaitsBefore(spec, run, i, name))

\* A binding step takes names that no step before it has.
LEMMA NewName ==
  ASSUME NEW spec, Len(spec) \in Nat, Accepted(spec), WellNamed(spec),
         NEW w, NEW p, GoesOnTo(w, spec, p), GoesByTheDocument(spec, w, p),
         NEW i \in Taken(spec, w), IsBinding(spec[i])
  PROVE  Binders(spec, Taken(spec, w), i, spec[i].id) = {} /\ spec[i].id # Nothing
<1>1. i \in 1..Len(spec)
  BY DEF Taken
<1>2. spec[i].id # Nothing
  BY <1>1 DEF WellNamed
<1>3. ASSUME NEW j \in Taken(spec, w), j < i, Binds(spec[j], spec[i].id) PROVE FALSE
  <2>1. j \in 1..Len(spec) /\ j \in 1..(i - 1)
    BY <1>1, <1>3 DEF Taken
  <2>2. CASE spec[j].id = spec[i].id
    <3>1. Follows(spec, j, i)
      BY <1>3, TakenFollow
    <3>2. IsBinding(spec[j])
      BY <1>3 DEF Binds
    <3> QED
      BY <1>1, <2>1, <2>2, <3>1, <3>2 DEF Accepted, PathIdsUnique
  <2>3. CASE spec[j].kind = "wait_signal" /\ spec[i].id = spec[j].bindTo
    BY <1>1, <2>1, <2>3 DEF WellNamed
  <2> QED
    BY <1>3, <2>2, <2>3 DEF Binds
<1> QED
  BY <1>2, <1>3 DEF Binders

\* Right after a step that binds the key, the step is its latest binder.
BindsLast(spec, run, i, key) == LatestBinder(spec, run, i + 1, key) = i

LEMMA BindersGrow ==
  ASSUME NEW spec, NEW n \in Nat, NEW run, run \subseteq 1..n, NEW i \in run, NEW key
  PROVE  /\ ~ Binds(spec[i], key) =>
              Binders(spec, run, i + 1, key) = Binders(spec, run, i, key)
         /\ Binds(spec[i], key) =>
              Binders(spec, run, i + 1, key) # {} /\ BindsLast(spec, run, i, key)
<1>1. i \in Nat /\ \A j \in run : j \in Nat /\ (j < i + 1 <=> j < i \/ j = i)
  OBVIOUS
<1>2. ASSUME ~ Binds(spec[i], key)
      PROVE  Binders(spec, run, i + 1, key) = Binders(spec, run, i, key)
  BY <1>1, <1>2 DEF Binders
<1>3. ASSUME Binds(spec[i], key)
      PROVE  Binders(spec, run, i + 1, key) # {} /\ BindsLast(spec, run, i, key)
  <2> DEFINE B == Binders(spec, run, i + 1, key)
  <2>a. i \in B
    BY <1>1, <1>3 DEF Binders
  <2>b. B \subseteq 1..i
    <3> SUFFICES ASSUME NEW j \in B PROVE j \in 1..i
      OBVIOUS
    <3>1. j \in run /\ j < i + 1
      BY DEF Binders
    <3> QED
      BY <3>1
  <2>1. i \in B /\ B \subseteq 1..i /\ i \in Nat
    BY <1>1, <2>a, <2>b
  <2> HIDE DEF B
  <2>2. Max(B) \in B /\ \A k \in B : k <= Max(B)
    BY <2>1, MaxIsIn
  <2>3. Max(B) = i
    <3> PICK m : m = Max(B)
      OBVIOUS
    <3>1. m \in 1..i /\ i <= m
      BY <2>1, <2>2
    <3> QED
      BY <2>1, <3>1
  <2> QED
    BY <2>1, <2>3 DEF B, LatestBinder, BindsLast
<1> QED
  BY <1>2, <1>3

LEMMA KeysTrackNext ==
  ASSUME NEW spec, NEW h, NEW n \in Nat, NEW run, run \subseteq 1..n, NEW i \in run,
         NEW before, KeysTrack(spec, h, run, i, before), NEW after,
         \A key : key \in DOMAIN after <=>
                    key \in DOMAIN before \/ (key # Nothing /\ Binds(spec[i], key)),
         \A key \in DOMAIN after :
           after[key] = IF Binds(spec[i], key) THEN StepValue(spec, h, run, i) ELSE before[key]
  PROVE  KeysTrack(spec, h, run, i + 1, after)
<1> SUFFICES ASSUME NEW key
             PROVE  /\ key \in DOMAIN after <=>
                         key # Nothing /\ Binders(spec, run, i + 1, key) # {}
                    /\ key \in DOMAIN after =>
                         after[key] =
                           StepValue(spec, h, run, LatestBinder(spec, run, i + 1, key))
  BY DEF KeysTrack
<1>1. /\ key \in DOMAIN before <=> key # Nothing /\ Binders(spec, run, i, key) # {}
      /\ key \in DOMAIN before =>
           before[key] = StepValue(spec, h, run, LatestBinder(spec, run, i, key))
  BY DEF KeysTrack
<1>2. CASE Binds(spec[i], key)
  <2>1. Binders(spec, run, i + 1, key) # {}
    BY <1>2, BindersGrow
  <2>2. BindsLast(spec, run, i, key)
    BY <1>2, BindersGrow
  <2>3. LatestBinder(spec, run, i + 1, key) = i
    BY <2>2 DEF BindsLast
  <2> QED
    BY <1>1, <1>2, <2>1, <2>3
<1>3. CASE ~ Binds(spec[i], key)
  <2>1. Binders(spec, run, i + 1, key) = Binders(spec, run, i, key)
    BY <1>3, BindersGrow
  <2>2. LatestBinder(spec, run, i + 1, key) = LatestBinder(spec, run, i, key)
    BY <2>1 DEF LatestBinder
  <2> QED
    BY <1>1, <1>3, <2>1, <2>2
<1> QED
  BY <1>2, <1>3

\* A step the walk does not take changes no count and no name.
LEMMA UntakenCounts ==
  ASSUME NEW spec, NEW h, NEW n \in Nat, NEW run, run \subseteq 1..n,
         NEW i \in Nat, i \notin run, NEW c, Tracks(spec, h, run, i, c)
  PROVE  Tracks(spec, h, run, i + 1, c)
<1>1. \A j \in run : j < i + 1 <=> j < i
  OBVIOUS
<1>2. ActsBefore(spec, run, i + 1) = ActsBefore(spec, run, i)
  BY <1>1 DEF ActsBefore
<1>3. \A name : WaitsBefore(spec, run, i + 1, name) = WaitsBefore(spec, run, i, name)
  BY <1>1 DEF WaitsBefore
<1>4. \A key : Binders(spec, run, i + 1, key) = Binders(spec, run, i, key)
  BY <1>1 DEF Binders
<1>5. \A key : LatestBinder(spec, run, i + 1, key) = LatestBinder(spec, run, i, key)
  BY <1>4 DEF LatestBinder
<1>6. KeysTrack(spec, h, run, i + 1, c.results)
  BY <1>4, <1>5 DEF Tracks, KeysTrack
<1> QED
  BY <1>2, <1>3, <1>6 DEF Tracks

\* Nor does a step of another kind.
LEMMA OtherCounts ==
  ASSUME NEW spec, NEW n \in Nat, NEW run, run \subseteq 1..n, NEW i \in run
  PROVE  /\ spec[i].kind # "activity" =>
              ActsBefore(spec, run, i + 1) = ActsBefore(spec, run, i)
         /\ \A name : spec[i].kind # "wait_signal" \/ name # spec[i].name =>
              WaitsBefore(spec, run, i + 1, name) = WaitsBefore(spec, run, i, name)
<1>1. \A j \in run : j < i + 1 <=> j < i \/ j = i
  OBVIOUS
<1>2. ASSUME spec[i].kind # "activity"
      PROVE  ActsBefore(spec, run, i + 1) = ActsBefore(spec, run, i)
  BY <1>1, <1>2 DEF ActsBefore
<1>3. ASSUME NEW name, spec[i].kind # "wait_signal" \/ name # spec[i].name
      PROVE  WaitsBefore(spec, run, i + 1, name) = WaitsBefore(spec, run, i, name)
  BY <1>1, <1>3 DEF WaitsBefore
<1> QED
  BY <1>2, <1>3

LEMMA TakesTracks ==
  ASSUME NEW spec, Len(spec) \in Nat, NEW h, Regular(h),
         NEW run, run \subseteq 1..Len(spec), NEW i \in run, spec[i].id # Nothing,
         NEW c, IsCtx(c), NEW d, Takes(spec[i], ScratchRun(spec, h), c, d),
         Tracks(spec, h, run, i, c)
  PROVE  Tracks(spec, h, run, i + 1, d)
<1> DEFINE rec == NextRecord(ScratchRun(spec, h), c)
<1>1. /\ spec[i].kind = "activity"
      /\ c.cursor < Len(ScratchRun(spec, h).records)
      /\ rec.status = "ActivityCompleted"
      /\ d.cursor = c.cursor + 1
      /\ d.results = Put(c.results, spec[i].id, rec.value)
  BY DEF Takes, AtRecord, AtActivity
<1>2. d.input = c.input /\ d.claim = c.claim
  <2>1. SameBut(d, c, {"at", "cursor", "nextSeq", "results"})
    BY DEF Takes
  <2> QED
    BY <2>1 DEF SameBut, CtxFields
<1>3. c.cursor = Cardinality(ActsBefore(spec, run, i))
  BY DEF Tracks
<1>4. rec = ScratchRun(spec, h).records[c.cursor + 1]
  BY DEF NextRecord
<1> HIDE DEF rec
<1>5. StepValue(spec, h, run, i) = rec.value
  BY <1>1, <1>3, <1>4, ActivityWorth
<1>6. \A key : Binds(spec[i], key) <=> key = spec[i].id
  BY <1>1 DEF Binds, IsBinding
<1>7. KeysTrack(spec, h, run, i + 1, d.results)
  <2>1. KeysTrack(spec, h, run, i, c.results)
    BY DEF Tracks
  <2>2. DOMAIN d.results = DOMAIN c.results \cup {spec[i].id}
    BY <1>1 DEF Put
  <2>3. \A key \in DOMAIN c.results \cup {spec[i].id} :
          d.results[key] = IF key = spec[i].id THEN rec.value ELSE c.results[key]
    BY <1>1 DEF Put
  <2>4. \A key : key \in DOMAIN d.results <=>
                   key \in DOMAIN c.results \/ (key # Nothing /\ Binds(spec[i], key))
    BY <1>6, <2>2
  <2>5. \A key \in DOMAIN d.results :
          d.results[key] = IF Binds(spec[i], key) THEN StepValue(spec, h, run, i)
                                                  ELSE c.results[key]
    BY <1>5, <1>6, <2>2, <2>3
  <2> QED
    BY <2>1, <2>4, <2>5, KeysTrackNext
<1>8. d.cursor = Cardinality(ActsBefore(spec, run, i + 1))
  <2>1. Cardinality(ActsBefore(spec, run, i + 1)) = Cardinality(ActsBefore(spec, run, i)) + 1
    BY <1>1, RanksAre
  <2> QED
    BY <1>1, <1>3, <2>1
<1>9. \A name : Count(d.claim, name) = Cardinality(WaitsBefore(spec, run, i + 1, name))
  <2>1. \A name : WaitsBefore(spec, run, i + 1, name) = WaitsBefore(spec, run, i, name)
    BY <1>1, OtherCounts
  <2> QED
    BY <1>2, <2>1 DEF Tracks
<1>10. d.input = h[1].value
  BY <1>2 DEF Tracks
<1> QED
  BY <1>7, <1>8, <1>9, <1>10 DEF Tracks

\* A walk from nothing counts signals from the first.
LEMMA SignalIsRanked ==
  ASSUME NEW spec, Len(spec) \in Nat, NEW h, Regular(h),
         NEW run, run \subseteq 1..Len(spec), NEW i \in run, spec[i].kind = "wait_signal",
         NEW c, Tracks(spec, h, run, i, c)
  PROVE  LET all == ScratchRun(spec, h)
         IN  /\ NextSignal(spec[i], all, c) = Cardinality(WaitsBefore(spec, run, i, spec[i].name))
             /\ HasSignal(spec[i], all, c) =>
                  StepValue(spec, h, run, i) = SignalPayload(spec[i], all, c)
             /\ ~ HasSignal(spec[i], all, c) => StepValue(spec, h, run, i) = Nothing
<1> DEFINE all == ScratchRun(spec, h)
           n == Cardinality(WaitsBefore(spec, run, i, spec[i].name))
           signals == SignalsNamed(h, spec[i].name)
<1>1. all.history = h
  BY DEF ScratchRun, RunFrom
<1>2. IsScratchRun(all)
  BY FreshStateIs, RunIsScratch DEF ScratchRun
<1>3. all.base = EmptyMap /\ Len(SignalsNamed(all.history, spec[i].name)) \in Nat
  BY <1>2 DEF IsScratchRun, IsOpenRun
<1>4. Count(all.base, spec[i].name) = 0
  BY <1>3 DEF Count, EmptyMap
<1>5. Count(c.claim, spec[i].name) = n /\ n \in Nat
  BY RanksAre DEF Tracks
<1>6. Len(signals) \in Nat
  BY <1>1, <1>3
<1>7. StepValue(spec, h, run, i)
        = IF n < Len(signals) THEN Payload(h[signals[n + 1]].value) ELSE Nothing
  BY <1>6, WaitWorth
<1> HIDE DEF all, n
<1>8. NextSignal(spec[i], all, c) = n
  BY <1>4, <1>5 DEF NextSignal
<1>9. HasSignal(spec[i], all, c) <=> n < Len(signals)
  BY <1>1, <1>8 DEF HasSignal
<1>10. SignalPayload(spec[i], all, c) = Payload(h[signals[n + 1]].value)
  BY <1>1, <1>8 DEF SignalPayload
<1> QED
  BY <1>7, <1>8, <1>9, <1>10 DEF all, n

LEMMA SignalTracks ==
  ASSUME NEW spec, Len(spec) \in Nat, NEW h, Regular(h),
         NEW run, run \subseteq 1..Len(spec), NEW i \in run, spec[i].id # Nothing,
         NEW c, IsCtx(c), NEW d, TakesSignal(spec[i], ScratchRun(spec, h), c, d),
         Tracks(spec, h, run, i, c)
  PROVE  Tracks(spec, h, run, i + 1, d)
<1> DEFINE val == SignalPayload(spec[i], ScratchRun(spec, h), c)
           id == spec[i].id
           alias == spec[i].bindTo
<1>1. /\ spec[i].kind = "wait_signal"
      /\ HasSignal(spec[i], ScratchRun(spec, h), c)
      /\ d.claim = Put(c.claim, spec[i].name, Count(c.claim, spec[i].name) + 1)
      /\ d.results = Binding(spec[i], ScratchRun(spec, h), c)
  BY DEF TakesSignal, AtWait
<1>2. d.input = c.input /\ d.cursor = c.cursor
  <2>1. SameBut(d, c, {"at", "claim", "consumed", "results"})
    BY DEF TakesSignal
  <2> QED
    BY <2>1 DEF SameBut, CtxFields
<1>3. StepValue(spec, h, run, i) = val
  BY <1>1, SignalIsRanked
<1>4. d.results = IF alias = Nothing THEN Put(c.results, id, val)
                  ELSE Put(Put(c.results, id, val), alias, val)
  BY <1>1 DEF Binding
<1>5. \A key : Binds(spec[i], key) <=> key = id \/ key = alias
  BY <1>1 DEF Binds, IsBinding
<1> HIDE DEF val, id, alias
<1>6. id # Nothing
  BY DEF id
<1>7. KeysTrack(spec, h, run, i + 1, d.results)
  <2>1. KeysTrack(spec, h, run, i, c.results)
    BY DEF Tracks
  <2> DEFINE one == Put(c.results, id, val)
  <2>2. DOMAIN one = DOMAIN c.results \cup {id}
    BY DEF Put, one
  <2>3. \A key \in DOMAIN c.results \cup {id} :
          one[key] = IF key = id THEN val ELSE c.results[key]
    BY DEF Put, one
  <2> HIDE DEF one
  <2>4. alias # Nothing =>
          /\ DOMAIN d.results = DOMAIN one \cup {alias}
          /\ \A key \in DOMAIN one \cup {alias} :
               d.results[key] = IF key = alias THEN val ELSE one[key]
    BY <1>4 DEF Put, one
  <2>5. alias = Nothing => d.results = one
    BY <1>4 DEF one
  <2>6. \A key : key \in DOMAIN d.results <=>
                   key \in DOMAIN c.results \/ (key # Nothing /\ Binds(spec[i], key))
    BY <1>5, <1>6, <2>2, <2>4, <2>5
  <2>7. Nothing \notin DOMAIN c.results
    BY <2>1 DEF KeysTrack
  <2>8. \A key \in DOMAIN d.results :
          d.results[key] = IF Binds(spec[i], key) THEN StepValue(spec, h, run, i)
                                                  ELSE c.results[key]
    BY <1>3, <1>5, <1>6, <2>2, <2>3, <2>4, <2>5, <2>6, <2>7
  <2> QED
    BY <2>1, <2>6, <2>8, KeysTrackNext
<1>8. d.cursor = Cardinality(ActsBefore(spec, run, i + 1))
  <2>1. ActsBefore(spec, run, i + 1) = ActsBefore(spec, run, i)
    BY <1>1, OtherCounts
  <2> QED
    BY <1>2, <2>1 DEF Tracks
<1>9. ASSUME NEW name
      PROVE  Count(d.claim, name) = Cardinality(WaitsBefore(spec, run, i + 1, name))
  <2>1. Count(d.claim, name) = IF name = spec[i].name THEN Count(c.claim, spec[i].name) + 1
                                                      ELSE Count(c.claim, name)
    BY <1>1 DEF Put, Count
  <2>2. \A nm : Count(c.claim, nm) = Cardinality(WaitsBefore(spec, run, i, nm))
    BY DEF Tracks
  <2>3. CASE name = spec[i].name
    <3>1. Cardinality(WaitsBefore(spec, run, i + 1, spec[i].name))
            = Cardinality(WaitsBefore(spec, run, i, spec[i].name)) + 1
      BY <1>1, RanksAre
    <3> QED
      BY <2>1, <2>2, <2>3, <3>1
  <2>4. CASE name # spec[i].name
    <3>1. WaitsBefore(spec, run, i + 1, name) = WaitsBefore(spec, run, i, name)
      BY <2>4, OtherCounts
    <3> QED
      BY <2>1, <2>2, <2>4, <3>1
  <2> QED
    BY <2>3, <2>4
<1>10. d.input = h[1].value
  BY <1>2 DEF Tracks
<1> QED
  BY <1>7, <1>8, <1>9, <1>10 DEF Tracks

LEMMA BranchTracks ==
  ASSUME NEW spec, Len(spec) \in Nat, NEW h,
         NEW run, run \subseteq 1..Len(spec), NEW i \in run,
         NEW c, IsCtx(c), NEW d, Branches(spec[i], c, d), Tracks(spec, h, run, i, c)
  PROVE  Tracks(spec, h, run, i + 1, d)
<1>1. spec[i].kind = "conditional"
  BY DEF Branches
<1>2. d.input = c.input /\ d.cursor = c.cursor /\ d.results = c.results /\ d.claim = c.claim
  <2>1. SameBut(d, c, {"at"})
    BY DEF Branches
  <2> QED
    BY <2>1 DEF SameBut, CtxFields
<1>3. \A key : ~ Binds(spec[i], key)
  BY <1>1 DEF Binds, IsBinding
<1>4. KeysTrack(spec, h, run, i + 1, d.results)
  <2>1. KeysTrack(spec, h, run, i, c.results)
    BY DEF Tracks
  <2> QED
    BY <1>2, <1>3, <2>1, KeysTrackNext
<1>5. ActsBefore(spec, run, i + 1) = ActsBefore(spec, run, i)
  BY <1>1, OtherCounts
<1>6. \A name : WaitsBefore(spec, run, i + 1, name) = WaitsBefore(spec, run, i, name)
  BY <1>1, OtherCounts
<1> QED
  BY <1>2, <1>4, <1>5, <1>6 DEF Tracks

LEMMA TracksFirst ==
  ASSUME NEW spec, Len(spec) \in Nat, NEW h, Regular(h), NEW run, run \subseteq 1..Len(spec)
  PROVE  Tracks(spec, h, run, 1, StartFrom(h, FreshState(spec)))
<1> DEFINE c == StartFrom(h, FreshState(spec))
<1>1. \A j \in run : ~ (j < 1)
  OBVIOUS
<1>2. ActsBefore(spec, run, 1) = {}
  BY <1>1 DEF ActsBefore
<1>3. \A name : WaitsBefore(spec, run, 1, name) = {}
  BY <1>1 DEF WaitsBefore
<1>4. \A key : Binders(spec, run, 1, key) = {}
  BY <1>1 DEF Binders
<1>5. Cardinality({}) = 0
  BY FS_EmptySet
<1>6. c.cursor = 0 /\ c.claim = << >> /\ c.results = << >>
      /\ c.input = InputOf(h, FreshState(spec))
  BY DEF StartFrom, FreshState, EmptyMap
<1>7. c.input = h[1].value
  <2> DEFINE st == FreshState(spec)
             starts == InSuffix(h, st, {"Started"})
  <2>1. Len(h) \in Nat /\ Len(h) >= 1
        /\ \A e \in 1..Len(h) : h[e].type = "Started" <=> e = 1
    BY DEF Regular, IsList
  <2>2. st.watermark = 0 /\ st.input = Nothing
    BY DEF FreshState
  <2>3. Suffix(h, st) = 1..Len(h)
    BY <2>2 DEF Suffix
  <2>4. starts = {1}
    BY <2>1, <2>3 DEF InSuffix
  <2>5. Max(starts) = 1
    <3>1. starts \subseteq 1..1 /\ starts # {} /\ 1 \in Nat
      BY <2>4
    <3> HIDE DEF starts
    <3>2. Max(starts) \in starts
      BY <3>1, MaxIsIn
    <3> QED
      BY <2>4, <3>2
  <2>6. InputOf(h, st) = IF \E e \in starts : h[e].value # Nothing
                         THEN h[Max(starts)].value ELSE st.input
    BY DEF InputOf
  <2> HIDE DEF starts, st
  <2>7. InputOf(h, st) = h[1].value
    BY <2>2, <2>4, <2>5, <2>6
  <2> QED
    BY <1>6, <2>7 DEF st
<1> HIDE DEF c
<1>8. KeysTrack(spec, h, run, 1, c.results)
  BY <1>4, <1>6 DEF KeysTrack
<1>9. \A name : Count(c.claim, name) = 0
  BY <1>6 DEF Count
<1>10. Tracks(spec, h, run, 1, c)
  BY <1>2, <1>3, <1>5, <1>6, <1>7, <1>8, <1>9 DEF Tracks
<1> QED
  BY <1>10 DEF c

\* What a decision on an open history is made of.
Decides(spec, h, w, p) ==
  /\ Len(spec) \in Nat
  /\ Accepted(spec) /\ WellNamed(spec) /\ WellScoped(spec)
  /\ Regular(h)
  /\ StoppedAt(w, spec, h, p)

LEMMA WalkTracks ==
  ASSUME NEW spec, NEW h, NEW w, NEW p, Decides(spec, h, w, p), NEW i \in 1..p
  PROVE  Tracks(spec, h, Taken(spec, w), i, w[i - 1])
<1> DEFINE run == Taken(spec, w)
           S == {k \in 1..p : Tracks(spec, h, run, k, w[k - 1])}
<1>0. Len(spec) \in Nat /\ Regular(h) /\ StoppedAt(w, spec, h, p)
      /\ Accepted(spec) /\ WellNamed(spec)
  BY DEF Decides
<1>1. GoesOnTo(w, spec, p)
  BY <1>0, ScratchGoes
<1>2. GoesByTheDocument(spec, w, p)
  BY <1>0, ScratchByTheDocument
<1>3. run \subseteq 1..Len(spec) /\ p \in 1..Len(spec)
  BY <1>1 DEF Taken, GoesOnTo
<1>4. 1 \in S
  <2>1. w[0] = StartFrom(h, FreshState(spec))
    BY <1>0 DEF StoppedAt, IsScratchWalk, IsWalkFrom, IsWalk
  <2>2. Tracks(spec, h, run, 1, w[0])
    BY <1>0, <1>3, <2>1, TracksFirst
  <2>3. 1 \in 1..p /\ 1 - 1 = 0
    BY <1>0, <1>3
  <2> QED
    BY <2>2, <2>3
<1>5. ASSUME NEW k \in 1..(p - 1), k \in S PROVE k + 1 \in S
  <2>1. k \in Nat /\ k \in 1..Len(spec) /\ k + 1 \in 1..p /\ (k + 1) - 1 = k /\ k # p
    BY <1>0, <1>3
  <2>2. Tracks(spec, h, run, k, w[k - 1])
    BY <1>5
  <2>3. CASE k \notin run
    <3>1. w[k] = w[k - 1]
      BY <1>1, <2>1, <2>3 DEF GoesOnTo
    <3>2. Tracks(spec, h, run, k + 1, w[k - 1])
      BY <1>0, <1>3, <2>1, <2>2, <2>3, UntakenCounts
    <3> QED
      BY <2>1, <3>1, <3>2
  <2>4. CASE k \in run
    <3>1. /\ IsCtx(w[k - 1])
          /\ MovesOnBy(spec[k], ScratchRun(spec, h), w[k - 1], w[k])
      BY <1>0, <2>1, <2>4, ScratchMoves
    <3>2. IsBinding(spec[k]) => Binders(spec, run, k, spec[k].id) = {} /\ spec[k].id # Nothing
      BY <1>0, <1>1, <1>2, <2>4, NewName
    <3>3. ~ Passes(spec[k], w[k - 1], w[k])
      BY <2>2, <3>2 DEF Passes, Tracks, KeysTrack
    <3> HIDE DEF run
    <3>4. CASE Takes(spec[k], ScratchRun(spec, h), w[k - 1], w[k])
      <4>1. spec[k].id # Nothing
        BY <3>2, <3>4 DEF Takes, AtRecord, AtActivity, IsBinding
      <4>2. Tracks(spec, h, run, k + 1, w[k])
        BY <1>0, <1>3, <2>2, <2>4, <3>1, <3>4, <4>1, TakesTracks
      <4> QED
        BY <2>1, <4>2
    <3>5. CASE TakesSignal(spec[k], ScratchRun(spec, h), w[k - 1], w[k])
      <4>1. spec[k].id # Nothing
        BY <3>2, <3>5 DEF TakesSignal, AtWait, IsBinding
      <4>2. Tracks(spec, h, run, k + 1, w[k])
        BY <1>0, <1>3, <2>2, <2>4, <3>1, <3>5, <4>1, SignalTracks
      <4> QED
        BY <2>1, <4>2
    <3>6. CASE Branches(spec[k], w[k - 1], w[k])
      <4>1. Tracks(spec, h, run, k + 1, w[k])
        BY <1>0, <1>3, <2>2, <2>4, <3>1, <3>6, BranchTracks
      <4> QED
        BY <2>1, <4>1
    <3> QED
      BY <3>1, <3>3, <3>4, <3>5, <3>6 DEF MovesOnBy
  <2> QED
    BY <2>3, <2>4
<1> HIDE DEF S
<1>6. \A k \in 1..p : k \in S
  BY <1>3, <1>4, <1>5, UpwardInduction
<1> QED
  BY <1>6 DEF S

-----------------------------------------------------------------------------
(* The steps the walk takes are the run of the reference.                  *)

LEMMA BindingsAre ==
  ASSUME NEW spec, NEW h, NEW run, NEW i, NEW c, Tracks(spec, h, run, i, c)
  PROVE  LET bind == BindingsBefore(spec, h, run, i)
         IN  c.input = bind.input /\ \A key : KeepsKey(c, bind, key)
<1> DEFINE bind == BindingsBefore(spec, h, run, i)
           names == UNION {{spec[j].id} \cup
                           (IF spec[j].kind = "wait_signal" THEN {spec[j].bindTo} ELSE {}) :
                             j \in {k \in run : k < i /\ IsBinding(spec[k])}}
<1>1. bind = [input   |-> h[1].value,
              results |-> [key \in names \ {Nothing} |->
                             StepValue(spec, h, run, LatestBinder(spec, run, i, key))]]
  BY DEF BindingsBefore, LatestBinder, Binders
<1>2. \A key : key \in names <=> Binders(spec, run, i, key) # {}
  BY DEF Binders, Binds
<1> HIDE DEF names, bind
<1>3. /\ bind.input = h[1].value
      /\ DOMAIN bind.results = names \ {Nothing}
      /\ \A key \in names \ {Nothing} :
           bind.results[key] = StepValue(spec, h, run, LatestBinder(spec, run, i, key))
  BY <1>1
<1>4. c.input = bind.input
  BY <1>3 DEF Tracks
<1>5. ASSUME NEW key PROVE KeepsKey(c, bind, key)
  <2>1. KeysTrack(spec, h, run, i, c.results)
    BY DEF Tracks
  <2>2. /\ key \in DOMAIN c.results <=> key # Nothing /\ Binders(spec, run, i, key) # {}
        /\ key \in DOMAIN c.results =>
             c.results[key] = StepValue(spec, h, run, LatestBinder(spec, run, i, key))
    BY <2>1 DEF KeysTrack
  <2>3. key \in DOMAIN c.results <=> key \in DOMAIN bind.results
    BY <1>2, <1>3, <2>2
  <2>4. key \in DOMAIN c.results => bind.results[key] = c.results[key]
    BY <1>3, <2>2, <2>3
  <2> QED
    BY <2>3, <2>4 DEF KeepsKey
<1> QED
  BY <1>4, <1>5 DEF bind

LEMMA ValueReads ==
  ASSUME NEW c, NEW d, c.input = d.input, NEW src, KeepsKey(c, d, src.key), HasValue(c, src)
  PROVE  ValueOf(c, src) = ValueOf(d, src)
  BY DEF KeepsKey, HasValue, ValueOf, Resolves, Lookup

LEMMA PayloadIs ==
  ASSUME NEW val
  PROVE  Payload(val) # Nothing
  BY ValuesAssumption DEF Payload

LEMMA LeadsOn ==
  ASSUME NEW spec, NEW h, NEW w, NEW p, Decides(spec, h, w, p),
         NEW i \in Taken(spec, w), i # p, NEW j
  PROVE  LeadsTo(spec, h, Taken(spec, w), i, j) <=> j = w[i].at
<1> DEFINE run == Taken(spec, w)
           c == w[i - 1]
           d == w[i]
           all == ScratchRun(spec, h)
           bind == BindingsBefore(spec, h, run, i)
<1>0. Len(spec) \in Nat /\ Regular(h) /\ StoppedAt(w, spec, h, p) /\ WellScoped(spec)
  BY DEF Decides
<1>1. IsCtx(c) /\ MovesOnBy(spec[i], all, c, d)
  BY <1>0, ScratchMoves
<1>2. run \subseteq 1..Len(spec) /\ i \in run /\ i \in 1..Len(spec) /\ i \in 1..p
  <2>1. GoesOnTo(w, spec, p)
    BY <1>0, ScratchGoes
  <2> QED
    BY <1>0, <2>1, TakenIs DEF Taken
<1>3. Tracks(spec, h, run, i, c)
  BY <1>2, WalkTracks
<1>4. ~ Passes(spec[i], c, d)
  <2>1. GoesOnTo(w, spec, p) /\ GoesByTheDocument(spec, w, p)
    BY <1>0, ScratchGoes, ScratchByTheDocument
  <2>2. IsBinding(spec[i]) => Binders(spec, run, i, spec[i].id) = {}
    BY <1>2, <2>1, NewName DEF Decides
  <2> QED
    BY <1>3, <2>2 DEF Passes, Tracks, KeysTrack
<1>5. IsOpenRun(all)
  BY <1>0, ScratchContexts DEF StoppedAt
<1> HIDE DEF run, c, d, all, bind
<1>6. CASE Takes(spec[i], all, c, d)
  <2>1. /\ spec[i].kind = "activity" /\ d.at = spec[i].next
        /\ c.cursor < Len(all.records)
        /\ all.records[c.cursor + 1].status = "ActivityCompleted"
        /\ all.records[c.cursor + 1].value # BadJson
    BY <1>6 DEF Takes, AtRecord, AtActivity, NextRecord
  <2>2. c.cursor = Cardinality(ActsBefore(spec, run, i))
    BY <1>3 DEF Tracks
  <2>3. StepValue(spec, h, run, i) = all.records[c.cursor + 1].value
    BY <1>0, <1>2, <2>1, <2>2, ActivityWorth DEF all
  <2>4. all.records[c.cursor + 1].value # Nothing
    <3>1. c.cursor + 1 \in 1..Len(all.records)
      BY <1>1, <1>5, <2>1, NextRecordExists
    <3>2. Len(all.records) = Len(Activities(h))
      BY <1>0, ScratchLength DEF all
    <3>3. PICK val : all.records[c.cursor + 1].value = Payload(val)
      BY <1>0, <2>1, <3>1, <3>2, RecordIsEnd DEF all
    <3> QED
      BY <3>3, PayloadIs
  <2>5. IsBinding(spec[i])
    BY <2>1 DEF IsBinding
  <2>6. LeadsTo(spec, h, run, i, j) <=> j = spec[i].next
    BY <2>1, <2>3, <2>4, <2>5 DEF LeadsTo
  <2> QED
    BY <2>1, <2>6 DEF run, d
<1>7. CASE TakesSignal(spec[i], all, c, d)
  <2>1. /\ spec[i].kind = "wait_signal" /\ d.at = spec[i].next
        /\ HasSignal(spec[i], all, c) /\ SignalPayload(spec[i], all, c) # BadJson
    BY <1>7 DEF TakesSignal, AtWait
  <2>2. StepValue(spec, h, run, i) = SignalPayload(spec[i], all, c)
    BY <1>0, <1>2, <1>3, <2>1, SignalIsRanked DEF all
  <2>3. SignalPayload(spec[i], all, c) # Nothing
    BY PayloadIs DEF SignalPayload
  <2>5. IsBinding(spec[i])
    BY <2>1 DEF IsBinding
  <2>6. LeadsTo(spec, h, run, i, j) <=> j = spec[i].next
    BY <2>1, <2>2, <2>3, <2>5 DEF LeadsTo
  <2> QED
    BY <2>1, <2>6 DEF run, d
<1>8. CASE Branches(spec[i], c, d)
  <2>1. /\ spec[i].kind = "conditional" /\ ~ PredicateFails(spec[i], c)
        /\ d.at = IF PredicateHolds(spec[i], c) THEN spec[i].then ELSE spec[i].else
    BY <1>8 DEF Branches
  <2>2. c.input = bind.input /\ KeepsKey(c, bind, spec[i].path)
    BY <1>3, BindingsAre DEF bind
  <2>3. spec[i].op \in Operators
    BY <1>0, <1>2, <2>1 DEF WellScoped
  <2>4. /\ PredicateFails(spec[i], c) <=> PredicateFails(spec[i], bind)
        /\ ~ PredicateFails(spec[i], c) =>
             (PredicateHolds(spec[i], c) <=> PredicateHolds(spec[i], bind))
    BY <2>2, <2>3, PredicateReads
  <2>5. ~ IsBinding(spec[i])
    BY <2>1 DEF IsBinding
  <2>6. LeadsTo(spec, h, run, i, j) <=>
          /\ ~ PredicateFails(spec[i], bind)
          /\ j = IF PredicateHolds(spec[i], bind) THEN spec[i].then ELSE spec[i].else
    BY <2>1, <2>5 DEF LeadsTo, bind
  <2>7. LeadsTo(spec, h, run, i, j) <=> j = d.at
    BY <2>1, <2>4, <2>6
  <2> QED
    BY <2>7 DEF run, d
<1> QED
  BY <1>1, <1>4, <1>6, <1>7, <1>8 DEF MovesOnBy

LEMMA LeadsNowhere ==
  ASSUME NEW spec, NEW h, NEW w, NEW p, Decides(spec, h, w, p), NEW j
  PROVE  ~ LeadsTo(spec, h, Taken(spec, w), p, j)
<1> DEFINE run == Taken(spec, w)
           c == w[p - 1]
           d == w[p]
           all == ScratchRun(spec, h)
<1>0. Len(spec) \in Nat /\ Regular(h) /\ StoppedAt(w, spec, h, p)
  BY DEF Decides
<1>2. run \subseteq 1..Len(spec) /\ p \in run /\ p \in 1..p
  <2>1. GoesOnTo(w, spec, p)
    BY <1>0, ScratchGoes
  <2> QED
    BY <1>0, <2>1, TakenIs DEF Taken
<1>1. IsCtx(c) /\ StopsBy(spec[p], all, c, d)
  BY <1>0, <1>2, ScratchMoves
<1>3. Tracks(spec, h, run, p, c)
  BY <1>2, WalkTracks
<1>4. c.cursor = Cardinality(ActsBefore(spec, run, p))
  BY <1>3 DEF Tracks
<1>5. IsOpenRun(all)
  BY <1>0, ScratchContexts DEF StoppedAt
<1> HIDE DEF run, c, d, all
<1>6. CASE Awaits(spec[p], all, c, d) \/ Schedules(spec[p], all, c, d)
  <2>1. /\ spec[p].kind = "activity"
        /\ c.cursor < Len(all.records) => all.records[c.cursor + 1].status = "InFlight"
    <3>1. CASE Awaits(spec[p], all, c, d)
      BY <3>1 DEF Awaits, AtRecord, AtActivity, NextRecord
    <3>2. CASE Schedules(spec[p], all, c, d)
      BY <1>1, <1>5, <3>2 DEF Schedules, AtActivity, IsCtx, IsOpenRun
    <3> QED
      BY <1>6, <3>1, <3>2
  <2>3. StepValue(spec, h, run, p) = Nothing
    BY <1>0, <1>2, <1>4, <2>1, ActivityWorth DEF all
  <2> QED
    BY <2>1, <2>3 DEF LeadsTo, IsBinding, run
<1>7. CASE Waits(spec[p], all, c, d)
  <2>1. spec[p].kind = "wait_signal" /\ ~ HasSignal(spec[p], all, c)
    BY <1>7 DEF Waits, AtWait
  <2>2. StepValue(spec, h, run, p) = Nothing
    BY <1>0, <1>2, <1>3, <2>1, SignalIsRanked DEF all
  <2> QED
    BY <2>1, <2>2 DEF LeadsTo, IsBinding, run
<1>8. CASE Completes(spec[p], c, d)
  BY <1>8 DEF Completes, LeadsTo, IsBinding, run
<1> QED
  BY <1>1, <1>6, <1>7, <1>8 DEF StopsBy

LEMMA TakenIsRun ==
  ASSUME NEW spec, NEW h, NEW w, NEW p, Decides(spec, h, w, p)
  PROVE  IsRun(spec, h, Taken(spec, w))
<1>0. Len(spec) \in Nat /\ Regular(h) /\ StoppedAt(w, spec, h, p)
  BY DEF Decides
<1>1. GoesOnTo(w, spec, p)
  BY <1>0, ScratchGoes
<1>2. 1 \in Taken(spec, w) /\ Taken(spec, w) \subseteq 1..p /\ p \in Nat
  BY <1>0, <1>1, TakenIs
<1>3. ASSUME NEW i \in Taken(spec, w), NEW j \in 1..Len(spec),
             LeadsTo(spec, h, Taken(spec, w), i, j)
      PROVE  j \in Taken(spec, w)
  <2>1. i # p
    BY <1>3, LeadsNowhere
  <2>2. j = w[i].at
    BY <1>3, <2>1, LeadsOn
  <2> QED
    BY <1>0, <1>1, <2>1, <2>2, NextTaken
<1>4. ASSUME NEW j \in Taken(spec, w) \ {1}
      PROVE  \E i \in Taken(spec, w) : i < j /\ LeadsTo(spec, h, Taken(spec, w), i, j)
  <2>1. PICK i \in Taken(spec, w) : i < j /\ i # p /\ w[i].at = j
    BY <1>0, <1>1, TakenBefore
  <2> QED
    BY <2>1, LeadsOn
<1> QED
  BY <1>2, <1>3, <1>4 DEF IsRun

-----------------------------------------------------------------------------
(* Where a run leads from a step depends on no later step of it, so a      *)
(* history has one run.                                                    *)

AgreeUpTo(one, other, m) ==
  /\ one \subseteq Nat \ {0} /\ other \subseteq Nat \ {0}
  /\ \A k \in 1..m : k \in one <=> k \in other

LEMMA WorthAgrees ==
  ASSUME NEW spec, NEW h, NEW one, NEW other, NEW m \in Nat, AgreeUpTo(one, other, m),
         NEW i \in 1..m
  PROVE  StepValue(spec, h, one, i) = StepValue(spec, h, other, i)
<1>1. ASSUME NEW j PROVE (j \in one /\ j <= i) <=> (j \in other /\ j <= i)
  <2>1. j \in one \/ j \in other => j \in Nat \ {0}
    BY DEF AgreeUpTo
  <2>2. j \in Nat \ {0} /\ j <= i => j \in 1..m
    OBVIOUS
  <2> QED
    BY <2>1, <2>2 DEF AgreeUpTo
<1>2. RankOf(spec, one, i) = RankOf(spec, other, i)
  BY <1>1 DEF RankOf
<1> QED
  BY <1>2 DEF StepValue

LEMMA BindingsAgree ==
  ASSUME NEW spec, NEW h, NEW one, NEW other, NEW m \in Nat, AgreeUpTo(one, other, m),
         NEW i \in 1..m
  PROVE  BindingsBefore(spec, h, one, i) = BindingsBefore(spec, h, other, i)
<1> DEFINE names(run) == UNION {{spec[j].id} \cup
                                (IF spec[j].kind = "wait_signal" THEN {spec[j].bindTo} ELSE {}) :
                                  j \in {k \in run : k < i /\ IsBinding(spec[k])}}
           value(run, key) == StepValue(spec, h, run, LatestBinder(spec, run, i, key))
<1>1. ASSUME NEW j PROVE (j \in one /\ j < i) <=> (j \in other /\ j < i)
  <2>1. j \in one \/ j \in other => j \in Nat \ {0}
    BY DEF AgreeUpTo
  <2>2. j \in Nat \ {0} /\ j < i => j \in 1..m
    OBVIOUS
  <2> QED
    BY <2>1, <2>2 DEF AgreeUpTo
<1>2. {k \in one : k < i /\ IsBinding(spec[k])} = {k \in other : k < i /\ IsBinding(spec[k])}
  BY <1>1
<1>3. names(one) = names(other)
  BY <1>2
<1>4. \A key : key \in names(one) => Binders(spec, one, i, key) # {}
  BY DEF Binders, Binds
<1>5. \A key : Binders(spec, one, i, key) = Binders(spec, other, i, key)
  BY <1>1 DEF Binders
<1>6. \A run : BindingsBefore(spec, h, run, i)
                 = [input   |-> h[1].value,
                    results |-> [key \in names(run) \ {Nothing} |-> value(run, key)]]
  BY DEF BindingsBefore, LatestBinder, Binders
<1>7. ASSUME NEW key \in names(one) PROVE value(one, key) = value(other, key)
  <2> DEFINE B == Binders(spec, one, i, key)
  <2>a. B # {}
    BY <1>4, <1>7
  <2>b. ASSUME NEW j \in B PROVE j \in 1..m
    <3>1. j \in one /\ j < i
      BY DEF Binders
    <3>2. j \in Nat \ {0}
      BY <3>1 DEF AgreeUpTo
    <3> QED
      BY <3>1, <3>2
  <2>1. B # {} /\ B \subseteq 1..m
    BY <2>a, <2>b
  <2>2. LatestBinder(spec, one, i, key) = Max(B) /\ LatestBinder(spec, other, i, key) = Max(B)
    BY <1>5 DEF LatestBinder
  <2> HIDE DEF B
  <2>3. Max(B) \in 1..m
    BY <2>1, MaxIsIn
  <2>4. PICK b \in 1..m : b = Max(B)
    BY <2>3
  <2>5. StepValue(spec, h, one, b) = StepValue(spec, h, other, b)
    BY WorthAgrees
  <2> QED
    BY <2>2, <2>4, <2>5
<1> HIDE DEF names, value
<1>8. [key \in names(one) \ {Nothing} |-> value(one, key)]
        = [key \in names(other) \ {Nothing} |-> value(other, key)]
  BY <1>3, <1>7
<1> QED
  BY <1>6, <1>8

LEMMA LeadsAgree ==
  ASSUME NEW spec, NEW h, NEW one, NEW other, NEW m \in Nat, AgreeUpTo(one, other, m),
         NEW i \in 1..m, NEW j
  PROVE  LeadsTo(spec, h, one, i, j) <=> LeadsTo(spec, h, other, i, j)
<1>1. StepValue(spec, h, one, i) = StepValue(spec, h, other, i)
  BY WorthAgrees
<1>2. BindingsBefore(spec, h, one, i) = BindingsBefore(spec, h, other, i)
  BY BindingsAgree
<1> QED
  BY <1>1, <1>2 DEF LeadsTo

LEMMA RunIsUnique ==
  ASSUME NEW spec, Len(spec) \in Nat, NEW h,
         NEW one, one \subseteq 1..Len(spec), IsRun(spec, h, one),
         NEW other, other \subseteq 1..Len(spec), IsRun(spec, h, other)
  PROVE  one = other
<1> DEFINE Differ == {k \in 1..Len(spec) : ~ (k \in one <=> k \in other)}
<1>1. Differ = {}
  <2> SUFFICES ASSUME Differ # {} PROVE FALSE
    OBVIOUS
  <2>1. Differ \subseteq Nat
    OBVIOUS
  <2>2. PICK k \in Differ : \A m \in Differ : k <= m
    BY <2>1, LeastNatural
  <2>3. k \in 1..Len(spec) /\ ~ (k \in one <=> k \in other)
    BY <2>2
  <2>4. \A m \in 1..(k - 1) : m \in one <=> m \in other
    BY <2>2, <2>3
  <2> HIDE DEF Differ
  <2>5. k # 1
    BY <2>3 DEF IsRun
  <2>6. k - 1 \in Nat /\ k - 1 \in 1..Len(spec)
    BY <2>3, <2>5
  <2>a. AgreeUpTo(one, other, k - 1)
    BY <2>4 DEF AgreeUpTo
  <2>7. \A i \in 1..(k - 1) : LeadsTo(spec, h, one, i, k) <=> LeadsTo(spec, h, other, i, k)
    BY <2>6, <2>a, LeadsAgree
  <2>8. k \in one => k \in other
    <3> SUFFICES ASSUME k \in one PROVE k \in other
      OBVIOUS
    <3>1. PICK i \in one : i < k /\ LeadsTo(spec, h, one, i, k)
      BY <2>5 DEF IsRun
    <3>2. i \in 1..(k - 1)
      BY <2>3, <3>1
    <3>3. i \in other /\ LeadsTo(spec, h, other, i, k)
      BY <2>4, <2>7, <3>1, <3>2
    <3> QED
      BY <2>3, <3>3 DEF IsRun
  <2>9. k \in other => k \in one
    <3> SUFFICES ASSUME k \in other PROVE k \in one
      OBVIOUS
    <3>1. PICK i \in other : i < k /\ LeadsTo(spec, h, other, i, k)
      BY <2>5 DEF IsRun
    <3>2. i \in 1..(k - 1)
      BY <2>3, <3>1
    <3>3. i \in one /\ LeadsTo(spec, h, one, i, k)
      BY <2>4, <2>7, <3>1, <3>2
    <3> QED
      BY <2>3, <3>3 DEF IsRun
  <2> QED
    BY <2>3, <2>8, <2>9
<1> QED
  BY <1>1

LEMMA RunIsTaken ==
  ASSUME NEW spec, NEW h, NEW w, NEW p, Decides(spec, h, w, p)
  PROVE  /\ RunOf(spec, h) = Taken(spec, w)
         /\ Max(RunOf(spec, h)) = p
<1>0. Len(spec) \in Nat /\ Regular(h) /\ StoppedAt(w, spec, h, p)
  BY DEF Decides
<1>1. IsRun(spec, h, Taken(spec, w))
  BY TakenIsRun
<1>2. Taken(spec, w) \in SUBSET (1..Len(spec))
  BY DEF Taken
<1>3. RunOf(spec, h) \in SUBSET (1..Len(spec)) /\ IsRun(spec, h, RunOf(spec, h))
  BY <1>1, <1>2 DEF RunOf
<1>4. RunOf(spec, h) = Taken(spec, w)
  BY <1>0, <1>1, <1>2, <1>3, RunIsUnique
<1>5. p \in Taken(spec, w) /\ Taken(spec, w) \subseteq 1..p /\ p \in Nat
  BY <1>0, ScratchGoes, TakenIs
<1>6. Max(Taken(spec, w)) = p
  <2>1. Taken(spec, w) # {}
    BY <1>5
  <2>2. Max(Taken(spec, w)) \in Taken(spec, w) /\ \A k \in Taken(spec, w) : k <= Max(Taken(spec, w))
    BY <1>5, <2>1, MaxIsIn
  <2>3. PICK m : m = Max(Taken(spec, w))
    OBVIOUS
  <2>4. m \in 1..p /\ p <= m
    BY <1>5, <2>2, <2>3
  <2> QED
    BY <1>5, <2>3, <2>4
<1> QED
  BY <1>4, <1>6

-----------------------------------------------------------------------------
(* What is decided is what is owed.                                        *)

LEMMA StopIsOwed ==
  ASSUME NEW spec, NEW h, NEW w, NEW p, Decides(spec, h, w, p)
  PROVE  w[p].commands = OwedCommands(spec, h)
<1> DEFINE run == Taken(spec, w)
           c == w[p - 1]
           d == w[p]
           all == ScratchRun(spec, h)
           bind == BindingsBefore(spec, h, run, p)
           k == RankOf(spec, run, p)
<1>0. Len(spec) \in Nat /\ Regular(h) /\ StoppedAt(w, spec, h, p)
  BY DEF Decides
<1>2. run \subseteq 1..Len(spec) /\ p \in run /\ p \in 1..p /\ p \in 1..Len(spec)
  <2>1. GoesOnTo(w, spec, p)
    BY <1>0, ScratchGoes
  <2> QED
    BY <1>0, <2>1, TakenIs DEF Taken
<1>1. IsCtx(c) /\ StopsBy(spec[p], all, c, d)
  BY <1>0, <1>2, ScratchMoves
<1>3. Tracks(spec, h, run, p, c)
  BY <1>2, WalkTracks
<1>4. c.cursor = Cardinality(ActsBefore(spec, run, p)) /\ c.cursor \in Nat
  BY <1>1, <1>3 DEF Tracks, IsCtx
<1>5. Scratch(all, c) /\ IsOpenRun(all)
  <2>1. p - 1 \in 0..Len(spec) /\ IsScratchWalk(w, spec, h)
    BY <1>0, <1>2 DEF StoppedAt
  <2> QED
    BY <1>0, <2>1, ScratchContexts
<1>6. c.outcome = "Continue"
  BY <1>2 DEF Taken
<1>7. c.nextSeq = 1 + c.cursor /\ c.commands = << >>
  BY <1>5, <1>6 DEF Scratch
<1>8. RunOf(spec, h) = run /\ Max(RunOf(spec, h)) = p
  BY RunIsTaken
<1>9. ScheduledIds(h) = Activities(h) /\ Len(all.records) = Len(Activities(h))
      /\ Len(Activities(h)) \in Nat
  BY <1>0, FreshStateIs, EndsAre, ScratchLength
<1>10. c.input = bind.input /\ \A key : KeepsKey(c, bind, key)
  BY <1>3, BindingsAre
<1>11. OwedCommands(spec, h)
         = CASE spec[p].kind = "complete" ->
                  <<CompleteWorkflow(ValueOf(bind, spec[p].result))>>
             [] spec[p].kind = "activity" /\ k > Len(Activities(h)) ->
                  <<ScheduleActivity(k, spec[p].name, ValueOf(bind, spec[p].arg))>>
             [] /\ spec[p].kind = "activity" /\ k <= Len(Activities(h))
                /\ \E e \in EndsOf(h, k) : h[e].type = "ActivityFailed" -> <<FailWorkflow>>
             [] OTHER -> << >>
  BY <1>8, <1>9 DEF OwedCommands
<1>12. \A e \in EndsOf(h, k) : h[e].type = "ActivityCompleted"
  BY <1>0, FreshStateIs, EndsAre
<1>13. spec[p].kind = "activity" => k = c.cursor + 1
  <2>1. spec[p].kind = "activity" =>
          RankOf(spec, run, p) = Cardinality(ActsBefore(spec, run, p)) + 1
    BY <1>0, <1>2, RanksAre
  <2> QED
    BY <1>4, <2>1
<1> HIDE DEF run, c, d, all, bind, k
<1>14. \A cmd : Append(<< >>, cmd) = <<cmd>>
  OBVIOUS
<1>15. CASE Awaits(spec[p], all, c, d)
  <2>1. /\ spec[p].kind = "activity" /\ c.cursor < Len(all.records)
        /\ SameBut(d, c, {"outcome", "cursor", "nextSeq", "pending"})
    BY <1>15 DEF Awaits, AtRecord, AtActivity
  <2>2. d.commands = << >>
    BY <1>7, <2>1 DEF SameBut, CtxFields
  <2>3. k <= Len(Activities(h)) /\ ~ (k > Len(Activities(h)))
    BY <1>4, <1>9, <1>13, <2>1
  <2>4. OwedCommands(spec, h) = << >>
    BY <1>11, <1>12, <2>1, <2>3
  <2> QED
    BY <2>2, <2>4 DEF d
<1>16. CASE Schedules(spec[p], all, c, d)
  <2>1. /\ spec[p].kind = "activity" /\ c.cursor >= Len(all.records)
        /\ HasValue(c, spec[p].arg)
        /\ d.commands = Append(c.commands, ScheduleActivity(c.nextSeq, spec[p].name,
                                                            ValueOf(c, spec[p].arg)))
    BY <1>16 DEF Schedules, AtActivity
  <2>2. k > Len(Activities(h)) /\ k = c.nextSeq
    BY <1>4, <1>7, <1>9, <1>13, <2>1
  <2>3. ValueOf(c, spec[p].arg) = ValueOf(bind, spec[p].arg)
    BY <1>10, <2>1, ValueReads
  <2>4. OwedCommands(spec, h)
          = <<ScheduleActivity(k, spec[p].name, ValueOf(bind, spec[p].arg))>>
    <3> DEFINE late == k > Len(Activities(h))
    <3>1. late /\ spec[p].kind # "complete"
      BY <2>1, <2>2
    <3> HIDE DEF late
    <3>2. OwedCommands(spec, h)
            = CASE spec[p].kind = "complete" ->
                     <<CompleteWorkflow(ValueOf(bind, spec[p].result))>>
                [] spec[p].kind = "activity" /\ late ->
                     <<ScheduleActivity(k, spec[p].name, ValueOf(bind, spec[p].arg))>>
                [] /\ spec[p].kind = "activity" /\ k <= Len(Activities(h))
                   /\ \E e \in EndsOf(h, k) : h[e].type = "ActivityFailed" -> <<FailWorkflow>>
                [] OTHER -> << >>
      BY <1>11 DEF late
    <3>3. ~ \E e \in EndsOf(h, k) : h[e].type = "ActivityFailed"
      BY <1>12
    <3> QED
      BY <2>1, <3>1, <3>2, <3>3
  <2> QED
    BY <1>7, <1>14, <2>1, <2>2, <2>3, <2>4 DEF d
<1>17. CASE Waits(spec[p], all, c, d)
  <2>1. spec[p].kind = "wait_signal" /\ SameBut(d, c, {"outcome", "waiting"})
    BY <1>17 DEF Waits, AtWait
  <2>2. d.commands = << >>
    BY <1>7, <2>1 DEF SameBut, CtxFields
  <2>3. OwedCommands(spec, h) = << >>
    BY <1>11, <2>1
  <2> QED
    BY <2>2, <2>3 DEF d
<1>18. CASE Completes(spec[p], c, d)
  <2>1. /\ spec[p].kind = "complete" /\ HasValue(c, spec[p].result)
        /\ d.commands = Append(c.commands, CompleteWorkflow(ValueOf(c, spec[p].result)))
    BY <1>18 DEF Completes
  <2>2. ValueOf(c, spec[p].result) = ValueOf(bind, spec[p].result)
    BY <1>10, <2>1, ValueReads
  <2>3. OwedCommands(spec, h) = <<CompleteWorkflow(ValueOf(bind, spec[p].result))>>
    BY <1>11, <2>1
  <2> QED
    BY <1>7, <1>14, <2>1, <2>2, <2>3 DEF d
<1> QED
  BY <1>1, <1>15, <1>16, <1>17, <1>18 DEF StopsBy

\* Replaying a history decides the command that the history is owed
\* (replay_engine.h:28-34): the next step's, with the values of the steps before it.
THEOREM ReplayIsOwed ==
  ASSUME NEW spec, Len(spec) \in Nat, Accepted(spec), WellNamed(spec), WellScoped(spec),
         NEW h, Regular(h), Replay(spec, h).ok
  PROVE  Replay(spec, h).commands = OwedCommands(spec, h)
<1>1. PICK w, p : /\ StoppedAt(w, spec, h, p)
                  /\ SavedOf(w[p], h, Replay(spec, h).state)
                  /\ Replay(spec, h).commands = w[p].commands
  BY ReplayStops
<1>2. Decides(spec, h, w, p)
  BY <1>1 DEF Decides
<1> QED
  BY <1>1, <1>2, StopIsOwed

-----------------------------------------------------------------------------
(* What is saved of the signals.                                           *)

\* The waits up to step i for the signal of step i that have a result.
WaitsPassed(spec, results, i) ==
  {k \in 1..i : /\ spec[k].kind = "wait_signal"
                /\ spec[k].name = spec[i].name
                /\ spec[k].id \in DOMAIN results}

LEMMA StopKeeps ==
  ASSUME NEW step, NEW run, NEW c, NEW d, StopsBy(step, run, c, d)
  PROVE  d.results = c.results /\ d.consumed = c.consumed
  BY DEF StopsBy, Awaits, Schedules, Waits, Completes, SameBut, CtxFields

\* Saved are the bindings of the steps the walk took before it stopped.
LEMMA StateTracks ==
  ASSUME NEW spec, NEW h, NEW w, NEW p, Decides(spec, h, w, p),
         NEW st, SavedOf(w[p], h, st)
  PROVE  /\ KeysTrack(spec, h, Taken(spec, w), p, st.results)
         /\ \A name : Count(st.consumed, name)
                        = Cardinality(WaitsBefore(spec, Taken(spec, w), p, name))
<1> DEFINE run == Taken(spec, w)
           c == w[p - 1]
<1>0. Len(spec) \in Nat /\ Regular(h) /\ StoppedAt(w, spec, h, p)
  BY DEF Decides
<1>1. p \in run /\ p \in 1..p /\ p - 1 \in 0..Len(spec)
  <2>1. GoesOnTo(w, spec, p)
    BY <1>0, ScratchGoes
  <2>2. p \in run /\ p \in 1..Len(spec)
    BY <1>0, <2>1, TakenIs DEF Taken
  <2> QED
    BY <1>0, <2>2
<1>2. StopsBy(spec[p], ScratchRun(spec, h), c, w[p]) /\ c.outcome = "Continue"
  BY <1>0, <1>1, ScratchMoves
<1>3. st.results = c.results /\ st.consumed = c.consumed
  BY <1>2, StopKeeps DEF SavedOf
<1>4. c.consumed = c.claim
  BY <1>0, <1>1, <1>2, ScratchContexts DEF StoppedAt, Scratch
<1>5. Tracks(spec, h, run, p, c)
  BY <1>1, WalkTracks
<1> QED
  BY <1>3, <1>4, <1>5 DEF Tracks

LEMMA PassedAre ==
  ASSUME NEW spec, NEW h, NEW w, NEW p, Decides(spec, h, w, p), SoleIds(spec),
         NEW results, KeysTrack(spec, h, Taken(spec, w), p, results),
         NEW i \in 1..Len(spec), spec[i].kind = "wait_signal"
  PROVE  /\ spec[i].id \in DOMAIN results <=> i \in Taken(spec, w) /\ i < p
         /\ spec[i].id \in DOMAIN results =>
              results[spec[i].id] = StepValue(spec, h, Taken(spec, w), i)
<1> DEFINE run == Taken(spec, w)
           id == spec[i].id
<1>1. run \subseteq 1..Len(spec) /\ id # Nothing
  BY DEF Decides, WellNamed, IsBinding, Taken
<1>2. Binds(spec[i], id)
  BY DEF Binds, IsBinding
<1>3. \A j \in run : Binds(spec[j], id) => j = i
  BY <1>1 DEF SoleIds
<1> HIDE DEF run, id
<1>4. Binders(spec, run, p, id) = IF i \in run /\ i < p THEN {i} ELSE {}
  BY <1>2, <1>3 DEF Binders
<1>5. id \in DOMAIN results <=> id # Nothing /\ Binders(spec, run, p, id) # {}
  BY DEF KeysTrack, run
<1>6. id \in DOMAIN results <=> i \in run /\ i < p
  BY <1>1, <1>4, <1>5
<1>7. ASSUME id \in DOMAIN results PROVE results[id] = StepValue(spec, h, run, i)
  <2>1. Binders(spec, run, p, id) = {i}
    BY <1>4, <1>6, <1>7
  <2>2. LatestBinder(spec, run, p, id) = i
    BY <2>1 DEF LatestBinder, Max
  <2>3. results[id] = StepValue(spec, h, run, LatestBinder(spec, run, p, id))
    BY <1>7 DEF KeysTrack, run
  <2> QED
    BY <2>2, <2>3
<1> QED
  BY <1>6, <1>7 DEF run, id

LEMMA SavedSignals ==
  ASSUME NEW spec, Len(spec) \in Nat, Accepted(spec), WellNamed(spec), WellScoped(spec),
         SoleIds(spec), NEW h, Regular(h), Replay(spec, h).ok,
         NEW st, st = Replay(spec, h).state,
         NEW i \in 1..Len(spec), spec[i].kind = "wait_signal"
  PROVE  LET signals == SignalsNamed(h, spec[i].name)
             passed  == WaitsPassed(spec, st.results, i)
         IN  /\ spec[i].id \in DOMAIN st.results =>
                  /\ Cardinality(passed) \in 1..Len(signals)
                  /\ st.results[spec[i].id] = Payload(h[signals[Cardinality(passed)]].value)
             /\ Count(st.consumed, spec[i].name) >= Cardinality(passed)
<1> DEFINE signals == SignalsNamed(h, spec[i].name)
           passed  == WaitsPassed(spec, st.results, i)
<1>1. PICK w, p : StoppedAt(w, spec, h, p) /\ SavedOf(w[p], h, st)
  BY ReplayStops
<1> DEFINE run == Taken(spec, w)
<1>2. Decides(spec, h, w, p)
  BY <1>1 DEF Decides
<1>3. /\ KeysTrack(spec, h, run, p, st.results)
      /\ \A name : Count(st.consumed, name) = Cardinality(WaitsBefore(spec, run, p, name))
  BY <1>1, <1>2, StateTracks
<1>4. \A k \in 1..Len(spec) : spec[k].kind = "wait_signal" =>
        /\ spec[k].id \in DOMAIN st.results <=> k \in run /\ k < p
        /\ spec[k].id \in DOMAIN st.results =>
             st.results[spec[k].id] = StepValue(spec, h, run, k)
  BY <1>2, <1>3, PassedAre
<1>5. run \subseteq 1..Len(spec) /\ i \in Nat /\ p \in run /\ GoesOnTo(w, spec, p)
  <2>1. GoesOnTo(w, spec, p)
    BY <1>1, ScratchGoes
  <2> QED
    BY <2>1, TakenIs DEF Taken
<1> HIDE DEF run
<1>6. \A k : k \in passed <=> /\ k \in run /\ k < p /\ k <= i
                              /\ spec[k].kind = "wait_signal" /\ spec[k].name = spec[i].name
  <2> TAKE k
  <2>1. CASE k \in 1..Len(spec)
    <3>1. k \in 1..i <=> k <= i
      BY <1>5, <2>1
    <3> QED
      BY <1>4, <2>1, <3>1 DEF WaitsPassed
  <2>2. CASE k \notin 1..Len(spec)
    <3>1. k \notin 1..i /\ k \notin run
      <4>1. PICK n : n = Len(spec)
        OBVIOUS
      <4>2. n \in Nat /\ i \in 1..n
        BY <4>1
      <4>3. 1..i \subseteq 1..n
        BY <4>2
      <4> QED
        BY <1>5, <2>2, <4>1, <4>3
    <3> QED
      BY <3>1 DEF WaitsPassed
  <2> QED
    BY <2>1, <2>2
<1> HIDE DEF passed
<1>7. Count(st.consumed, spec[i].name) >= Cardinality(passed)
  <2>1. passed \subseteq WaitsBefore(spec, run, p, spec[i].name)
    BY <1>6 DEF WaitsBefore
  <2>2. IsFiniteSet(WaitsBefore(spec, run, p, spec[i].name))
    <3>1. WaitsBefore(spec, run, p, spec[i].name) \subseteq 1..Len(spec)
      BY <1>5 DEF WaitsBefore
    <3>2. IsFiniteSet(1..Len(spec))
      BY FS_Interval
    <3> QED
      BY <3>1, <3>2, FS_Subset
  <2>3. /\ Cardinality(passed) <= Cardinality(WaitsBefore(spec, run, p, spec[i].name))
        /\ Cardinality(passed) \in Nat
        /\ Cardinality(WaitsBefore(spec, run, p, spec[i].name)) \in Nat
    BY <2>1, <2>2, FS_Subset, FS_CardinalityType
  <2> QED
    BY <1>3, <2>3
<1>8. ASSUME spec[i].id \in DOMAIN st.results
      PROVE  /\ Cardinality(passed) \in 1..Len(signals)
             /\ st.results[spec[i].id] = Payload(h[signals[Cardinality(passed)]].value)
  <2>1. i \in run /\ i < p /\ i # p
    BY <1>4, <1>5, <1>8
  <2>2. st.results[spec[i].id] = StepValue(spec, h, run, i)
    BY <1>4, <1>8
  <2> DEFINE n == Cardinality(WaitsBefore(spec, run, i, spec[i].name))
  <2>3. Cardinality(passed) = n + 1 /\ n \in Nat
    <3> DEFINE W == WaitsBefore(spec, run, i + 1, spec[i].name)
    <3>1. \A k : k \in W <=> /\ k \in run /\ k < i + 1
                             /\ spec[k].kind = "wait_signal" /\ spec[k].name = spec[i].name
      BY DEF WaitsBefore
    <3> HIDE DEF W
    <3>2. \A k \in run : k < i + 1 <=> k < p /\ k <= i
      <4>1. p \in Nat /\ \A k \in run : k \in Nat
        BY <1>5
      <4> QED
        BY <1>5, <2>1, <4>1
    <3>3. passed = W
      BY <1>6, <3>1, <3>2
    <3>4. Cardinality(W) = n + 1 /\ n \in Nat
      BY <1>5, <2>1, RanksAre DEF W
    <3> QED
      BY <3>3, <3>4
  <2> HIDE DEF n
  <2>4. Len(signals) \in Nat
    <3>1. Lists(signals, SignalIds(h, spec[i].name), Len(h))
      BY InOrderLists DEF SignalsNamed, Regular, IsList
    <3> QED
      BY <3>1 DEF Lists
  <2>5. StepValue(spec, h, run, i)
          = IF n < Len(signals) THEN Payload(h[signals[n + 1]].value) ELSE Nothing
    BY <1>5, <2>1, <2>4, WaitWorth DEF n
  <2>6. StepValue(spec, h, run, i) # Nothing
    <3>1. LeadsTo(spec, h, run, i, w[i].at)
      BY <1>2, <2>1, LeadsOn DEF run
    <3> QED
      BY <3>1 DEF LeadsTo, IsBinding
  <2>7. n < Len(signals)
    BY <2>5, <2>6
  <2> QED
    BY <2>2, <2>3, <2>4, <2>5, <2>7
<1> QED
  BY <1>7, <1>8 DEF passed
=============================================================================
