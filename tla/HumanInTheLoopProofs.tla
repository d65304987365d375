------------------------ MODULE HumanInTheLoopProofs ------------------------
(***************************************************************************)
(* What the device does with an approval holds for any number of runs,     *)
(* faults, errors and approvals of others.                                 *)
(*                                                                         *)
(* That no run is approved twice is not inductive: a second signal goes    *)
(* out only if the run is armed again, which happens only if a tick ends   *)
(* as Waiting, for which the engine must not have seen the first signal.   *)
(* The invariant follows that chain back: a run approved here has the      *)
(* signal in its history, is not armed, and is not the run of a Waiting    *)
(* answer that is under way.                                               *)
(***************************************************************************)
EXTENDS HumanInTheLoop, TLAPS

AnswersWaiting(r) == phase = "answer" /\ task.run = r /\ task.decision = "Wait"

Once ==
  \A r \in Runs : fired[r] > 0 /\ r \notin unsure =>
    fired[r] = 1 /\ approvals[r] > 0 /\ armed # r /\ ~AnswersWaiting(r)

Reached ==
  \A r \in Runs : fired[r] > 0 \/ armed = r \/ AnswersWaiting(r) => done[r] > 0

Fresh == pressed => age <= 1 /\ (phase \in {"serial", "gate", "tick"} => age = 0)

IInv == TypeOK /\ Once /\ Reached /\ Fresh

-----------------------------------------------------------------------------
(* Sending the signal, from the button or from the console.                *)

\* What a call of sendApproveSignal leaves alone besides its own part.
LEMMA SendKeepsTypes ==
  ASSUME TypeOK, NothingSent \/ sendApproveSignal
  PROVE  /\ armed' \in Runs \cup {NoRun} /\ signaled' \in Runs \cup {NoRun}
         /\ status' = status /\ done' = done /\ act' = act /\ out' = out
         /\ due' \in [Runs -> BOOLEAN]
         /\ approvals' \in [Runs -> Nat] /\ fired' \in [Runs -> Nat]
         /\ faults' \in 0..MaxFaults /\ unsure' \subseteq Runs
<1>1. CASE NothingSent
  BY <1>1 DEF TypeOK, NothingSent, serviceVars
<1>2. CASE ~NothingSent
  <2>1. armed \in Runs /\ (SignalDelivered \/ SignalFails)
    BY <1>2 DEF sendApproveSignal, TypeOK
  <2>2. CASE SignalDelivered
    BY <2>1, <2>2 DEF TypeOK, SignalDelivered, Approve, Sent
  <2>3. CASE SignalFails
    <3>1. CASE UNCHANGED serviceVars
      BY <2>1, <2>3, <3>1, HumanAssumption
      DEF TypeOK, SignalFails, Approve, Fault, serviceVars
    <3>2. CASE Approve(armed) /\ Fault
      BY <2>1, <2>3, <3>2, HumanAssumption
      DEF TypeOK, SignalFails, Approve, Fault, serviceVars
    <3> QED BY <2>3, <3>1, <3>2 DEF SignalFails
  <2> QED BY <2>1, <2>2, <2>3
<1> QED BY <1>1, <1>2

LEMMA SendKeepsOnce ==
  ASSUME TypeOK, Once, Reached, NothingSent \/ sendApproveSignal,
         phase \in {"button", "serial"}, phase' \in {"serial", "gate"}, UNCHANGED task
  PROVE  Once' /\ Reached'
<1>1. ~AnswersWaiting(NoRun) /\ \A r \in Runs : ~AnswersWaiting(r)'
  BY HumanAssumption DEF AnswersWaiting
<1>2. CASE NothingSent
  BY <1>1, <1>2 DEF NothingSent, serviceVars, Once, Reached
<1>3. CASE ~NothingSent
  <2>1. armed \in Runs /\ (SignalDelivered \/ SignalFails)
    BY <1>3 DEF sendApproveSignal, TypeOK
  <2>2. CASE SignalDelivered
    BY <1>1, <2>1, <2>2, HumanAssumption
    DEF TypeOK, SignalDelivered, Approve, Sent, Once, Reached
  <2>3. CASE SignalFails
    BY <1>1, <2>1, <2>3 DEF TypeOK, SignalFails, Approve, serviceVars, Once, Reached
  <2> QED BY <2>1, <2>2, <2>3
<1> QED BY <1>2, <1>3

-----------------------------------------------------------------------------
(* One step.                                                               *)

LEMMA ErrorsStayBelow ==
  ASSUME TypeOK, Calm \/ onTransportError
  PROVE  worker' \in {"up", "down"} /\ errors' \in Nat /\ errors' < MaxErrors
BY HumanAssumption DEF TypeOK, Calm, onTransportError

LEMMA TypeStep == IInv /\ [Next]_vars => TypeOK'
<1> SUFFICES ASSUME TypeOK, [Next]_vars PROVE TypeOK'
  BY DEF IInv
<1>1. CASE pollSignalButton
  BY <1>1, SendKeepsTypes DEF pollSignalButton, drain, TypeOK, Phases
<1>2. CASE pollSignalSerial
  BY <1>2, SendKeepsTypes DEF pollSignalSerial, TypeOK, Phases
<1>3. CASE NoWifi \/ WhoamiFails
  BY <1>3, HumanAssumption
  DEF NoWifi, WhoamiFails, Fault, serviceVars, ghostVars, TypeOK, Phases
<1>4. CASE buildWorker
  BY <1>4 DEF buildWorker, ForgetsAll, serviceVars, TypeOK, Phases
<1>5. CASE WorkerIsUp
  BY <1>5 DEF WorkerIsUp, serviceVars, ghostVars, TypeOK, Phases
<1>6. CASE PollTask
  <2>1. task' \in [run : Runs \cup {NoRun}, decision : Decisions] /\ task'.run \in Runs
    BY <1>6 DEF PollTask, decide, Decisions
  <2>2. due' \in [Runs -> BOOLEAN] /\ out' \in [Runs -> BOOLEAN]
    BY <1>6 DEF PollTask, HandOut, TypeOK
  <2>3. turn' \in {"workflow", "activity"} /\ age' \in Nat
    BY <1>6 DEF PollTask, TickBegins, TypeOK
  <2> QED BY <1>6, <2>1, <2>2, <2>3 DEF PollTask, TickBegins, TypeOK, Phases
<1>7. CASE PollIdle
  <2>1. turn' \in {"workflow", "activity"} /\ age' \in Nat
    BY <1>7 DEF PollIdle, TickBegins, TypeOK
  <2> QED BY <1>7, <2>1, ErrorsStayBelow DEF PollIdle, TickBegins, serviceVars, TypeOK, Phases
<1>8. CASE PollFails
  <2>1. due' \in [Runs -> BOOLEAN] /\ out' \in [Runs -> BOOLEAN]
    BY <1>8 DEF PollFails, HandOut, TypeOK
  <2>2. turn' \in {"workflow", "activity"} /\ age' \in Nat /\ faults' \in 0..MaxFaults
    BY <1>8, HumanAssumption DEF PollFails, TickBegins, Fault, TypeOK
  <2> QED BY <1>8, <2>1, <2>2, ErrorsStayBelow DEF PollFails, TickBegins, TypeOK, Phases
<1>9. CASE ActivityTick
  <2>1. turn' \in {"workflow", "activity"} /\ age' \in Nat /\ faults' \in 0..MaxFaults
    BY <1>9, HumanAssumption DEF ActivityTick, TickBegins, Fault, TypeOK
  <2>2. done' \in [Runs -> Nat] /\ act' \in [Runs -> BOOLEAN] /\ due' \in [Runs -> BOOLEAN]
    <3>1. CASE UNCHANGED <<done, act, due>>
      BY <3>1 DEF TypeOK
    <3>2. CASE \E r \in Runs : /\ done' = [done EXCEPT ![r] = @ + 1]
                              /\ act' = [act EXCEPT ![r] = FALSE]
                              /\ due' = [due EXCEPT ![r] = TRUE]
      BY <3>2 DEF TypeOK
    <3> QED BY <1>9, <3>1, <3>2 DEF ActivityTick
  <2>3. Calm \/ onTransportError
    BY <1>9 DEF ActivityTick
  <2> QED BY <1>9, <2>1, <2>2, <2>3, ErrorsStayBelow DEF ActivityTick, TickBegins, TypeOK, Phases
<1>10. CASE Answers
  <2>1. Answer /\ (Calm \/ onTransportError) /\ task.run \in Runs
    BY <1>10 DEF Answers, AnswerWaiting, AnswerProgress, AnswerFails, AnswerUnheard, Answer, TypeOK
  <2>2. task' \in [run : Runs \cup {NoRun}, decision : Decisions] /\ phase' = "button"
    BY <2>1 DEF Answer, NoTask, Decisions
  <2>3. faults' \in 0..MaxFaults
    BY <1>10, HumanAssumption
    DEF Answers, AnswerWaiting, AnswerProgress, AnswerFails, AnswerUnheard, Fault, TypeOK
  <2>4. armed' \in Runs \cup {NoRun} /\ forgotten' \subseteq Runs
    BY <1>10, <2>1
    DEF Answers, AnswerWaiting, AnswerProgress, AnswerFails, AnswerUnheard, arm, TypeOK
  <2>5. /\ status' \in [Runs -> {"none", "open", "closed"}] /\ act' \in [Runs -> BOOLEAN]
        /\ out' \in [Runs -> BOOLEAN] /\ UNCHANGED <<done, due, approvals>>
    <3>1. CASE \E decision : Accept(task.run, decision)
      BY <2>1, <3>1 DEF Accept, TypeOK
    <3>2. CASE \E decision : Refuse(task.run, decision)
      BY <2>1, <3>2 DEF Refuse, TypeOK
    <3>3. CASE UNCHANGED serviceVars
      BY <3>3 DEF serviceVars, TypeOK
    <3> QED BY <1>10, <3>1, <3>2, <3>3
            DEF Answers, AnswerWaiting, AnswerProgress, AnswerFails, AnswerUnheard
  <2> QED BY <2>1, <2>2, <2>3, <2>4, <2>5, ErrorsStayBelow DEF Answer, TypeOK, Phases
<1>11. CASE Reboot
  <2>1. pressed' \in BOOLEAN /\ recent' \in BOOLEAN
    BY <1>11 DEF Reboot
  <2>2. task' \in [run : Runs \cup {NoRun}, decision : Decisions]
    BY <1>11 DEF Reboot, NoTask, Decisions
  <2>3. errors' \in Nat /\ errors' < MaxErrors /\ faults' \in 0..MaxFaults /\ age' \in Nat
    BY <1>11, HumanAssumption DEF Reboot, Fault, TypeOK
  <2>4. forgotten' \subseteq Runs
    BY <1>11 DEF Reboot, ForgetsAll, TypeOK
  <2> QED BY <1>11, <2>1, <2>2, <2>3, <2>4 DEF Reboot, serviceVars, TypeOK, Phases
<1>12. CASE onBootButtonIsr
  <2>1. pressed' \in BOOLEAN
    BY <1>12 DEF onBootButtonIsr
  <2> QED BY <1>12, <2>1 DEF onBootButtonIsr, serviceVars, TypeOK
<1>17. CASE DebounceEnds
  <2>1. recent' \in BOOLEAN
    BY <1>17 DEF DebounceEnds
  <2> QED BY <1>17, <2>1 DEF DebounceEnds, serviceVars, ghostVars, TypeOK
<1>13. CASE StartRun
  BY <1>13 DEF StartRun, deviceVars, ghostVars, TypeOK
<1>14. CASE ApprovedElsewhere
  BY <1>14 DEF ApprovedElsewhere, Approve, deviceVars, ghostVars, TypeOK
<1>15. CASE TaskTimesOut
  BY <1>15, HumanAssumption DEF TaskTimesOut, Fault, deviceVars, ghostVars, TypeOK
<1>16. CASE UNCHANGED vars
  BY <1>16 DEF vars, deviceVars, serviceVars, ghostVars, TypeOK
<1> QED BY <1>1, <1>2, <1>3, <1>4, <1>5, <1>6, <1>7, <1>8, <1>9, <1>10, <1>11, <1>12,
           <1>13, <1>14, <1>15, <1>16, <1>17 DEF Next, Loop, Tick

LEMMA OnceStep == IInv /\ [Next]_vars => Once' /\ Reached'
<1> SUFFICES ASSUME TypeOK, Once, Reached, [Next]_vars PROVE Once' /\ Reached'
  BY DEF IInv
<1>1. CASE pollSignalButton
  BY <1>1, SendKeepsOnce DEF pollSignalButton
<1>2. CASE pollSignalSerial
  BY <1>2, SendKeepsOnce DEF pollSignalSerial
<1>3. CASE NoWifi \/ WhoamiFails \/ WorkerIsUp
  BY <1>3 DEF NoWifi, WhoamiFails, WorkerIsUp, serviceVars, ghostVars, AnswersWaiting,
              Once, Reached
<1>4. CASE buildWorker
  BY <1>4, HumanAssumption DEF buildWorker, serviceVars, AnswersWaiting, Once, Reached
<1>5. CASE PollTask
  <2>1. UNCHANGED <<armed, fired, unsure, approvals, done>>
    BY <1>5 DEF PollTask, TickBegins
  <2>2. \A r \in Runs : AnswersWaiting(r)' => approvals[r] = 0 /\ done[r] = 1
    BY <1>5 DEF PollTask, AnswersWaiting, decide, TypeOK
  <2> QED BY <2>1, <2>2 DEF Once, Reached, TypeOK
<1>6. CASE PollIdle \/ PollFails
  <2>1. UNCHANGED <<armed, fired, unsure, approvals, done>> /\ phase' = "button"
    BY <1>6 DEF PollIdle, PollFails, TickBegins, serviceVars
  <2> QED BY <2>1 DEF AnswersWaiting, Once, Reached
<1>7. CASE ActivityTick
  <2>1. UNCHANGED <<armed, fired, unsure, approvals>> /\ phase' = "button"
    BY <1>7 DEF ActivityTick, TickBegins
  <2>2. \A r \in Runs : done[r] > 0 => done'[r] > 0
    BY <1>7 DEF ActivityTick, TypeOK
  <2> QED BY <2>1, <2>2 DEF AnswersWaiting, Once, Reached
<1>8. CASE Answers
  <2>1. UNCHANGED <<fired, unsure, approvals, done>> /\ phase' = "button" /\ phase = "answer"
    BY <1>8 DEF Answers, AnswerWaiting, AnswerProgress, AnswerFails, AnswerUnheard, Answer,
                Accept, Refuse, serviceVars
  <2>2. \A r \in Runs : armed' = r => armed = r \/ AnswersWaiting(r)
    BY <1>8 DEF Answers, AnswerWaiting, AnswerProgress, AnswerFails, AnswerUnheard, Answer,
                arm, AnswersWaiting
  <2> QED BY <2>1, <2>2 DEF AnswersWaiting, Once, Reached
<1>9. CASE Reboot
  BY <1>9, HumanAssumption DEF Reboot, serviceVars, AnswersWaiting, Once, Reached
<1>10. CASE onBootButtonIsr \/ DebounceEnds
  BY <1>10 DEF onBootButtonIsr, DebounceEnds, serviceVars, ghostVars, AnswersWaiting,
               Once, Reached
<1>11. CASE StartRun \/ TaskTimesOut
  BY <1>11 DEF StartRun, TaskTimesOut, deviceVars, ghostVars, AnswersWaiting, Once, Reached
<1>12. CASE ApprovedElsewhere
  <2>1. UNCHANGED <<deviceVars, fired, unsure, done>>
    BY <1>12 DEF ApprovedElsewhere, Approve, ghostVars
  <2>2. \A r \in Runs : approvals[r] > 0 => approvals'[r] > 0
    BY <1>12 DEF ApprovedElsewhere, Approve, TypeOK
  <2> QED BY <2>1, <2>2 DEF deviceVars, AnswersWaiting, Once, Reached
<1>13. CASE UNCHANGED vars
  BY <1>13 DEF vars, deviceVars, serviceVars, ghostVars, AnswersWaiting, Once, Reached
<1> QED BY <1>1, <1>2, <1>3, <1>4, <1>5, <1>6, <1>7, <1>8, <1>9, <1>10, <1>11, <1>12,
           <1>13 DEF Next, Loop, Tick

LEMMA FreshStep == IInv /\ [Next]_vars => Fresh'
<1> SUFFICES ASSUME TypeOK, Fresh, [Next]_vars PROVE Fresh'
  BY DEF IInv
<1>1. CASE pollSignalButton
  BY <1>1 DEF pollSignalButton, drain, Fresh
<1>2. CASE pollSignalSerial
  BY <1>2 DEF pollSignalSerial, Fresh
<1>3. CASE NoWifi \/ WhoamiFails \/ WorkerIsUp \/ buildWorker
  BY <1>3 DEF NoWifi, WhoamiFails, WorkerIsUp, buildWorker, ghostVars, Fresh
<1>4. CASE Tick
  <2>1. phase = "tick" /\ pressed' = pressed /\ age' = IF pressed THEN age + 1 ELSE 0
    BY <1>4 DEF Tick, PollTask, PollIdle, PollFails, ActivityTick, TickBegins
  <2>2. phase' \in {"answer", "button"}
    BY <1>4 DEF Tick, PollTask, PollIdle, PollFails, ActivityTick
  <2> QED BY <2>1, <2>2 DEF Fresh
<1>5. CASE Answers
  BY <1>5 DEF Answers, AnswerWaiting, AnswerProgress, AnswerFails, AnswerUnheard, Answer, Fresh
<1>6. CASE Reboot
  BY <1>6 DEF Reboot, Fresh
<1>7. CASE onBootButtonIsr
  <2>1. age' = 0
    BY <1>7 DEF onBootButtonIsr
  <2> QED BY <2>1 DEF Fresh
<1>9. CASE DebounceEnds
  BY <1>9 DEF DebounceEnds, ghostVars, Fresh
<1>8. CASE StartRun \/ ApprovedElsewhere \/ TaskTimesOut \/ UNCHANGED vars
  BY <1>8 DEF StartRun, ApprovedElsewhere, TaskTimesOut, deviceVars, ghostVars, vars, Fresh
<1> QED BY <1>1, <1>2, <1>3, <1>4, <1>5, <1>6, <1>7, <1>8, <1>9 DEF Next, Loop

-----------------------------------------------------------------------------
(* The theorems.                                                           *)

LEMMA Initially == Init => IInv
<1> SUFFICES ASSUME Init PROVE IInv
  OBVIOUS
<1>1. TypeOK
  <2>1. task \in [run : Runs \cup {NoRun}, decision : Decisions]
    BY DEF Init, NoTask, Decisions
  <2>2. pressed \in BOOLEAN /\ recent \in BOOLEAN
    BY DEF Init
  <2>3. errors \in Nat /\ errors < MaxErrors /\ faults \in 0..MaxFaults /\ age \in Nat
    BY HumanAssumption DEF Init
  <2>4. /\ act \in [Runs -> BOOLEAN] /\ due \in [Runs -> BOOLEAN] /\ out \in [Runs -> BOOLEAN]
        /\ status \in [Runs -> {"none", "open", "closed"}]
    BY DEF Init
  <2>5. done \in [Runs -> Nat] /\ approvals \in [Runs -> Nat] /\ fired \in [Runs -> Nat]
    BY DEF Init
  <2>6. /\ worker \in {"up", "down"} /\ turn \in {"workflow", "activity"} /\ phase \in Phases
        /\ phase # "answer"
        /\ armed \in Runs \cup {NoRun} /\ signaled \in Runs \cup {NoRun}
    BY DEF Init, Phases
  <2>7. unsure \subseteq Runs /\ forgotten \subseteq Runs
    BY DEF Init
  <2> QED BY <2>1, <2>2, <2>3, <2>4, <2>5, <2>6, <2>7 DEF TypeOK
<1>2. Once /\ Reached
  BY HumanAssumption DEF Init, NoTask, AnswersWaiting, Once, Reached
<1>3. Fresh
  BY DEF Init, Fresh
<1> QED BY <1>1, <1>2, <1>3 DEF IInv

LEMMA InvariantHolds == Spec => []IInv
<1>1. IInv /\ [Next]_vars => IInv'
  BY TypeStep, OnceStep, FreshStep DEF IInv
<1> QED BY Initially, <1>1, PTL DEF Spec

\* TypeOK: the device's latches, its error ladder and the service keep their
\* types, for any number of runs and faults.
THEOREM HumanTypeCorrect == Spec => []TypeOK
BY InvariantHolds, PTL DEF IInv

\* NoDoubleFire: whatever the presses, rebuilds and redelivered tasks, the device
\* approves a run once, unless the reply to an approval was lost.
THEOREM ApprovedOnce == Spec => []NoDoubleFire
<1>1. IInv => NoDoubleFire
  BY DEF IInv, TypeOK, Once, NoDoubleFire
<1> QED BY InvariantHolds, <1>1, PTL

\* ApprovesOnlyThePaused: the device's approval never reaches a run that has not
\* come to its wait.
THEOREM ApprovedAtTheWait == Spec => []ApprovesOnlyThePaused
<1>1. IInv => ApprovesOnlyThePaused
  BY DEF IInv, Reached, ApprovesOnlyThePaused
<1> QED BY InvariantHolds, <1>1, PTL

\* PressIsFresh: no press outlives the pass of the loop in which it was made by
\* more than the tick under way.
THEOREM PressesStayFresh == Spec => []PressIsFresh
<1>1. IInv => PressIsFresh
  BY DEF IInv, Fresh, PressIsFresh
<1> QED BY InvariantHolds, <1>1, PTL
=============================================================================
