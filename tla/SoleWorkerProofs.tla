-------------------------- MODULE SoleWorkerProofs --------------------------
(***************************************************************************)
(* Proofs about SoleWorker, for any tasks, attempts, faults, slots and     *)
(* watchdog: types and slots by TypeInv, one answer to a delivery and true *)
(* reports by AnswerInv, which is inductive relative to TypeInv.           *)
(***************************************************************************)
EXTENDS SoleWorker, SequenceTheorems, TLAPS

InboxType == inbox \in Seq(T!Frames)
InFlight == [request : Requests, stream : {"current", "earlier", "lost"}]
CallType == [request : Requests \cup {NoRequest},
             step : {"idle", "ensure", "begin", "send", "pump", "returned"},
             reused : BOOLEAN, again : BOOLEAN,
             status : T!Statuses, body : Tokens \cup {NoReply}]

-----------------------------------------------------------------------------
(* Type correctness.                                                       *)

\* What leaves the call's connection or stream stays what it is.
LEMMA DisownedType ==
  ASSUME received \subseteq InFlight
  PROVE  T!Disowned \subseteq InFlight /\ T!LeaveRequests \subseteq InFlight
  BY DEF InFlight, T!Disowned, T!LeaveRequests

\* Frames that lose their stream are frames still.
LEMMA LeaveType ==
  ASSUME NEW s \in Seq(T!Frames)
  PROVE  T!Leave(s) \in Seq(T!Frames)
<1>1. s \in [1..Len(s) -> T!Frames] /\ Len(s) \in Nat /\ DOMAIN s = 1..Len(s)
  OBVIOUS
<1>2. \A i \in 1..Len(s) : [s[i] EXCEPT !.stream = "earlier"] \in T!Frames
  BY <1>1 DEF T!Frames
<1>3. T!Leave(s) \in [1..Len(s) -> T!Frames]
  BY <1>1, <1>2 DEF T!Leave
<1> QED  BY <1>1, <1>3, SeqDef

\* A call is under way exactly during a tick, and a REST request holds its
\* slot exactly while it runs.
LoopInv ==
  /\ call.step = "idle" <=> phase \notin {"workflow", "poll", "respond"}
  /\ rest <=> phase \in {"whoami", "register"}
  /\ call.step # "idle" => call.request \in Requests
  /\ phase = "respond" => call.request.method \in RespondMethods
  /\ phase \in {"workflow", "poll"} => call.request.method \in PollMethods

\* TypeOK without the transport's part.
WorkerTypeOK ==
  /\ worker \in {"up", "down"}
  /\ turn \in {"workflow", "activity"}
  /\ errors \in 0..4
  /\ phase \in {"loop", "whoami", "registering", "register", "ready",
               "workflow", "poll", "respond", "backoff"}
  /\ rest \in BOOLEAN
  /\ reported \subseteq Tasks

ServiceTypeOK ==
  /\ queue \in [Tasks -> {"queued", "out", "ended", "expired"}]
  /\ attempt \in [Tasks -> 0..MaxAttempts]
  /\ served \in [Tasks -> Nat]

TypeInv == T!TransportTypeOK /\ WorkerTypeOK /\ ServiceTypeOK /\ SlotsAccounted /\ LoopInv

\* The invariant contains the type correctness the runs check.
LEMMA TypeInvImpliesTypeOK == TypeInv => TypeOK
BY DEF TypeInv, TypeOK, WorkerTypeOK, ServiceTypeOK

\* The board starts with every slot free and no call under way.
LEMMA InitTypeInv == Init => TypeInv
<1> SUFFICES ASSUME Init PROVE TypeInv
  OBVIOUS
<1> USE DEF Init
<1>1. call \in CallType /\ call.step = "idle"
  BY DEF T!TransportInit, T!NoCall, CallType, T!Statuses
<1>2. inbox \in Seq(T!Frames)
  BY EmptySeq DEF T!TransportInit
<1>3. slots \in 0..Slots /\ faults \in 0..MaxFaults
  BY WorkerAssumption DEF T!TransportInit
<1>4. T!TransportTypeOK
  BY <1>1, <1>2, <1>3 DEF T!TransportInit, T!TransportTypeOK, CallType
<1>5. ServiceTypeOK
  BY WorkerAssumption DEF ServiceTypeOK
<1>6. WorkerTypeOK
  <2>1. /\ worker = "down" /\ turn = "workflow" /\ errors = 0
        /\ phase = "loop" /\ rest = FALSE /\ reported = {}
    OBVIOUS
  <2>2. errors \in 0..4
    BY <2>1
  <2>3. reported \subseteq Tasks
    BY <2>1
  <2>4. rest \in BOOLEAN
    BY <2>1
  <2> QED  BY <2>1, <2>2, <2>3, <2>4 DEF WorkerTypeOK
<1>7. SlotsAccounted /\ LoopInv
  BY <1>1, WorkerAssumption DEF T!TransportInit, SlotsAccounted, LoopInv
<1> QED  BY <1>4, <1>5, <1>6, <1>7 DEF TypeInv

\* The call returns, or goes round again: in either case it is still a call
\* with the same request.
LEMMA ReturnType ==
  ASSUME call \in CallType, NEW status \in T!Statuses, NEW body \in Tokens \cup {NoReply},
         T!Return(status, body)
  PROVE  call' \in CallType /\ call'.request = call.request /\ call'.step \in {"ensure", "returned"}
  BY DEF CallType, T!Return

\* Every step of the call preserves the invariant.
LEMMA CallingType == TypeInv /\ Calling => TypeInv'
<1> SUFFICES ASSUME T!TransportTypeOK, SlotsAccounted, LoopInv, rest \in BOOLEAN,
                    T!CallStep, phase' = phase, rest' = rest
             PROVE  T!TransportTypeOK' /\ SlotsAccounted' /\ LoopInv'
  BY DEF TypeInv, WorkerTypeOK, ServiceTypeOK, Calling, workerVars, serviceVars
<1> USE DEF T!TransportTypeOK, T!connVars, SlotsAccounted, LoopInv
<1>1. CASE T!EnsureReusable  BY <1>1 DEF T!EnsureReusable
<1>2. CASE T!OpenStream
  <2>1. call' \in CallType /\ call'.request = call.request /\ call'.step = "begin"
    BY <1>2 DEF T!OpenStream, CallType
  <2>2. slots' = Slots - 1 - (IF rest THEN 1 ELSE 0) /\ slots' \in 0..Slots
    BY <1>2, WorkerAssumption DEF T!OpenStream, T!FreeSlots
  <2>3. received' \subseteq InFlight
    BY <1>2, DisownedType DEF T!OpenStream, InFlight
  <2>4. inbox' \in Seq(T!Frames)
    BY <1>2, EmptySeq DEF T!OpenStream
  <2>5. T!TransportTypeOK'
    BY <1>2, <2>1, <2>2, <2>3, <2>4 DEF T!OpenStream, CallType, InFlight
  <2>6. SlotsAccounted'
    BY <1>2, <2>2 DEF T!OpenStream
  <2>7. LoopInv'
    BY <1>2, <2>1 DEF T!OpenStream
  <2> QED  BY <2>5, <2>6, <2>7
<1>3. CASE T!OpenFails
  <2>1. call' \in CallType /\ call'.request = call.request /\ call'.step = "returned"
    BY <1>3 DEF T!OpenFails, T!ConnectFailed, CallType, T!Statuses
  <2>2. faults' \in 0..MaxFaults
    BY <1>3, WorkerAssumption DEF T!OpenFails, T!Fault
  <2>3. slots' = Slots - (IF rest THEN 1 ELSE 0) /\ slots' \in 0..Slots
    BY <1>3, WorkerAssumption DEF T!OpenFails, T!FreeSlots
  <2>4. received' \subseteq InFlight
    BY <1>3, DisownedType DEF T!OpenFails, InFlight
  <2>5. inbox' \in Seq(T!Frames)
    BY <1>3, EmptySeq DEF T!OpenFails
  <2>6. T!TransportTypeOK'
    BY <1>3, <2>1, <2>2, <2>3, <2>4, <2>5 DEF T!OpenFails, CallType, InFlight
  <2>7. SlotsAccounted'
    BY <1>3, <2>3 DEF T!OpenFails
  <2>8. LoopInv'
    BY <1>3, <2>1 DEF T!OpenFails
  <2> QED  BY <2>6, <2>7, <2>8
<1>4. CASE T!BeginSession  BY <1>4 DEF T!BeginSession, T!FirstBytes
<1>5. CASE T!BeginFails
  <2>1. call' \in CallType /\ call'.request = call.request /\ call'.step = "returned"
    BY <1>5 DEF T!BeginFails, T!ConnectFailed, CallType, T!Statuses
  <2>2. faults' \in 0..MaxFaults
    BY <1>5, WorkerAssumption DEF T!BeginFails, T!Fault
  <2>3. slots' = Slots - (IF rest THEN 1 ELSE 0) /\ slots' \in 0..Slots
    BY <1>5, WorkerAssumption DEF T!BeginFails, T!FreeSlots
  <2>4. T!TransportTypeOK'
    BY <1>5, <2>1, <2>2, <2>3 DEF T!BeginFails, CallType
  <2>5. SlotsAccounted'
    BY <1>5, <2>3 DEF T!BeginFails
  <2>6. LoopInv'
    BY <1>5, <2>1 DEF T!BeginFails
  <2> QED  BY <2>4, <2>5, <2>6
<1>6. CASE T!SendRequest
  <2>1. [request |-> call.request, stream |-> "current"] \in InFlight
    BY <1>6 DEF T!SendRequest, InFlight
  <2> QED  BY <1>6, <2>1 DEF T!SendRequest, InFlight
<1>7. CASE T!ConnectionLost
  BY <1>7, DisownedType, LeaveType, ReturnType DEF T!ConnectionLost, T!Statuses, InFlight, CallType
<1>8. CASE T!ReadFrames
  <2>1. PICK n \in 1..Len(inbox) :
          LET read == {inbox[i] : i \in 1..n}
              unread == SubSeq(inbox, n + 1, Len(inbox))
              retired == T!GoAway \in read
              answered == T!OwnAnswers(read) # {}
          IN  /\ session' = IF retired THEN "dead" ELSE session
              /\ IF retired \/ answered
                 THEN /\ IF retired
                         THEN T!Return("unavailable", NoReply)
                         ELSE \E f \in T!OwnAnswers(read) : T!Return(f.status, f.body)
                      /\ inbox' = T!Leave(unread)
                      /\ received' = T!LeaveRequests
                 ELSE inbox' = unread /\ UNCHANGED <<call, received>>
    BY <1>8 DEF T!ReadFrames
  <2>2. SubSeq(inbox, n + 1, Len(inbox)) \in Seq(T!Frames)
    BY <2>1, SubSeqProperties
  <2>3. inbox' \in Seq(T!Frames)
    BY <2>1, <2>2, LeaveType
  <2>4. received' \subseteq InFlight
    BY <2>1, DisownedType DEF InFlight
  <2>5. call' \in CallType /\ call'.request = call.request
        /\ (call'.step \in {"ensure", "returned"} \/ call' = call)
    <3> DEFINE read == {inbox[i] : i \in 1..n}
    <3>1. \A i \in 1..n : inbox[i] \in T!Frames
      BY <2>1, ElementOfSeq
    <3>2. \A f \in T!OwnAnswers(read) : f \in T!Frames
      BY <3>1 DEF T!OwnAnswers
    <3>3. \A f \in T!OwnAnswers(read) : f.status \in T!Statuses /\ f.body \in Tokens \cup {NoReply}
      BY <3>2 DEF T!Frames
    <3>4. call \in CallType
      BY DEF CallType
    <3>5. CASE T!GoAway \in read
      <4>1. T!Return("unavailable", NoReply)
        BY <2>1, <3>5
      <4> QED  BY <4>1, <3>4, ReturnType DEF T!Statuses
    <3>6. CASE T!GoAway \notin read /\ T!OwnAnswers(read) # {}
      <4>1. PICK f \in T!OwnAnswers(read) : T!Return(f.status, f.body)
        BY <2>1, <3>6
      <4> QED  BY <4>1, <3>3, <3>4, ReturnType
    <3>7. CASE T!GoAway \notin read /\ T!OwnAnswers(read) = {}
      BY <2>1, <3>4, <3>7
    <3> QED  BY <3>5, <3>6, <3>7
  <2>6. session' \in {"none", "alive", "dead"}
    BY <2>1
  <2>7. UNCHANGED <<conn, connected, slots, holding, faults>> /\ call.step = "pump"
    BY <1>8 DEF T!ReadFrames
  <2>8. T!TransportTypeOK'
    BY <2>3, <2>4, <2>5, <2>6, <2>7 DEF CallType, InFlight
  <2>9. SlotsAccounted' /\ LoopInv'
    BY <2>5, <2>7
  <2> QED  BY <2>8, <2>9
<1>9. CASE T!DeadlinePasses
  <2>1. faults' \in 0..MaxFaults
    BY <1>9, WorkerAssumption DEF T!DeadlinePasses, T!Fault
  <2> QED  BY <1>9, <2>1, DisownedType, LeaveType, ReturnType
           DEF T!DeadlinePasses, T!Statuses, InFlight, CallType
<1> QED  BY <1>1, <1>2, <1>3, <1>4, <1>5, <1>6, <1>7, <1>8, <1>9 DEF T!CallStep

\* A REST request takes its slot and gives it back.
LEMMA RestType ==
  ASSUME TypeInv, Whoami \/ WhoamiSucceeds \/ WhoamiFails \/ Register \/ RegisterEnds
  PROVE  TypeInv'
<1> USE DEF TypeInv, Whoami, WhoamiSucceeds, WhoamiFails, Register, RegisterEnds,
        TakeSlot, GiveSlot, RestUnchanged
<1>1. faults' \in 0..MaxFaults
  BY WorkerAssumption DEF T!TransportTypeOK, T!Fault
<1>2. slots' \in 0..Slots /\ SlotsAccounted'
  BY WorkerAssumption DEF T!TransportTypeOK, SlotsAccounted, LoopInv
<1>3. T!TransportTypeOK'
  BY <1>1, <1>2 DEF T!TransportTypeOK
<1>4. WorkerTypeOK'
  BY DEF WorkerTypeOK
<1>5. ServiceTypeOK'
  BY DEF ServiceTypeOK, serviceVars
<1>6. LoopInv'
  BY DEF LoopInv
<1> QED  BY <1>2, <1>3, <1>4, <1>5, <1>6

\* A call starts: that of the request, with nothing in hand.
LEMMA InvokeType ==
  ASSUME NEW r \in Requests, T!Invoke(r)
  PROVE  call' \in CallType /\ call'.request = r /\ call'.step = "ensure"
BY DEF T!Invoke, T!NoCall, T!Statuses, CallType, T!Usable

\* The loop's steps that start a call.
LEMMA TickStartsType ==
  ASSUME TypeInv, TickWorkflow \/ TickActivity \/ DispatchTask
  PROVE  TypeInv'
<1>1. PICK r \in Requests :
        /\ T!Invoke(r)
        /\ \/ phase' = "respond" /\ r.method \in RespondMethods
           \/ phase' \in {"workflow", "poll"} /\ r.method \in PollMethods
  <2>1. CASE TickWorkflow
    BY <2>1 DEF TickWorkflow, PollRequest, Requests, PollMethods
  <2>2. CASE TickActivity
    BY <2>2 DEF TickActivity, PollRequest, Requests, PollMethods
  <2>3. CASE DispatchTask
    <3>1. call.body \in Tokens
      BY <2>3 DEF DispatchTask, HasTask, TypeInv, T!TransportTypeOK
    <3>2. AnswerMethod(call.body.task) \in RespondMethods
      BY DEF AnswerMethod, RespondMethods
    <3> QED  BY <2>3, <3>1, <3>2 DEF DispatchTask, RespondRequest, Requests
  <2> QED  BY <2>1, <2>2, <2>3
<1>2. call' \in CallType /\ call'.request = r /\ call'.step = "ensure"
  BY <1>1, InvokeType
<1>3. /\ UNCHANGED <<conn, session, connected, slots, holding, inbox, received, faults>>
      /\ UNCHANGED <<worker, errors, rest, queue, attempt, served, reported>>
  BY <1>1 DEF T!Invoke, T!connVars, TickWorkflow, TickActivity, TickStarts, DispatchTask, serviceVars
<1>4. turn' \in {"workflow", "activity"}
  BY DEF TickWorkflow, TickActivity, TickStarts, DispatchTask, Flipped, TypeInv, WorkerTypeOK
<1>5. ~ rest
  BY DEF TickWorkflow, TickActivity, TickStarts, NoSlotToRegister, DispatchTask, HasTask,
     TypeInv, LoopInv
<1>6. T!TransportTypeOK'
  BY <1>2, <1>3 DEF TypeInv, T!TransportTypeOK, CallType
<1>7. WorkerTypeOK'
  BY <1>1, <1>3, <1>4 DEF TypeInv, WorkerTypeOK
<1>8. ServiceTypeOK' /\ SlotsAccounted'
  BY <1>3 DEF TypeInv, ServiceTypeOK, SlotsAccounted
<1>9. LoopInv'
  BY <1>1, <1>2, <1>3, <1>5 DEF LoopInv
<1> QED  BY <1>6, <1>7, <1>8, <1>9 DEF TypeInv

\* The steps that end a tick and keep the worker.
LEMMA TickEndsType ==
  ASSUME TypeInv, PollIdle \/ PollUnreadable \/ RespondLands \/ BackOff
  PROVE  TypeInv'
<1>1. call' = T!NoCall /\ T!NoCall \in CallType /\ T!NoCall.step = "idle"
  BY DEF PollIdle, PollUnreadable, RespondLands, BackOff, EndTick, T!NoCall, CallType, T!Statuses
<1>2. /\ UNCHANGED <<conn, session, connected, slots, holding, inbox, received, faults>>
      /\ UNCHANGED <<worker, turn, rest, queue, attempt, served>>
  BY DEF PollIdle, PollUnreadable, RespondLands, BackOff, EndTick, serviceVars
<1>3. phase' \in {"loop", "backoff"} /\ phase \in {"workflow", "poll", "respond"}
  BY DEF PollIdle, PollUnreadable, RespondLands, BackOff, EndTick, HasTask, IsTransportError,
     Returned, TypeInv, LoopInv
<1>4. errors' \in 0..4
  BY DEF PollIdle, PollUnreadable, RespondLands, BackOff, LastRung, TypeInv, WorkerTypeOK
<1>5. reported' \subseteq Tasks
  <2>1. CASE RespondLands
    <3>1. call.request \in Requests /\ call.request.method \in RespondMethods
      BY <2>1 DEF RespondLands, Returned, TypeInv, LoopInv
    <3>2. call.request.token.task \in Tasks
      BY <3>1 DEF Requests, PollMethods, RespondMethods, Tokens
    <3> QED  BY <2>1, <3>2 DEF RespondLands, TypeInv, WorkerTypeOK
  <2>2. CASE ~ RespondLands
    BY <2>2 DEF PollIdle, PollUnreadable, BackOff, TypeInv, WorkerTypeOK
  <2> QED  BY <2>1, <2>2
<1>6. T!TransportTypeOK'
  BY <1>1, <1>2 DEF TypeInv, T!TransportTypeOK, CallType
<1>7. WorkerTypeOK'
  BY <1>2, <1>3, <1>4, <1>5 DEF TypeInv, WorkerTypeOK
<1>8. ServiceTypeOK' /\ SlotsAccounted'
  BY <1>2 DEF TypeInv, ServiceTypeOK, SlotsAccounted
<1>9. LoopInv'
  BY <1>1, <1>2, <1>3 DEF TypeInv, LoopInv
<1> QED  BY <1>6, <1>7, <1>8, <1>9 DEF TypeInv

\* The worker is dropped, or the board starts again.
LEMMA ResetType ==
  ASSUME TypeInv, DropWorker \/ WatchdogBites \/ PowerCut
  PROVE  TypeInv'
<1>1. call' = T!NoCall /\ T!NoCall \in CallType /\ T!NoCall.step = "idle"
  BY DEF DropWorker, T!CloseTransport, WatchdogBites, PowerCut, Reboot, T!NoCall, CallType, T!Statuses
<1>2. conn' = "none" /\ session' = "none" /\ connected' = FALSE /\ holding' = FALSE
  BY DEF DropWorker, T!CloseTransport, WatchdogBites, PowerCut, Reboot
<1>3. inbox' \in Seq(T!Frames)
  BY EmptySeq DEF DropWorker, T!CloseTransport, WatchdogBites, PowerCut, Reboot
<1>4. received' \subseteq InFlight
  BY DisownedType DEF DropWorker, T!CloseTransport, WatchdogBites, PowerCut, Reboot,
     TypeInv, T!TransportTypeOK, InFlight
<1>5. phase' = "loop" /\ rest' = FALSE
  <2>1. CASE DropWorker
    <3>1. call.step = "returned"
      BY <2>1 DEF DropWorker, IsTransportError, Returned
    <3>2. phase \in {"workflow", "poll", "respond"}
      BY <3>1 DEF TypeInv, LoopInv
    <3>3. rest = FALSE
      BY <3>2 DEF TypeInv, LoopInv, WorkerTypeOK
    <3> QED  BY <2>1, <3>3 DEF DropWorker
  <2>2. CASE WatchdogBites \/ PowerCut
    BY <2>2 DEF WatchdogBites, PowerCut, Reboot
  <2> QED  BY <2>1, <2>2
<1>6. slots' = Slots /\ slots' \in 0..Slots
  BY WorkerAssumption DEF DropWorker, IsTransportError, Returned, T!CloseTransport, T!FreeSlots,
     WatchdogBites, PowerCut, Reboot, TypeInv, LoopInv, SlotsAccounted, T!TransportTypeOK
<1>7. faults' \in 0..MaxFaults
  BY WorkerAssumption DEF DropWorker, WatchdogBites, PowerCut, T!Fault, TypeInv, T!TransportTypeOK
<1>8. T!TransportTypeOK'
  BY <1>1, <1>2, <1>3, <1>4, <1>6, <1>7 DEF T!TransportTypeOK, CallType, InFlight
<1>9. WorkerTypeOK'
  <2>1. worker' = "down" /\ errors' = 0 /\ turn' \in {"workflow", "activity"} /\ reported' = reported
    BY DEF DropWorker, WatchdogBites, PowerCut, Reboot, TypeInv, WorkerTypeOK
  <2>2. errors' \in 0..4
    BY <2>1
  <2>3. rest' \in BOOLEAN
    BY <1>5
  <2> QED  BY <1>5, <2>1, <2>2, <2>3 DEF TypeInv, WorkerTypeOK
<1>10. ServiceTypeOK'
  BY DEF DropWorker, WatchdogBites, PowerCut, Reboot, serviceVars, TypeInv, ServiceTypeOK
<1>11. SlotsAccounted' /\ LoopInv'
  BY <1>1, <1>2, <1>5, <1>6, WorkerAssumption DEF SlotsAccounted, LoopInv
<1> QED  BY <1>8, <1>9, <1>10, <1>11 DEF TypeInv

\* Every step of the loop preserves the invariant.
LEMMA TickType == TypeInv /\ Tick => TypeInv'
<1>1. ASSUME TypeInv, DelayEnds PROVE TypeInv'
  BY <1>1 DEF DelayEnds, transportVars, serviceVars, TypeInv, T!TransportTypeOK, WorkerTypeOK,
     ServiceTypeOK, SlotsAccounted, LoopInv
<1> QED  BY <1>1, RestType, TickStartsType, TickEndsType, ResetType DEF Tick

\* What the far end does to a connection changes no type.
LEMMA FarEndType == TypeInv /\ FarEnd => TypeInv'
<1> SUFFICES ASSUME TypeInv, FarEnd PROVE TypeInv'
  OBVIOUS
<1> USE DEF FarEnd, T!PeerStep, T!PeerGoesAway, T!PeerCloses, T!PeerRefuses
<1>1. UNCHANGED <<session, connected, slots, holding, call, phase, rest>>
  BY DEF T!connVars, workerVars
<1>2. conn' \in {"none", "fresh", "serving", "refusing", "gone"} /\ (conn' = "none" <=> conn = "none")
  BY DEF T!connVars, TypeInv, T!TransportTypeOK
<1>3. T!GoAway \in T!Frames
  BY DEF T!GoAway, T!Frames, T!Statuses
<1>4. inbox' \in Seq(T!Frames)
  <2>1. inbox \in Seq(T!Frames)
    BY DEF TypeInv, T!TransportTypeOK
  <2> QED  BY <1>3, <2>1, AppendProperties
<1>5. received' \subseteq InFlight
  BY DisownedType DEF TypeInv, T!TransportTypeOK, InFlight
<1>6. faults' \in 0..MaxFaults
  BY WorkerAssumption DEF T!Fault, TypeInv, T!TransportTypeOK
<1>7. T!TransportTypeOK'
  BY <1>1, <1>2, <1>4, <1>5, <1>6 DEF TypeInv, T!TransportTypeOK, InFlight
<1>8. SlotsAccounted' /\ LoopInv'
  BY <1>1, <1>2 DEF TypeInv, SlotsAccounted, LoopInv
<1>9. WorkerTypeOK' /\ ServiceTypeOK'
  BY DEF workerVars, serviceVars, TypeInv, WorkerTypeOK, ServiceTypeOK
<1> QED  BY <1>7, <1>8, <1>9 DEF TypeInv

\* An answer that is sent is a frame.
LEMMA SentType ==
  ASSUME InboxType, NEW e \in InFlight, NEW status \in T!Statuses,
         NEW body \in Tokens \cup {NoReply}, T!Sent(e, status, body)
  PROVE  InboxType'
<1>1. CASE e.stream = "lost" \/ conn # "serving"
  BY <1>1 DEF T!Sent, InboxType
<1>2. CASE ~ (e.stream = "lost" \/ conn # "serving")
  <2>1. T!Answer(e.stream, status, body) \in T!Frames
    BY <1>2 DEF InFlight, T!Answer, T!Frames
  <2> QED  BY <1>2, <2>1, AppendProperties DEF T!Sent, InboxType
<1> QED  BY <1>1, <1>2

\* The service changes what is under way and its own books, nothing of the
\* device.
LEMMA ServiceType == TypeInv /\ Service => TypeInv'
<1> SUFFICES ASSUME TypeInv, Service PROVE TypeInv'
  OBVIOUS
<1>1. /\ UNCHANGED <<conn, session, connected, slots, holding, call>>
      /\ UNCHANGED <<worker, turn, errors, phase, rest, reported>>
  BY DEF Service, ServePollActivity, ServePollWorkflow, ServeRespond, ServeUnavailable,
     LostTaskTimesOut, TaskTimesOutEarly, ActivityTimeout, workerVars
<1>2. InboxType /\ received \subseteq InFlight /\ ServiceTypeOK
  BY DEF TypeInv, T!TransportTypeOK, InFlight, InboxType
<1>3. InboxType' /\ received' \subseteq InFlight
  <2>1. CASE ServePollActivity
    <3>1. PICK e \in received, status \in T!Statuses, body \in Tokens \cup {NoReply} :
            T!Reply(e, status, body)
      <4>1. \A t \in Tasks : attempt[t] < MaxAttempts =>
              [task |-> t, attempt |-> attempt[t] + 1] \in Tokens
        BY <1>2, WorkerAssumption DEF ServiceTypeOK, Tokens, Attempts
      <4> QED  BY <2>1, <4>1 DEF ServePollActivity, T!Statuses
    <3> QED  BY <1>2, <3>1, SentType DEF T!Reply
  <2>2. CASE ServePollWorkflow \/ ServeRespond
    <3>1. PICK e \in received, status \in T!Statuses, body \in Tokens \cup {NoReply} :
            T!Reply(e, status, body)
      BY <2>2 DEF ServePollWorkflow, ServeRespond, T!Statuses
    <3> QED  BY <1>2, <3>1, SentType DEF T!Reply
  <2>3. CASE ServeUnavailable
    <3>1. PICK e \in received : T!ReplyForService(e)
      BY <2>3 DEF ServeUnavailable
    <3>2. [e EXCEPT !.stream = "lost"] \in InFlight
      BY <1>2 DEF InFlight
    <3>3. InboxType'
      BY <1>2, <3>1, SentType DEF T!ReplyForService, T!Statuses
    <3> QED  BY <1>2, <3>1, <3>2, <3>3 DEF T!ReplyForService
  <2>4. CASE LostTaskTimesOut \/ TaskTimesOutEarly
    BY <1>2, <2>4 DEF LostTaskTimesOut, TaskTimesOutEarly, ActivityTimeout, InboxType
  <2> QED  BY <2>1, <2>2, <2>3, <2>4 DEF Service
<1>4. faults' \in 0..MaxFaults
  BY WorkerAssumption DEF Service, ServePollActivity, ServePollWorkflow, ServeRespond,
     ServeUnavailable, LostTaskTimesOut, TaskTimesOutEarly, T!Fault, TypeInv, T!TransportTypeOK
<1>5. ServiceTypeOK'
  <2>1. CASE ServePollActivity
    <3>1. CASE UNCHANGED serviceVars
      BY <1>2, <3>1 DEF ServiceTypeOK, serviceVars
    <3>2. CASE \E t \in Tasks :
                 /\ attempt[t] < MaxAttempts
                 /\ queue' = [queue EXCEPT ![t] = "out"]
                 /\ attempt' = [attempt EXCEPT ![t] = @ + 1]
                 /\ served' = [served EXCEPT ![t] = 0]
      BY <1>2, <3>2, WorkerAssumption DEF ServiceTypeOK
    <3> QED  BY <2>1, <3>1, <3>2 DEF ServePollActivity
  <2>4. CASE ServeRespond
    <3>1. PICK e \in received :
            e.request.method \in RespondMethods /\
            LET t == e.request.token.task
                latest == e.request.token.attempt = attempt[t]
                fits == latest /\ queue[t] = "out"
            IN  /\ queue' = IF fits THEN [queue EXCEPT ![t] = "ended"] ELSE queue
                /\ served' = IF latest THEN [served EXCEPT ![t] = @ + 1] ELSE served
      BY <2>4 DEF ServeRespond
    <3>2. attempt' = attempt
      BY <2>4 DEF ServeRespond
    <3>3. served' \in [Tasks -> Nat]
      <4>1. served \in [Tasks -> Nat]
        BY <1>2 DEF ServiceTypeOK
      <4>2. \A t \in Tasks : [served EXCEPT ![t] = @ + 1] \in [Tasks -> Nat]
        BY <4>1
      <4>3. e.request.token.task \in Tasks
        BY <1>2, <3>1 DEF InFlight, Requests, PollMethods, RespondMethods, Tokens
      <4> QED  BY <3>1, <4>1, <4>2, <4>3
    <3>4. queue' \in [Tasks -> {"queued", "out", "ended", "expired"}]
      <4>1. queue \in [Tasks -> {"queued", "out", "ended", "expired"}]
        BY <1>2 DEF ServiceTypeOK
      <4>2. \A t : [queue EXCEPT ![t] = "ended"] \in [Tasks -> {"queued", "out", "ended", "expired"}]
        BY <4>1
      <4> QED  BY <3>1, <4>1, <4>2
    <3> QED  BY <1>2, <3>2, <3>3, <3>4 DEF ServiceTypeOK
  <2>2. CASE ServePollWorkflow \/ ServeUnavailable
    BY <1>2, <2>2 DEF ServePollWorkflow, ServeUnavailable, ServiceTypeOK, serviceVars
  <2>3. CASE LostTaskTimesOut \/ TaskTimesOutEarly
    BY <1>2, <2>3 DEF LostTaskTimesOut, TaskTimesOutEarly, ActivityTimeout, ServiceTypeOK
  <2> QED  BY <2>1, <2>2, <2>3, <2>4 DEF Service
<1>6. T!TransportTypeOK'
  BY <1>1, <1>3, <1>4 DEF TypeInv, T!TransportTypeOK, InFlight, InboxType
<1>7. WorkerTypeOK' /\ SlotsAccounted' /\ LoopInv'
  BY <1>1 DEF TypeInv, WorkerTypeOK, SlotsAccounted, LoopInv
<1> QED  BY <1>5, <1>6, <1>7 DEF TypeInv

\* Every step of the system does.
LEMMA TypeStep == TypeInv /\ [Next]_vars => TypeInv'
<1>1. ASSUME TypeInv, UNCHANGED vars PROVE TypeInv'
  BY <1>1 DEF vars, transportVars, workerVars, serviceVars, TypeInv, T!TransportTypeOK,
     WorkerTypeOK, ServiceTypeOK, SlotsAccounted, LoopInv
<1> QED  BY <1>1, CallingType, TickType, FarEndType, ServiceType, ResetType DEF Next

\* Types, slots and the place in the loop agree at all times.
LEMMA TypeInvariant == Spec => []TypeInv
BY InitTypeInv, TypeStep, PTL DEF Spec

\* Every variable keeps its type, for any tasks, faults and slots.
THEOREM WorkerTypeCorrect == Spec => []TypeOK
BY TypeInvariant, TypeInvImpliesTypeOK, PTL

\* No slot of the arbiter is lost or handed out twice, whatever the transport's
\* teardowns, the failed opens, the REST requests and the reboots do.
THEOREM SlotsAlwaysAccounted == Spec => []SlotsAccounted
<1>1. TypeInv => SlotsAccounted
  BY DEF TypeInv
<1> QED  BY <1>1, TypeInvariant, PTL

-----------------------------------------------------------------------------
(* One delivery, one answer.  A token is followed from the service to the  *)
(* device and back: the frame that brings it, the call that holds it, the  *)
(* request that carries the answer.                                        *)

Token(t) == [task |-> t, attempt |-> attempt[t]]

\* An answer to the latest attempt at t is on its way to the service.
AnswerTravels(t) == \E e \in received : e.request.token = Token(t)

\* No answer to the latest attempt at t has left the device.
Unanswered(t) == served[t] = 0 /\ ~ AnswerTravels(t)

\* A token in the system names an attempt that was made.
Made(token) == token # NoReply => token.attempt <= attempt[token.task]

TokensMade ==
  /\ \A e \in received : Made(e.request.token)
  /\ \A i \in DOMAIN inbox : Made(inbox[i].body)
  /\ Made(call.body)
  /\ call.step # "idle" => Made(call.request.token)

\* What belongs to the call under way belongs to its request.
CurrentInv ==
  /\ \A e \in received : e.stream = "current" => call.step = "pump" /\ e.request = call.request
  /\ \A i \in DOMAIN inbox :
       inbox[i].stream = "current" =>
         /\ call.step = "pump"
         /\ inbox[i].body # NoReply => call.request.method \in PollMethods
         /\ inbox[i].status = "ok" /\ call.request.method \in RespondMethods
              => queue[call.request.token.task] = "ended"
  /\ call.step # "returned" => call.body = NoReply
  /\ call.body # NoReply => call.request.method \in PollMethods

\* An attempt has one answer at most, at the service or on its way.
OneAnswer ==
  \A t \in Tasks :
    /\ served[t] <= 1
    /\ served[t] = 1 => ~ AnswerTravels(t)
    /\ \A d, e \in received : d.request.token = Token(t) /\ e.request.token = Token(t) => d = e

\* It has none while the device has the task, or the answer, still before it.
HeldUnanswered ==
  \A t \in Tasks :
    /\ call.step \in {"ensure", "begin", "send"} /\ call.request.token = Token(t) => Unanswered(t)
    /\ \A i \in DOMAIN inbox :
         inbox[i].stream = "current" /\ inbox[i].body = Token(t) => Unanswered(t)
    /\ call.body = Token(t) => Unanswered(t)

\* A respond call that came back with "ok" has ended its task.
ReportInv ==
  /\ ReportedMeansEnded
  /\ phase = "respond" /\ call.step = "returned" /\ call.status = "ok"
       => queue[call.request.token.task] = "ended"

AnswerInv == TokensMade /\ CurrentInv /\ OneAnswer /\ HeldUnanswered /\ ReportInv

\* A token is never the empty body.
LEMMA TokenType ==
  ASSUME ServiceTypeOK, NEW t \in Tasks
  PROVE  Token(t) # NoReply /\ attempt[t] \in Nat
<1>1. attempt[t] \in Nat
  BY WorkerAssumption DEF ServiceTypeOK
<1>2. Token(t) \in [task : Tasks, attempt : Nat]
  BY <1>1 DEF Token
<1> QED  BY <1>1, <1>2, WorkerAssumption

\* Polls carry no token, answers one.
LEMMA RequestToken ==
  ASSUME NEW r \in Requests
  PROVE  /\ r.method \in PollMethods => r.token = NoReply
         /\ r.method \in RespondMethods => r.token \in Tokens
         /\ r.method \in PollMethods <=> r.method \notin RespondMethods
BY DEF Requests, PollMethods, RespondMethods

\* At first there is no token to follow.
LEMMA InitAnswerInv == Init => AnswerInv
<1> SUFFICES ASSUME Init PROVE AnswerInv
  OBVIOUS
<1> USE DEF Init, T!TransportInit, T!NoCall
<1>1. ServiceTypeOK
  BY InitTypeInv DEF TypeInv
<1>2. DOMAIN inbox = {}
  OBVIOUS
<1>3. TokensMade /\ CurrentInv
  BY <1>2 DEF TokensMade, CurrentInv, Made
<1>4. OneAnswer
  BY DEF OneAnswer, AnswerTravels
<1>5. HeldUnanswered
  BY <1>1, <1>2, TokenType DEF HeldUnanswered
<1>6. ReportInv
  BY DEF ReportInv, ReportedMeansEnded
<1> QED  BY <1>3, <1>4, <1>5, <1>6 DEF AnswerInv

\* Losing a connection or leaving a stream loses no request the service has
\* and makes none.
LEMMA Relabelled ==
  ASSUME received \subseteq InFlight, received' = T!Disowned \/ received' = T!LeaveRequests,
         attempt' = attempt, served' = served
  PROVE  /\ \A e \in received' : e.stream # "current" /\ \E d \in received : d.request = e.request
         /\ OneAnswer => OneAnswer'
         /\ \A t : Unanswered(t) => Unanswered(t)'
<1>1. \A e \in received' : e.stream # "current" /\ \E d \in received : d.request = e.request
  BY DEF T!Disowned, T!LeaveRequests, InFlight
<1>2. \A t : Token(t)' = Token(t)
  BY DEF Token
<1>3. \A t : AnswerTravels(t)' => AnswerTravels(t)
  BY <1>1, <1>2 DEF AnswerTravels
<1>4. ASSUME OneAnswer, NEW t \in Tasks, NEW d \in received', NEW e \in received',
             d.request.token = Token(t)', e.request.token = Token(t)'
      PROVE  d = e
  <2>1. CASE received' = T!Disowned
    <3>1. PICK d0 \in received, e0 \in received :
            d = [d0 EXCEPT !.stream = "lost"] /\ e = [e0 EXCEPT !.stream = "lost"]
      BY <2>1 DEF T!Disowned
    <3>2. d0.request = d.request /\ e0.request = e.request
      BY <3>1 DEF InFlight
    <3>3. d0 = e0
      BY <1>2, <1>4, <3>2 DEF OneAnswer
    <3> QED  BY <3>1, <3>3
  <2>2. CASE received' = T!LeaveRequests
    <3>1. PICK d0 \in received, e0 \in received :
            /\ d = [d0 EXCEPT !.stream = IF @ = "current" THEN "earlier" ELSE @]
            /\ e = [e0 EXCEPT !.stream = IF @ = "current" THEN "earlier" ELSE @]
      BY <2>2 DEF T!LeaveRequests
    <3>2. d0.request = d.request /\ e0.request = e.request
      BY <3>1 DEF InFlight
    <3>3. d0 = e0
      BY <1>2, <1>4, <3>2 DEF OneAnswer
    <3> QED  BY <3>1, <3>3
  <2> QED  BY <2>1, <2>2
<1>5. OneAnswer => OneAnswer'
  BY <1>3, <1>4 DEF OneAnswer
<1>6. \A t : Unanswered(t) => Unanswered(t)'
  BY <1>3 DEF Unanswered
<1> QED  BY <1>1, <1>5, <1>6

\* Frames the call leaves behind are no longer its own and bring no new token.
LEMMA LeftFrames ==
  ASSUME NEW s \in Seq(T!Frames), inbox' = T!Leave(s)
  PROVE  \A i \in DOMAIN inbox' :
           inbox'[i].stream # "current" /\ i \in DOMAIN s /\ inbox'[i].body = s[i].body
<1>1. s \in [1..Len(s) -> T!Frames] /\ DOMAIN s = 1..Len(s)
  OBVIOUS
<1>2. DOMAIN inbox' = DOMAIN s
  BY DEF T!Leave
<1>3. \A i \in DOMAIN s : inbox'[i] = [s[i] EXCEPT !.stream = "earlier"] /\ s[i] \in T!Frames
  BY <1>1 DEF T!Leave
<1> QED  BY <1>2, <1>3 DEF T!Frames

\* The service's books, the reports and the place in the loop stand still.
BooksKept == queue' = queue /\ attempt' = attempt /\ served' = served /\ reported' = reported /\ phase' = phase

\* No frame of the call is left, and the others are old ones.
InboxLeft ==
  \A i \in DOMAIN inbox' :
    inbox'[i].stream # "current" /\ \E j \in DOMAIN inbox : inbox'[i].body = inbox[j].body

\* A call that leaves its stream, with what it read in hand, keeps the
\* invariant: a retry sends nothing but a poll.
LEMMA CallLeaves ==
  ASSUME TypeInv, AnswerInv, BooksKept, InboxLeft,
         received' = T!LeaveRequests,
         call.step \in {"send", "pump"},
         NEW status, NEW body, T!Return(status, body),
         body # NoReply => call.request.method \in PollMethods,
         Made(body),
         \A t \in Tasks : body = Token(t) => Unanswered(t),
         status = "ok" /\ call.request.method \in RespondMethods
           => queue[call.request.token.task] = "ended"
  PROVE  AnswerInv'
<1>1. call.request \in Requests /\ call \in CallType /\ received \subseteq InFlight /\ ServiceTypeOK
  BY DEF TypeInv, LoopInv, T!TransportTypeOK, CallType, InFlight
<1>2. /\ \A e \in received' : e.stream # "current" /\ \E d \in received : d.request = e.request
      /\ OneAnswer'
      /\ \A t : Unanswered(t) => Unanswered(t)'
  BY <1>1, Relabelled DEF AnswerInv, BooksKept
<1>3. /\ call'.request = call.request
      /\ \/ call'.step = "ensure" /\ call.request.method \in PollMethods /\ call'.body = call.body
         \/ call'.step = "returned" /\ call'.status = status /\ call'.body = body
  BY <1>1 DEF T!Return, T!Retries, T!IsIdempotent, CallType
<1>4. call.body = NoReply
  BY DEF AnswerInv, CurrentInv
<1>5. \A t : Token(t)' = Token(t)
  BY DEF Token, BooksKept
<1>6. \A token : Made(token) => Made(token)'
  BY DEF Made, BooksKept
<1>7. TokensMade'
  BY <1>2, <1>3, <1>6 DEF AnswerInv, TokensMade, InboxLeft
<1>8. CurrentInv'
  BY <1>2, <1>3, <1>4 DEF CurrentInv, InboxLeft
<1>9. HeldUnanswered'
  <2>1. ASSUME NEW t \in Tasks, call'.step \in {"ensure", "begin", "send"},
               call'.request.token = Token(t)'
        PROVE  FALSE
    BY <1>1, <1>3, <1>5, <2>1, TokenType, RequestToken
  <2>2. ASSUME NEW t \in Tasks, call'.body = Token(t)'
        PROVE  Unanswered(t)'
    BY <1>1, <1>2, <1>3, <1>4, <1>5, <2>2, TokenType
  <2> QED  BY <2>1, <2>2 DEF HeldUnanswered, InboxLeft
<1>10. ReportInv'
  <2>1. ReportedMeansEnded'
    BY DEF AnswerInv, ReportInv, ReportedMeansEnded, BooksKept
  <2>2. ASSUME phase' = "respond", call'.step = "returned", call'.status = "ok"
        PROVE  queue'[call'.request.token.task] = "ended"
    BY <1>3, <2>2 DEF BooksKept, TypeInv, LoopInv
  <2> QED  BY <2>1, <2>2 DEF ReportInv
<1> QED  BY <1>2, <1>7, <1>8, <1>9, <1>10 DEF AnswerInv

\* So does every step of the call.
LEMMA CallingAnswerInv == TypeInv /\ AnswerInv /\ Calling => AnswerInv'
<1> SUFFICES ASSUME TypeInv, AnswerInv, T!CallStep, BooksKept PROVE AnswerInv'
  BY DEF Calling, workerVars, serviceVars, BooksKept
<1>1. /\ received \subseteq InFlight /\ ServiceTypeOK /\ inbox \in Seq(T!Frames) /\ call \in CallType
      /\ call.step # "idle" => call.request \in Requests
  BY DEF TypeInv, LoopInv, T!TransportTypeOK, InFlight, CallType
<1>2. \A t : Token(t)' = Token(t)
  BY DEF Token, BooksKept
<1>3. \A token : Made(token) => Made(token)'
  BY DEF Made, BooksKept
<1>4. ReportedMeansEnded'
  BY DEF AnswerInv, ReportInv, ReportedMeansEnded, BooksKept
<1>5. CASE T!OpenStream \/ T!OpenFails
  <2>1. received' = T!Disowned /\ inbox' = <<>> /\ call.step = "ensure"
    BY <1>5 DEF T!OpenStream, T!OpenFails
  <2>2. /\ call'.request = call.request
        /\ \/ call'.step = "begin" /\ call'.body = call.body
           \/ call'.step = "returned" /\ call'.body = NoReply /\ call'.status = "unavailable"
    BY <1>1, <1>5 DEF T!OpenStream, T!OpenFails, T!ConnectFailed, CallType
  <2>3. /\ \A e \in received' : e.stream # "current" /\ \E d \in received : d.request = e.request
        /\ OneAnswer'
        /\ \A t : Unanswered(t) => Unanswered(t)'
    BY <1>1, <2>1, Relabelled DEF AnswerInv, BooksKept
  <2>4. DOMAIN inbox' = {}
    BY <2>1
  <2>5. call.body = NoReply
    BY <2>1 DEF AnswerInv, CurrentInv
  <2>6. TokensMade'
    BY <1>3, <2>1, <2>2, <2>3, <2>4, <2>5 DEF AnswerInv, TokensMade, Made
  <2>7. CurrentInv'
    BY <2>2, <2>3, <2>4, <2>5 DEF CurrentInv
  <2>8. HeldUnanswered'
    <3>1. ASSUME NEW t \in Tasks, call'.step \in {"ensure", "begin", "send"},
                 call'.request.token = Token(t)'
          PROVE  Unanswered(t)'
      BY <1>2, <2>1, <2>2, <2>3, <3>1 DEF AnswerInv, HeldUnanswered
    <3>2. ASSUME NEW t \in Tasks, call'.body = Token(t)'
          PROVE  FALSE
      BY <1>1, <1>2, <2>2, <2>5, <3>2, TokenType
    <3> QED  BY <2>4, <3>1, <3>2 DEF HeldUnanswered
  <2>9. ReportInv'
    BY <1>4, <2>2 DEF ReportInv
  <2> QED  BY <2>3, <2>6, <2>7, <2>8, <2>9 DEF AnswerInv
<1>6. CASE T!EnsureReusable \/ T!BeginSession \/ T!BeginFails
  <2>1. received' = received /\ inbox' = inbox /\ call.step \in {"ensure", "begin"}
    BY <1>6 DEF T!EnsureReusable, T!BeginSession, T!BeginFails
  <2>2. /\ call'.request = call.request
        /\ \/ call'.step = "send" /\ call'.body = call.body
           \/ call'.step = "returned" /\ call'.body = NoReply /\ call'.status = "unavailable"
    BY <1>1, <1>6 DEF T!EnsureReusable, T!BeginSession, T!BeginFails, T!ConnectFailed, CallType
  <2>3. call.body = NoReply
    BY <2>1 DEF AnswerInv, CurrentInv
  <2>4. \A t : Unanswered(t)' <=> Unanswered(t)
    BY <1>2, <2>1 DEF Unanswered, AnswerTravels, BooksKept
  <2>5. TokensMade'
    BY <1>3, <2>1, <2>2, <2>3 DEF AnswerInv, TokensMade, Made
  <2>6. CurrentInv'
    BY <2>1, <2>2, <2>3 DEF AnswerInv, CurrentInv
  <2>7. OneAnswer'
    BY <1>2, <2>1 DEF AnswerInv, OneAnswer, AnswerTravels, BooksKept
  <2>8. HeldUnanswered'
    <3>1. ASSUME NEW t \in Tasks, call'.body = Token(t)'
          PROVE  FALSE
      BY <1>1, <1>2, <2>2, <2>3, <3>1, TokenType
    <3>2. \A t \in Tasks : \A i \in DOMAIN inbox' :
            inbox'[i].stream = "current" /\ inbox'[i].body = Token(t)' => Unanswered(t)'
      BY <1>2, <2>1, <2>4 DEF AnswerInv, HeldUnanswered
    <3>3. \A t \in Tasks :
            call'.step \in {"ensure", "begin", "send"} /\ call'.request.token = Token(t)'
              => Unanswered(t)'
      BY <1>2, <2>1, <2>2, <2>4 DEF AnswerInv, HeldUnanswered
    <3> QED  BY <3>1, <3>2, <3>3 DEF HeldUnanswered
  <2>9. ReportInv'
    BY <1>4, <2>2 DEF ReportInv
  <2> QED  BY <2>5, <2>6, <2>7, <2>8, <2>9 DEF AnswerInv
<1>7. CASE T!SendRequest
  <2> DEFINE new == [request |-> call.request, stream |-> "current"]
  <2>1. /\ inbox' = inbox /\ call.step = "send" /\ call'.step = "pump"
        /\ call'.request = call.request /\ call'.body = call.body
        /\ received' = received \/ received' = received \cup {new}
    BY <1>1, <1>7 DEF T!SendRequest, T!connVars, CallType
  <2>2. \A i \in DOMAIN inbox' : inbox'[i].stream # "current"
    BY <2>1 DEF AnswerInv, CurrentInv
  <2>3. call.body = NoReply
    BY <2>1 DEF AnswerInv, CurrentInv
  <2>4. \A e \in received : e.stream # "current"
    BY <2>1 DEF AnswerInv, CurrentInv
  <2>5. \A t \in Tasks : call.request.token = Token(t) => Unanswered(t)
    BY <2>1 DEF AnswerInv, HeldUnanswered
  <2>6. TokensMade'
    BY <1>3, <2>1 DEF AnswerInv, TokensMade
  <2>7. CurrentInv'
    BY <2>1, <2>2, <2>3, <2>4 DEF CurrentInv
  <2>8. OneAnswer'
    <3>1. ASSUME NEW t \in Tasks, served'[t] = 1, AnswerTravels(t)' PROVE FALSE
      BY <1>2, <2>1, <2>5, <3>1 DEF AnswerInv, OneAnswer, AnswerTravels, Unanswered, BooksKept
    <3>2. ASSUME NEW t \in Tasks, NEW d \in received', NEW e \in received',
                 d.request.token = Token(t)', e.request.token = Token(t)'
          PROVE  d = e
      <4>1. CASE d \in received /\ e \in received
        BY <1>2, <3>2, <4>1 DEF AnswerInv, OneAnswer
      <4>2. CASE d \notin received \/ e \notin received
        <5>1. Unanswered(t)
          BY <1>2, <2>1, <2>5, <3>2, <4>2
        <5> QED  BY <1>2, <2>1, <3>2, <5>1 DEF Unanswered, AnswerTravels
      <4> QED  BY <4>1, <4>2
    <3>3. \A t \in Tasks : served'[t] <= 1
      BY DEF AnswerInv, OneAnswer, BooksKept
    <3> QED  BY <3>1, <3>2, <3>3 DEF OneAnswer
  <2>9. HeldUnanswered'
    BY <1>1, <1>2, <2>1, <2>2, <2>3, TokenType DEF HeldUnanswered
  <2>10. ReportInv'
    BY <1>4, <2>1 DEF ReportInv
  <2> QED  BY <2>6, <2>7, <2>8, <2>9, <2>10 DEF AnswerInv
<1>8. CASE T!ConnectionLost \/ T!DeadlinePasses
  <2>1. /\ inbox' = T!Leave(inbox) /\ received' = T!LeaveRequests
        /\ call.step \in {"send", "pump"}
        /\ \E status \in {"unavailable", "deadline"} : T!Return(status, NoReply)
    BY <1>8 DEF T!ConnectionLost, T!DeadlinePasses
  <2>2. InboxLeft
    BY <1>1, <2>1, LeftFrames DEF InboxLeft
  <2>3. Made(NoReply) /\ \A t \in Tasks : NoReply # Token(t)
    BY <1>1, TokenType DEF Made
  <2> QED  BY <2>1, <2>2, <2>3, CallLeaves
<1>9. CASE T!ReadFrames
  <2>1. PICK n \in 1..Len(inbox) :
          LET read == {inbox[i] : i \in 1..n}
              unread == SubSeq(inbox, n + 1, Len(inbox))
              retired == T!GoAway \in read
              answered == T!OwnAnswers(read) # {}
          IN  IF retired \/ answered
              THEN /\ IF retired
                      THEN T!Return("unavailable", NoReply)
                      ELSE \E f \in T!OwnAnswers(read) : T!Return(f.status, f.body)
                   /\ inbox' = T!Leave(unread)
                   /\ received' = T!LeaveRequests
              ELSE inbox' = unread /\ UNCHANGED <<call, received>>
    BY <1>9 DEF T!ReadFrames
  <2> DEFINE read == {inbox[i] : i \in 1..n}
             unread == SubSeq(inbox, n + 1, Len(inbox))
  <2>2. unread \in Seq(T!Frames) /\ \A i \in DOMAIN unread : n + i \in DOMAIN inbox /\ unread[i] = inbox[n + i]
    BY <1>1, <2>1, SubSeqProperties
  <2>3. call.step = "pump"
    BY <1>9 DEF T!ReadFrames
  <2>4. ASSUME inbox' = T!Leave(unread) PROVE InboxLeft
    <3>1. \A i \in DOMAIN inbox' :
            inbox'[i].stream # "current" /\ i \in DOMAIN unread /\ inbox'[i].body = unread[i].body
      BY <2>2, <2>4, LeftFrames
    <3> HIDE DEF unread
    <3> QED
      BY <2>2, <3>1 DEF InboxLeft
  <2>5. CASE T!GoAway \in read
    <3>1. T!Return("unavailable", NoReply)
      BY <2>1, <2>5
    <3>2. inbox' = T!Leave(unread) /\ received' = T!LeaveRequests
      BY <2>1, <2>5
    <3>3. Made(NoReply) /\ \A t \in Tasks : NoReply # Token(t)
      BY <1>1, TokenType DEF Made
    <3>4. InboxLeft
      BY <2>4, <3>2
    <3> QED  BY <2>3, <3>1, <3>2, <3>3, <3>4, CallLeaves
  <2>6. CASE T!GoAway \notin read /\ T!OwnAnswers(read) # {}
    <3>1. PICK f \in T!OwnAnswers(read) : T!Return(f.status, f.body)
      BY <2>1, <2>6
    <3>2. inbox' = T!Leave(unread) /\ received' = T!LeaveRequests
      BY <2>1, <2>6
    <3>3. PICK i \in DOMAIN inbox : f = inbox[i]
      BY <1>1, <2>1, <3>1 DEF T!OwnAnswers
    <3>4. f.stream = "current"
      BY <3>1 DEF T!OwnAnswers
    <3>5. /\ f.body # NoReply => call.request.method \in PollMethods
          /\ f.status = "ok" /\ call.request.method \in RespondMethods
               => queue[call.request.token.task] = "ended"
      BY <3>3, <3>4 DEF AnswerInv, CurrentInv
    <3>6. Made(f.body) /\ \A t \in Tasks : f.body = Token(t) => Unanswered(t)
      BY <3>3, <3>4 DEF AnswerInv, TokensMade, HeldUnanswered
    <3> QED  BY <2>3, <2>4, <3>1, <3>2, <3>5, <3>6, CallLeaves
  <2>7. CASE T!GoAway \notin read /\ T!OwnAnswers(read) = {}
    <3>1. inbox' = unread /\ call' = call /\ received' = received
      BY <2>1, <2>7
    <3>2. \A i \in DOMAIN inbox' : \E j \in DOMAIN inbox : inbox'[i] = inbox[j]
      BY <2>2, <3>1
    <3>3. TokensMade'
      BY <1>3, <3>1, <3>2 DEF AnswerInv, TokensMade
    <3>4. CurrentInv'
      BY <3>1, <3>2 DEF AnswerInv, CurrentInv, BooksKept
    <3>5. OneAnswer'
      BY <1>2, <3>1 DEF AnswerInv, OneAnswer, AnswerTravels, BooksKept
    <3>6. \A t : Unanswered(t)' <=> Unanswered(t)
      BY <1>2, <3>1 DEF Unanswered, AnswerTravels, BooksKept
    <3>7. HeldUnanswered'
      BY <1>2, <3>1, <3>2, <3>6 DEF AnswerInv, HeldUnanswered
    <3>8. ReportInv'
      BY <1>4, <2>3, <3>1 DEF ReportInv
    <3> QED  BY <3>3, <3>4, <3>5, <3>7, <3>8 DEF AnswerInv
  <2> QED  BY <2>5, <2>6, <2>7
<1> QED  BY <1>5, <1>6, <1>7, <1>8, <1>9 DEF T!CallStep

\* A step that moves no token, outside a respond call.
LEMMA QuietAnswerInv ==
  ASSUME AnswerInv, phase' # "respond",
         UNCHANGED <<inbox, received, call, queue, attempt, served, reported>>
  PROVE  AnswerInv'
<1>1. \A t : Token(t)' = Token(t)
  BY DEF Token
<1>2. \A t : (AnswerTravels(t)' <=> AnswerTravels(t)) /\ (Unanswered(t)' <=> Unanswered(t))
  BY <1>1 DEF AnswerTravels, Unanswered
<1>3. \A token : Made(token)' <=> Made(token)
  BY DEF Made
<1>4. TokensMade' /\ CurrentInv'
  BY <1>3 DEF AnswerInv, TokensMade, CurrentInv
<1>5. OneAnswer' /\ HeldUnanswered'
  BY <1>1, <1>2 DEF AnswerInv, OneAnswer, HeldUnanswered
<1>6. ReportInv'
  BY DEF AnswerInv, ReportInv, ReportedMeansEnded
<1> QED  BY <1>4, <1>5, <1>6 DEF AnswerInv

\* The next call starts, with a request that carries no token or the one in
\* hand, when no call is under way.
LEMMA InvokeAnswerInv ==
  ASSUME TypeInv, AnswerInv, TickWorkflow \/ TickActivity \/ DispatchTask
  PROVE  AnswerInv'
<1>1. PICK r \in Requests : T!Invoke(r) /\ (r.token = NoReply \/ r.token = call.body)
  <2>1. CASE TickWorkflow \/ TickActivity
    BY <2>1 DEF TickWorkflow, TickActivity, PollRequest, Requests, PollMethods
  <2>2. CASE DispatchTask
    <3>1. call.body \in Tokens
      BY <2>2 DEF DispatchTask, HasTask, TypeInv, T!TransportTypeOK
    <3>2. AnswerMethod(call.body.task) \in RespondMethods
      BY DEF AnswerMethod, RespondMethods
    <3> QED  BY <2>2, <3>1, <3>2 DEF DispatchTask, RespondRequest, Requests
  <2> QED  BY <2>1, <2>2
<1>2. /\ call'.step = "ensure" /\ call'.request = r /\ call'.body = NoReply
      /\ UNCHANGED <<inbox, received, queue, attempt, served, reported>>
  BY <1>1 DEF T!Invoke, T!NoCall, TickWorkflow, TickActivity, TickStarts, DispatchTask, serviceVars
<1>3. call.step \in {"idle", "returned"}
  BY DEF TickWorkflow, TickActivity, TickStarts, NoSlotToRegister, DispatchTask, HasTask, Returned,
     TypeInv, LoopInv
<1>4. /\ \A e \in received : e.stream # "current"
      /\ \A i \in DOMAIN inbox : inbox[i].stream # "current"
  BY <1>3 DEF AnswerInv, CurrentInv
<1>5. \A t : Token(t)' = Token(t)
  BY <1>2 DEF Token
<1>6. \A token : Made(token)' <=> Made(token)
  BY <1>2 DEF Made
<1>7. TokensMade'
  BY <1>1, <1>2, <1>6 DEF AnswerInv, TokensMade, Made
<1>8. CurrentInv'
  BY <1>2, <1>4 DEF CurrentInv
<1>9. OneAnswer'
  BY <1>2, <1>5 DEF AnswerInv, OneAnswer, AnswerTravels
<1>10. HeldUnanswered'
  <2>1. \A t : Unanswered(t)' <=> Unanswered(t)
    BY <1>2, <1>5 DEF Unanswered, AnswerTravels
  <2>2. \A t \in Tasks : NoReply # Token(t)
    BY TokenType DEF TypeInv
  <2> QED  BY <1>1, <1>2, <1>4, <1>5, <2>1, <2>2 DEF AnswerInv, HeldUnanswered
<1>11. ReportInv'
  BY <1>2 DEF AnswerInv, ReportInv, ReportedMeansEnded
<1> QED  BY <1>7, <1>8, <1>9, <1>10, <1>11 DEF AnswerInv

\* A tick ends; one that ends as Completed or Failed has ended its task.
LEMMA EndAnswerInv ==
  ASSUME TypeInv, AnswerInv, PollIdle \/ PollUnreadable \/ RespondLands \/ BackOff
  PROVE  AnswerInv'
<1>1. /\ call'.step = "idle" /\ call'.body = NoReply
      /\ UNCHANGED <<inbox, received, queue, attempt, served>>
      /\ call.step = "returned"
  BY DEF PollIdle, PollUnreadable, RespondLands, BackOff, EndTick, T!NoCall, serviceVars,
     HasTask, IsTransportError, Returned
<1>2. /\ \A e \in received : e.stream # "current"
      /\ \A i \in DOMAIN inbox : inbox[i].stream # "current"
  BY <1>1 DEF AnswerInv, CurrentInv
<1>3. \A t : Token(t)' = Token(t)
  BY <1>1 DEF Token
<1>4. \A token : Made(token)' <=> Made(token)
  BY <1>1 DEF Made
<1>5. TokensMade'
  BY <1>1, <1>4 DEF AnswerInv, TokensMade, Made
<1>6. CurrentInv'
  BY <1>1, <1>2 DEF CurrentInv
<1>7. OneAnswer'
  BY <1>1, <1>3 DEF AnswerInv, OneAnswer, AnswerTravels
<1>8. HeldUnanswered'
  <2>1. \A t \in Tasks : NoReply # Token(t)
    BY TokenType DEF TypeInv
  <2> QED  BY <1>1, <1>2, <1>3, <2>1 DEF HeldUnanswered
<1>9. ReportInv'
  <2>1. \A t \in reported' : queue[t] = "ended"
    BY DEF PollIdle, PollUnreadable, RespondLands, BackOff, Returned, AnswerInv, ReportInv,
       ReportedMeansEnded
  <2> QED  BY <1>1, <2>1 DEF ReportInv, ReportedMeansEnded
<1> QED  BY <1>5, <1>6, <1>7, <1>8, <1>9 DEF AnswerInv

\* A reset loses every token the device had.
LEMMA ResetAnswerInv ==
  ASSUME TypeInv, AnswerInv, DropWorker \/ WatchdogBites \/ PowerCut
  PROVE  AnswerInv'
<1>1. /\ call'.step = "idle" /\ call'.body = NoReply /\ inbox' = <<>> /\ received' = T!Disowned
      /\ UNCHANGED <<queue, attempt, served, reported>>
  BY DEF DropWorker, T!CloseTransport, WatchdogBites, PowerCut, Reboot, T!NoCall, serviceVars
<1>2. received \subseteq InFlight
  BY DEF TypeInv, T!TransportTypeOK, InFlight
<1>3. /\ \A e \in received' : e.stream # "current" /\ \E d \in received : d.request = e.request
      /\ OneAnswer'
  BY <1>1, <1>2, Relabelled DEF AnswerInv
<1>4. DOMAIN inbox' = {}
  BY <1>1
<1>5. \A token : Made(token)' <=> Made(token)
  BY <1>1 DEF Made
<1>6. TokensMade'
  BY <1>1, <1>3, <1>4, <1>5 DEF AnswerInv, TokensMade, Made
<1>7. CurrentInv'
  BY <1>1, <1>3, <1>4 DEF CurrentInv
<1>8. HeldUnanswered'
  <2>1. \A t \in Tasks : NoReply # Token(t)'
    <3>1. \A t \in Tasks : NoReply # Token(t)
      BY TokenType DEF TypeInv
    <3> QED  BY <1>1, <3>1 DEF Token
  <2> QED  BY <1>1, <1>4, <2>1 DEF HeldUnanswered
<1>9. ReportInv'
  BY <1>1 DEF AnswerInv, ReportInv, ReportedMeansEnded
<1> QED  BY <1>3, <1>6, <1>7, <1>8, <1>9 DEF AnswerInv

\* Every step of the loop preserves the answers' invariant.
LEMMA TickAnswerInv == TypeInv /\ AnswerInv /\ Tick => AnswerInv'
<1> SUFFICES ASSUME TypeInv, AnswerInv, Tick PROVE AnswerInv'
  OBVIOUS
<1>1. CASE Whoami \/ WhoamiSucceeds \/ WhoamiFails \/ Register \/ RegisterEnds \/ DelayEnds
  <2>1. UNCHANGED <<inbox, received, call, queue, attempt, served, reported>> /\ phase' # "respond"
    BY <1>1 DEF Whoami, WhoamiSucceeds, WhoamiFails, Register, RegisterEnds, DelayEnds,
       RestUnchanged, transportVars, serviceVars
  <2> QED  BY <2>1, QuietAnswerInv
<1> QED  BY <1>1, InvokeAnswerInv, EndAnswerInv, ResetAnswerInv DEF Tick

\* A frame that arrives is the last of the inbox, or nothing arrives.
LEMMA SentFrames ==
  ASSUME inbox \in Seq(T!Frames), NEW e \in InFlight, NEW status, NEW body,
         T!Sent(e, status, body)
  PROVE  \A i \in DOMAIN inbox' :
           \/ i \in DOMAIN inbox /\ inbox'[i] = inbox[i]
           \/ inbox'[i].stream = e.stream /\ inbox'[i].status = status /\ inbox'[i].body = body
<1>1. CASE e.stream = "lost" \/ conn # "serving"
  BY <1>1 DEF T!Sent
<1>2. CASE ~ (e.stream = "lost" \/ conn # "serving")
  <2>1. inbox' = Append(inbox, T!Answer(e.stream, status, body))
    BY <1>2 DEF T!Sent
  <2>2. DOMAIN inbox' = 1..(Len(inbox) + 1) /\ DOMAIN inbox = 1..Len(inbox) /\ Len(inbox) \in Nat
    BY <2>1
  <2>3. \A i \in 1..Len(inbox) : inbox'[i] = inbox[i]
    BY <2>1
  <2>4. inbox'[Len(inbox) + 1] = T!Answer(e.stream, status, body)
    BY <2>1
  <2>5. \A i \in DOMAIN inbox' : i \in DOMAIN inbox \/ i = Len(inbox) + 1
    BY <2>2
  <2> QED  BY <2>2, <2>3, <2>4, <2>5 DEF T!Answer
<1> QED  BY <1>1, <1>2

\* The far end brings no token.
LEMMA FarEndAnswerInv == TypeInv /\ AnswerInv /\ FarEnd => AnswerInv'
<1> SUFFICES ASSUME TypeInv, AnswerInv, FarEnd PROVE AnswerInv'
  OBVIOUS
<1>1. UNCHANGED <<call, queue, attempt, served, reported, phase>>
  BY DEF FarEnd, T!PeerStep, T!PeerGoesAway, T!PeerCloses, T!PeerRefuses, workerVars, serviceVars
<1>2. /\ inbox \in Seq(T!Frames) /\ received \subseteq InFlight
      /\ \A t \in Tasks : NoReply # Token(t)
  BY TokenType DEF TypeInv, T!TransportTypeOK, InFlight
<1>3. \A i \in DOMAIN inbox' :
        (i \in DOMAIN inbox /\ inbox'[i] = inbox[i])
          \/ (inbox'[i].stream # "current" /\ inbox'[i].body = NoReply)
  <2>1. CASE inbox' = Append(inbox, T!GoAway)
    <3>1. \A i \in DOMAIN inbox' :
            (i \in DOMAIN inbox /\ inbox'[i] = inbox[i]) \/ inbox'[i] = T!GoAway
      BY <1>2, <2>1
    <3> QED  BY <3>1 DEF T!GoAway
  <2>2. CASE inbox' = inbox
    BY <2>2
  <2> QED  BY <2>1, <2>2 DEF FarEnd, T!PeerStep, T!PeerGoesAway, T!PeerCloses, T!PeerRefuses
<1>4. /\ \A e \in received' :
           (e \in received \/ e.stream # "current") /\ \E d \in received : d.request = e.request
      /\ OneAnswer'
      /\ \A t : Unanswered(t) => Unanswered(t)'
  <2>1. CASE received' = T!Disowned
    BY <1>1, <1>2, <2>1, Relabelled DEF AnswerInv
  <2>2. CASE received' = received
    BY <1>1, <2>2 DEF AnswerInv, OneAnswer, AnswerTravels, Unanswered, Token
  <2> QED  BY <2>1, <2>2 DEF FarEnd, T!PeerStep, T!PeerGoesAway, T!PeerCloses, T!PeerRefuses
<1>5. \A t : Token(t)' = Token(t)
  BY <1>1 DEF Token
<1>6. \A token : Made(token)' <=> Made(token)
  BY <1>1 DEF Made
<1>7. TokensMade'
  BY <1>1, <1>3, <1>4, <1>6 DEF AnswerInv, TokensMade, Made
<1>8. CurrentInv'
  BY <1>1, <1>3, <1>4 DEF AnswerInv, CurrentInv
<1>9. HeldUnanswered'
  BY <1>1, <1>2, <1>3, <1>4, <1>5 DEF AnswerInv, HeldUnanswered
<1>10. ReportInv'
  BY <1>1 DEF AnswerInv, ReportInv, ReportedMeansEnded
<1> QED  BY <1>4, <1>7, <1>8, <1>9, <1>10 DEF AnswerInv

\* A task that has ended stays ended, whatever the service does.
LEMMA EndedStays ==
  ASSUME TypeInv, Service, NEW t \in Tasks, queue[t] = "ended"
  PROVE  queue'[t] = "ended"
<1>1. queue \in [Tasks -> {"queued", "out", "ended", "expired"}]
  BY DEF TypeInv, ServiceTypeOK
<1> QED  BY <1>1 DEF Service, ServePollActivity, ServePollWorkflow, ServeRespond, ServeUnavailable,
            LostTaskTimesOut, TaskTimesOutEarly, ActivityTimeout, serviceVars

\* What the service does keeps the report and the call as they are.
LEMMA ServiceReportInv == TypeInv /\ AnswerInv /\ Service => ReportInv'
<1> SUFFICES ASSUME TypeInv, AnswerInv, Service PROVE ReportInv'
  OBVIOUS
<1>1. UNCHANGED <<call, phase, reported>>
  BY DEF Service, ServePollActivity, ServePollWorkflow, ServeRespond, ServeUnavailable,
     LostTaskTimesOut, TaskTimesOutEarly, ActivityTimeout, workerVars
<1>2. \A t \in reported : t \in Tasks /\ queue[t] = "ended"
  BY DEF AnswerInv, ReportInv, ReportedMeansEnded, TypeInv, WorkerTypeOK
<1>3. ASSUME phase = "respond", call.step = "returned", call.status = "ok"
      PROVE  queue'[call.request.token.task] = "ended"
  <2>1. call.request.token \in Tokens
    BY <1>3, RequestToken DEF TypeInv, LoopInv
  <2>2. call.request.token.task \in Tasks
    BY <2>1 DEF Tokens
  <2> QED  BY <1>3, <2>2, EndedStays DEF AnswerInv, ReportInv
<1> QED  BY <1>1, <1>2, <1>3, EndedStays DEF ReportInv, ReportedMeansEnded

\* An answer that carries no token: to a poll that finds no task, or one a
\* proxy gives.
LEMMA EmptyReplyInv ==
  ASSUME TypeInv, AnswerInv, NEW e \in received, NEW status,
         \A d \in received' : (d \in received /\ d # e) \/ d = [e EXCEPT !.stream = "lost"],
         T!Sent(e, status, NoReply),
         status = "ok" => e.request.method \in PollMethods,
         UNCHANGED <<call, attempt, served>>,
         \A t \in Tasks : queue[t] = "ended" => queue'[t] = "ended"
  PROVE  TokensMade' /\ CurrentInv' /\ OneAnswer' /\ HeldUnanswered'
<1>1. /\ inbox \in Seq(T!Frames) /\ received \subseteq InFlight /\ e \in InFlight
      /\ call.step # "idle" => call.request \in Requests
      /\ \A t \in Tasks : NoReply # Token(t)
  BY TokenType DEF TypeInv, T!TransportTypeOK, InFlight, LoopInv
<1>2. \A i \in DOMAIN inbox' :
        \/ i \in DOMAIN inbox /\ inbox'[i] = inbox[i]
        \/ inbox'[i].stream = e.stream /\ inbox'[i].status = status /\ inbox'[i].body = NoReply
  BY <1>1, SentFrames
<1>3. \A d \in received' :
        (d \in received \/ d.stream # "current") /\ \E c \in received : d.request = c.request
  BY <1>1 DEF InFlight
<1>4. \A t : Token(t)' = Token(t)
  BY DEF Token
<1>5. \A token : Made(token)' <=> Made(token)
  BY DEF Made
<1>6. \A t : (AnswerTravels(t)' => AnswerTravels(t)) /\ (Unanswered(t) => Unanswered(t)')
  BY <1>3, <1>4 DEF AnswerTravels, Unanswered
<1>7. TokensMade'
  BY <1>2, <1>3, <1>5 DEF AnswerInv, TokensMade, Made
<1>8. CurrentInv'
  <2>1. \A d \in received' : d.stream = "current" => call'.step = "pump" /\ d.request = call'.request
    BY <1>3 DEF AnswerInv, CurrentInv
  <2>2. ASSUME NEW i \in DOMAIN inbox', inbox'[i].stream = "current"
        PROVE  /\ call'.step = "pump"
               /\ inbox'[i].body # NoReply => call'.request.method \in PollMethods
               /\ inbox'[i].status = "ok" /\ call'.request.method \in RespondMethods
                    => queue'[call'.request.token.task] = "ended"
    <3>1. CASE i \in DOMAIN inbox /\ inbox'[i] = inbox[i]
      <4>1. /\ call.step = "pump"
            /\ inbox[i].body # NoReply => call.request.method \in PollMethods
            /\ inbox[i].status = "ok" /\ call.request.method \in RespondMethods
                 => queue[call.request.token.task] = "ended"
        BY <2>2, <3>1 DEF AnswerInv, CurrentInv
      <4>2. call.request.method \in RespondMethods => call.request.token.task \in Tasks
        BY <1>1, <4>1, RequestToken DEF Tokens
      <4> QED  BY <3>1, <4>1, <4>2
    <3>2. CASE e.stream = "current" /\ inbox'[i].status = status /\ inbox'[i].body = NoReply
      <4>1. call.step = "pump" /\ e.request = call.request
        BY <3>2 DEF AnswerInv, CurrentInv
      <4> QED  BY <1>1, <3>2, <4>1, RequestToken
    <3> QED  BY <1>2, <2>2, <3>1, <3>2
  <2> QED  BY <2>1, <2>2 DEF AnswerInv, CurrentInv
<1>9. OneAnswer'
  <2>1. ASSUME NEW t \in Tasks, NEW c \in received', NEW d \in received',
               c.request.token = Token(t)', d.request.token = Token(t)'
        PROVE  c = d
    <3>1. [e EXCEPT !.stream = "lost"].request = e.request
      BY <1>1 DEF InFlight
    <3> QED  BY <1>4, <2>1, <3>1 DEF AnswerInv, OneAnswer
  <2> QED  BY <1>6, <2>1 DEF AnswerInv, OneAnswer
<1>10. HeldUnanswered'
  BY <1>1, <1>2, <1>4, <1>6 DEF AnswerInv, HeldUnanswered
<1> QED  BY <1>7, <1>8, <1>9, <1>10

\* A new attempt has a token nothing in the system has.
LEMMA HandOutInv ==
  ASSUME TypeInv, AnswerInv, NEW e \in received, NEW t \in Tasks,
         e.request.method = "PollActivityTaskQueue",
         queue[t] = "queued", attempt[t] < MaxAttempts,
         queue' = [queue EXCEPT ![t] = "out"],
         attempt' = [attempt EXCEPT ![t] = @ + 1],
         served' = [served EXCEPT ![t] = 0],
         T!Reply(e, "ok", [task |-> t, attempt |-> attempt[t] + 1]),
         call' = call
  PROVE  TokensMade' /\ CurrentInv' /\ OneAnswer' /\ HeldUnanswered'
<1> DEFINE new == [task |-> t, attempt |-> attempt[t] + 1]
<1>1. /\ inbox \in Seq(T!Frames) /\ received \subseteq InFlight /\ e \in InFlight
      /\ call.step # "idle" => call.request \in Requests
      /\ ServiceTypeOK
  BY DEF TypeInv, T!TransportTypeOK, InFlight, LoopInv
<1>2. \A u \in Tasks : attempt[u] \in Nat
  BY <1>1, TokenType
<1>3. received' = received \ {e}
  BY DEF T!Reply
<1>4. \A i \in DOMAIN inbox' :
        \/ i \in DOMAIN inbox /\ inbox'[i] = inbox[i]
        \/ inbox'[i].stream = e.stream /\ inbox'[i].status = "ok" /\ inbox'[i].body = new
  BY <1>1, SentFrames DEF T!Reply
<1>5. Token(t)' = new /\ \A u \in Tasks : u # t => Token(u)' = Token(u) /\ served'[u] = served[u]
  BY <1>1 DEF Token, ServiceTypeOK
<1>6. ASSUME NEW u \in Tasks PROVE Token(u)' # NoReply
  <2>1. new \in [task : Tasks, attempt : Nat]
    BY <1>2
  <2> QED  BY <1>1, <1>5, <2>1, TokenType, WorkerAssumption
<1>7. \A token : Made(token) => token # new
  <2>1. new # NoReply
    BY <1>5, <1>6
  <2> QED  BY <1>2, <2>1 DEF Made
<1>8. ASSUME NEW token \in Tokens \cup {NoReply}, Made(token) PROVE Made(token)'
  <2>1. CASE token = NoReply
    BY <2>1 DEF Made
  <2>2. CASE token \in Tokens
    <3>1. token.task \in Tasks /\ token.attempt \in Nat
      BY <2>2, WorkerAssumption DEF Tokens, Attempts
    <3>2. attempt'[token.task] \in Nat /\ attempt[token.task] <= attempt'[token.task]
      BY <1>1, <1>2, <3>1 DEF ServiceTypeOK
    <3>3. token.attempt <= attempt[token.task] \/ token = NoReply
      BY <1>8 DEF Made
    <3> QED  BY <1>2, <3>1, <3>2, <3>3 DEF Made
  <2> QED  BY <2>1, <2>2
<1>9. new.attempt <= attempt'[new.task]
  <2>1. attempt'[t] = attempt[t] + 1
    BY <1>1 DEF ServiceTypeOK
  <2>2. new.task = t /\ new.attempt = attempt[t] + 1
    OBVIOUS
  <2> QED  BY <1>2, <2>1, <2>2
<1>10. /\ \A d \in received : d.request.token \in Tokens \cup {NoReply}
       /\ \A i \in DOMAIN inbox : inbox[i].body \in Tokens \cup {NoReply}
       /\ call.body \in Tokens \cup {NoReply}
       /\ call.step # "idle" => call.request.token \in Tokens \cup {NoReply}
  <2>1. \A r \in Requests : r.token \in Tokens \cup {NoReply}
    BY DEF Requests
  <2>2. \A i \in DOMAIN inbox : inbox[i] \in T!Frames
    BY <1>1
  <2> QED  BY <1>1, <2>1, <2>2 DEF InFlight, T!Frames, TypeInv, T!TransportTypeOK
<1>11. TokensMade'
  <2>1. \A d \in received' : Made(d.request.token)'
    BY <1>3, <1>8, <1>10 DEF AnswerInv, TokensMade
  <2>2. \A i \in DOMAIN inbox' : Made(inbox[i].body)'
    <3>1. \A i \in DOMAIN inbox : Made(inbox[i].body) /\ inbox[i].body \in Tokens \cup {NoReply}
      BY <1>10 DEF AnswerInv, TokensMade
    <3>2. ASSUME NEW i \in DOMAIN inbox'
          PROVE  inbox'[i].body # NoReply => inbox'[i].body.attempt <= attempt'[inbox'[i].body.task]
      <4>1. CASE i \in DOMAIN inbox /\ inbox'[i] = inbox[i]
        <5>1. \A token \in Tokens \cup {NoReply} :
                Made(token) => (token # NoReply => token.attempt <= attempt'[token.task])
          BY <1>8 DEF Made
        <5> QED  BY <3>1, <4>1, <5>1
      <4> QED  BY <1>4, <1>9, <4>1
    <3> QED  BY <3>2 DEF Made
  <2>3. Made(call.body)' /\ (call'.step # "idle" => Made(call.request.token)')
    BY <1>8, <1>10 DEF AnswerInv, TokensMade
  <2> QED  BY <2>1, <2>2, <2>3 DEF TokensMade
<1>12. CurrentInv'
  <2>1. \A d \in received' : d.stream = "current" => call'.step = "pump" /\ d.request = call'.request
    BY <1>3 DEF AnswerInv, CurrentInv
  <2>2. ASSUME NEW i \in DOMAIN inbox', inbox'[i].stream = "current"
        PROVE  /\ call'.step = "pump"
               /\ inbox'[i].body # NoReply => call'.request.method \in PollMethods
               /\ inbox'[i].status = "ok" /\ call'.request.method \in RespondMethods
                    => queue'[call'.request.token.task] = "ended"
    <3>1. CASE i \in DOMAIN inbox /\ inbox'[i] = inbox[i]
      <4>1. /\ call.step = "pump"
            /\ inbox[i].body # NoReply => call.request.method \in PollMethods
            /\ inbox[i].status = "ok" /\ call.request.method \in RespondMethods
                 => queue[call.request.token.task] = "ended"
        BY <2>2, <3>1 DEF AnswerInv, CurrentInv
      <4>2. queue[call.request.token.task] = "ended" => queue'[call.request.token.task] = "ended"
        BY <1>1 DEF ServiceTypeOK
      <4> QED  BY <3>1, <4>1, <4>2
    <3>2. CASE e.stream = "current"
      <4>1. call.step = "pump" /\ e.request = call.request
        BY <3>2 DEF AnswerInv, CurrentInv
      <4> QED  BY <4>1 DEF PollMethods, RespondMethods
    <3> QED  BY <1>4, <2>2, <3>1, <3>2
  <2> QED  BY <2>1, <2>2 DEF AnswerInv, CurrentInv
<1>13. ~ AnswerTravels(t)' /\ \A u \in Tasks : u # t => (AnswerTravels(u)' => AnswerTravels(u))
  <2>1. \A d \in received' : d.request.token # new
    BY <1>3, <1>7 DEF AnswerInv, TokensMade
  <2> QED  BY <1>3, <1>5, <2>1 DEF AnswerTravels
<1>14. Unanswered(t)' /\ \A u \in Tasks : u # t => (Unanswered(u) => Unanswered(u)')
  BY <1>1, <1>5, <1>13 DEF Unanswered, ServiceTypeOK
<1>15. OneAnswer'
  <2>1. ASSUME NEW u \in Tasks, u # t
        PROVE  /\ served'[u] <= 1
               /\ served'[u] = 1 => ~ AnswerTravels(u)'
               /\ \A c, d \in received' :
                    c.request.token = Token(u)' /\ d.request.token = Token(u)' => c = d
    BY <1>3, <1>5, <1>13, <2>1 DEF AnswerInv, OneAnswer
  <2>2. served'[t] = 0 /\ ~ AnswerTravels(t)'
    BY <1>14 DEF Unanswered
  <2>3. \A c, d \in received' : c.request.token = Token(t)' /\ d.request.token = Token(t)' => c = d
    BY <2>2 DEF AnswerTravels
  <2> QED  BY <2>1, <2>2, <2>3 DEF OneAnswer
<1>16. HeldUnanswered'
  <2>1. ASSUME NEW u \in Tasks, u # t
        PROVE  /\ call'.step \in {"ensure", "begin", "send"} /\ call'.request.token = Token(u)'
                    => Unanswered(u)'
               /\ \A i \in DOMAIN inbox' :
                    inbox'[i].stream = "current" /\ inbox'[i].body = Token(u)' => Unanswered(u)'
               /\ call'.body = Token(u)' => Unanswered(u)'
    <3>1. Token(u) # new
      BY <2>1 DEF Token
    <3> QED  BY <1>4, <1>5, <1>14, <2>1, <3>1 DEF AnswerInv, HeldUnanswered
  <2> QED  BY <1>14, <2>1 DEF HeldUnanswered
<1> QED  BY <1>11, <1>12, <1>15, <1>16

\* An answer that arrives was the only one: it is counted as it leaves the
\* requests under way.
LEMMA RespondInv ==
  ASSUME TypeInv, AnswerInv, ServeRespond
  PROVE  TokensMade' /\ CurrentInv' /\ OneAnswer' /\ HeldUnanswered'
<1>1. PICK e \in received :
        /\ e.request.method \in RespondMethods
        /\ LET t == e.request.token.task
               latest == e.request.token.attempt = attempt[t]
               fits == latest /\ queue[t] = "out"
           IN  /\ queue' = IF fits THEN [queue EXCEPT ![t] = "ended"] ELSE queue
               /\ served' = IF latest THEN [served EXCEPT ![t] = @ + 1] ELSE served
               /\ T!Reply(e, IF fits THEN "ok" ELSE "refused", NoReply)
  BY DEF ServeRespond
<1> DEFINE s == e.request.token.task
           latest == e.request.token.attempt = attempt[s]
           fits == latest /\ queue[s] = "out"
           status == IF fits THEN "ok" ELSE "refused"
<1>2. /\ inbox \in Seq(T!Frames) /\ received \subseteq InFlight /\ e \in InFlight
      /\ call.step # "idle" => call.request \in Requests
      /\ ServiceTypeOK
      /\ \A t \in Tasks : NoReply # Token(t)
  BY TokenType DEF TypeInv, T!TransportTypeOK, InFlight, LoopInv
<1>3. e.request.token \in Tokens /\ s \in Tasks
  BY <1>1, <1>2, RequestToken DEF InFlight, Tokens
<1>4. call' = call /\ attempt' = attempt /\ received' = received \ {e}
  BY <1>1 DEF ServeRespond, T!Reply
<1>5. \A i \in DOMAIN inbox' :
        \/ i \in DOMAIN inbox /\ inbox'[i] = inbox[i]
        \/ inbox'[i].stream = e.stream /\ inbox'[i].status = status /\ inbox'[i].body = NoReply
  <2>1. T!Sent(e, status, NoReply)
    BY <1>1 DEF T!Reply
  <2> QED  BY <1>2, <2>1, SentFrames
<1>6. /\ \A t \in Tasks : queue[t] = "ended" => queue'[t] = "ended"
      /\ fits => queue'[s] = "ended"
  BY <1>1, <1>2, <1>3 DEF ServiceTypeOK
<1>7. latest => e.request.token = Token(s)
  BY <1>3 DEF Tokens, Token
<1>8. /\ \A t \in Tasks : t # s => served'[t] = served[t]
      /\ ~ latest => served' = served
      /\ latest => served'[s] = served[s] + 1
  BY <1>1, <1>2, <1>3 DEF ServiceTypeOK
<1>9. \A t : Token(t)' = Token(t)
  BY <1>4 DEF Token
<1>10. \A token : Made(token)' <=> Made(token)
  BY <1>4 DEF Made
<1>11. latest => AnswerTravels(s) /\ ~ Unanswered(s) /\ served[s] = 0 /\ ~ AnswerTravels(s)'
  <2>1. latest => AnswerTravels(s)
    BY <1>7 DEF AnswerTravels
  <2>2. served[s] <= 1 /\ served[s] \in Nat
    BY <1>2, <1>3 DEF AnswerInv, OneAnswer, ServiceTypeOK
  <2>3. latest => served[s] = 0
    BY <1>3, <2>1, <2>2 DEF AnswerInv, OneAnswer
  <2>4. latest => ~ AnswerTravels(s)'
    BY <1>3, <1>4, <1>7, <1>9 DEF AnswerTravels, AnswerInv, OneAnswer
  <2> QED  BY <2>1, <2>3, <2>4 DEF Unanswered
<1>12. \A t \in Tasks : (AnswerTravels(t)' => AnswerTravels(t)) /\ (Unanswered(t) => Unanswered(t)')
  BY <1>4, <1>8, <1>9, <1>11 DEF AnswerTravels, Unanswered
<1>13. TokensMade'
  BY <1>4, <1>5, <1>10 DEF AnswerInv, TokensMade, Made
<1>14. CurrentInv'
  <2>1. \A d \in received' : d.stream = "current" => call'.step = "pump" /\ d.request = call'.request
    BY <1>4 DEF AnswerInv, CurrentInv
  <2>2. ASSUME NEW i \in DOMAIN inbox', inbox'[i].stream = "current"
        PROVE  /\ call'.step = "pump"
               /\ inbox'[i].body # NoReply => call'.request.method \in PollMethods
               /\ inbox'[i].status = "ok" /\ call'.request.method \in RespondMethods
                    => queue'[call'.request.token.task] = "ended"
    <3>1. CASE i \in DOMAIN inbox /\ inbox'[i] = inbox[i]
      <4>1. /\ call.step = "pump"
            /\ inbox[i].body # NoReply => call.request.method \in PollMethods
            /\ inbox[i].status = "ok" /\ call.request.method \in RespondMethods
                 => queue[call.request.token.task] = "ended"
        BY <2>2, <3>1 DEF AnswerInv, CurrentInv
      <4>2. call.request.method \in RespondMethods => call.request.token.task \in Tasks
        BY <1>2, <4>1, RequestToken DEF Tokens
      <4> QED  BY <1>4, <1>6, <3>1, <4>1, <4>2
    <3>2. CASE e.stream = "current" /\ inbox'[i].status = status /\ inbox'[i].body = NoReply
      <4>1. call.step = "pump" /\ e.request = call.request
        BY <3>2 DEF AnswerInv, CurrentInv
      <4> QED  BY <1>4, <1>6, <3>2, <4>1
    <3> QED  BY <1>5, <2>2, <3>1, <3>2
  <2> QED  BY <1>4, <2>1, <2>2 DEF AnswerInv, CurrentInv
<1>15. OneAnswer'
  <2>1. \A t \in Tasks : \A c, d \in received' :
          c.request.token = Token(t)' /\ d.request.token = Token(t)' => c = d
    BY <1>4, <1>9 DEF AnswerInv, OneAnswer
  <2>2. ASSUME NEW t \in Tasks PROVE served'[t] <= 1 /\ (served'[t] = 1 => ~ AnswerTravels(t)')
    <3>1. CASE t = s /\ latest
      BY <1>8, <1>11, <3>1
    <3>2. CASE ~ (t = s /\ latest)
      BY <1>8, <1>12, <3>2 DEF AnswerInv, OneAnswer
    <3> QED  BY <3>1, <3>2
  <2> QED  BY <2>1, <2>2 DEF OneAnswer
<1>16. HeldUnanswered'
  BY <1>2, <1>4, <1>5, <1>9, <1>12 DEF AnswerInv, HeldUnanswered
<1> QED  BY <1>13, <1>14, <1>15, <1>16

\* Every step of the service does.
LEMMA ServiceAnswerInv == TypeInv /\ AnswerInv /\ Service => AnswerInv'
<1> SUFFICES ASSUME TypeInv, AnswerInv, Service
             PROVE  TokensMade' /\ CurrentInv' /\ OneAnswer' /\ HeldUnanswered'
  BY ServiceReportInv DEF AnswerInv
<1>1. \A t \in Tasks : queue[t] = "ended" => queue'[t] = "ended"
  BY EndedStays
<1>2. received \subseteq InFlight
  BY DEF TypeInv, T!TransportTypeOK, InFlight
<1>3. CASE ServePollActivity
  <2>1. PICK e \in received :
          /\ e.request.method = "PollActivityTaskQueue"
          /\ \/ \E t \in Tasks :
                  /\ queue[t] = "queued"
                  /\ attempt[t] < MaxAttempts
                  /\ queue' = [queue EXCEPT ![t] = "out"]
                  /\ attempt' = [attempt EXCEPT ![t] = @ + 1]
                  /\ served' = [served EXCEPT ![t] = 0]
                  /\ T!Reply(e, "ok", [task |-> t, attempt |-> attempt[t] + 1])
             \/ \E status \in {"ok", "deadline"} : T!Reply(e, status, NoReply) /\ UNCHANGED serviceVars
          /\ call' = call
    BY <1>3 DEF ServePollActivity
  <2>2. CASE \E t \in Tasks :
               /\ queue[t] = "queued"
               /\ attempt[t] < MaxAttempts
               /\ queue' = [queue EXCEPT ![t] = "out"]
               /\ attempt' = [attempt EXCEPT ![t] = @ + 1]
               /\ served' = [served EXCEPT ![t] = 0]
               /\ T!Reply(e, "ok", [task |-> t, attempt |-> attempt[t] + 1])
    BY <2>1, <2>2, HandOutInv
  <2>3. CASE \E status \in {"ok", "deadline"} : T!Reply(e, status, NoReply) /\ UNCHANGED serviceVars
    <3>1. PICK status : T!Reply(e, status, NoReply) /\ UNCHANGED serviceVars
      BY <2>3
    <3>2. T!Sent(e, status, NoReply) /\ received' = received \ {e} /\ UNCHANGED <<attempt, served>>
      BY <3>1 DEF T!Reply, serviceVars
    <3>3. \A d \in received' : d \in received /\ d # e
      BY <3>2
    <3>4. e.request.method \in PollMethods
      BY <2>1 DEF PollMethods
    <3> QED  BY <1>1, <2>1, <3>2, <3>3, <3>4, EmptyReplyInv
  <2> QED  BY <2>1, <2>2, <2>3
<1>4. CASE ServePollWorkflow
  <2>1. PICK e \in received : T!Reply(e, "deadline", NoReply)
    BY <1>4 DEF ServePollWorkflow
  <2>2. T!Sent(e, "deadline", NoReply) /\ (\A d \in received' : d \in received /\ d # e)
    BY <2>1 DEF T!Reply
  <2>3. UNCHANGED <<call, attempt, served>>
    BY <1>4 DEF ServePollWorkflow, serviceVars
  <2> QED  BY <1>1, <2>2, <2>3, EmptyReplyInv
<1>5. CASE ServeUnavailable
  <2>1. PICK e \in received : T!ReplyForService(e)
    BY <1>5 DEF ServeUnavailable
  <2>2. /\ T!Sent(e, "unavailable", NoReply)
        /\ \A d \in received' : (d \in received /\ d # e) \/ d = [e EXCEPT !.stream = "lost"]
    BY <2>1 DEF T!ReplyForService
  <2>3. UNCHANGED <<call, attempt, served>>
    BY <1>5 DEF ServeUnavailable, serviceVars
  <2> QED  BY <1>1, <2>2, <2>3, EmptyReplyInv
<1>6. CASE LostTaskTimesOut \/ TaskTimesOutEarly
  <2>1. UNCHANGED <<inbox, received, call, attempt, served>>
    BY <1>6 DEF LostTaskTimesOut, TaskTimesOutEarly, ActivityTimeout
  <2>2. \A t : (Token(t)' = Token(t)) /\ (AnswerTravels(t)' <=> AnswerTravels(t))
               /\ (Unanswered(t)' <=> Unanswered(t))
    BY <2>1 DEF Token, AnswerTravels, Unanswered
  <2>3. TokensMade'
    BY <2>1 DEF AnswerInv, TokensMade, Made
  <2>4. CurrentInv'
    <3>1. call.step = "pump" /\ call.request.method \in RespondMethods => call.request.token.task \in Tasks
      BY RequestToken DEF TypeInv, LoopInv, Tokens
    <3> QED  BY <1>1, <2>1, <3>1 DEF AnswerInv, CurrentInv
  <2>5. OneAnswer' /\ HeldUnanswered'
    BY <2>1, <2>2 DEF AnswerInv, OneAnswer, HeldUnanswered
  <2> QED  BY <2>3, <2>4, <2>5
<1> QED  BY <1>3, <1>4, <1>5, <1>6, RespondInv DEF Service

\* And every step of the system.
LEMMA AnswerStep == TypeInv /\ AnswerInv /\ [Next]_vars => AnswerInv'
<1>1. ASSUME TypeInv, AnswerInv, UNCHANGED vars PROVE AnswerInv'
  <2>1. CASE phase # "respond"
    BY <1>1, <2>1, QuietAnswerInv DEF vars, transportVars, workerVars, serviceVars
  <2>2. CASE phase = "respond"
    BY <1>1 DEF vars, transportVars, workerVars, serviceVars, AnswerInv, TokensMade, Made, CurrentInv,
       OneAnswer, HeldUnanswered, Unanswered, AnswerTravels, Token, ReportInv, ReportedMeansEnded
  <2> QED  BY <2>1, <2>2
<1>2. ASSUME TypeInv, AnswerInv, PowerCut PROVE AnswerInv'
  BY <1>2, ResetAnswerInv
<1> QED  BY <1>1, <1>2, CallingAnswerInv, TickAnswerInv, FarEndAnswerInv, ServiceAnswerInv DEF Next

\* The answers' invariant holds at all times.
LEMMA AnswerInvariant == Spec => []AnswerInv
BY TypeInvariant, InitAnswerInv, AnswerStep, PTL DEF Spec

\* Whatever is lost, delayed, retried or rebooted, the service receives one
\* answer at most to each delivery of a task.
THEOREM DeliveriesAnsweredOnce == Spec => []NoDuplicateAnswer
<1>1. AnswerInv => NoDuplicateAnswer
  BY DEF AnswerInv, OneAnswer, NoDuplicateAnswer
<1> QED  BY <1>1, AnswerInvariant, PTL

\* A task the device's log calls Completed or Failed has ended at the service.
THEOREM ReportsAreTrue == Spec => []ReportedMeansEnded
<1>1. AnswerInv => ReportedMeansEnded
  BY DEF AnswerInv, ReportInv
<1> QED  BY <1>1, AnswerInvariant, PTL

-----------------------------------------------------------------------------
(* The worker as the service's queue sees it.                              *)

\* An answer on its way is one to a task the device could read.
OnlyRead(r) == r.method \in RespondMethods => r.token.task \notin Unreadable

ReadInv ==
  /\ \A e \in received : OnlyRead(e.request)
  /\ call.step # "idle" => OnlyRead(call.request)

\* A delivery that is out has no answer yet, a task that has ended has one.
BooksInv ==
  \A t \in Tasks :
    /\ queue[t] = "out" => served[t] = 0
    /\ queue[t] = "ended" => served[t] = 1

QueueInv == ReadInv /\ BooksInv

QueueUnchanged == UNCHANGED <<queue, attempt, served, reported>>

\* At first nothing is answered and nothing is on its way.
LEMMA InitQueueInv == Init => QueueInv /\ Queue!Init
BY DEF Init, T!TransportInit, T!NoCall, QueueInv, ReadInv, BooksInv, Queue!Init

\* Requests under way that come from others, or from the call, are as good as
\* those.
LEMMA ReadKept ==
  ASSUME ReadInv,
         \A e \in received' :
           \/ \E d \in received : d.request = e.request
           \/ call.step # "idle" /\ e.request = call.request,
         \/ call'.step = "idle"
         \/ call.step # "idle" /\ call'.request = call.request
         \/ OnlyRead(call'.request)
  PROVE  ReadInv'
BY DEF ReadInv, OnlyRead

\* A request whose connection or stream is gone is the request it was.
LEMMA SameRequests ==
  ASSUME received \subseteq InFlight
  PROVE  \A e \in T!Disowned \cup T!LeaveRequests : \E d \in received : d.request = e.request
<1>1. ASSUME NEW e \in T!Disowned PROVE \E d \in received : d.request = e.request
  <2>1. PICK d \in received : e = [d EXCEPT !.stream = "lost"]
    BY <1>1 DEF T!Disowned
  <2>2. e.request = d.request
    BY <2>1 DEF InFlight
  <2> QED  BY <2>2
<1>2. ASSUME NEW e \in T!LeaveRequests PROVE \E d \in received : d.request = e.request
  <2>1. PICK d \in received : e = [d EXCEPT !.stream = IF @ = "current" THEN "earlier" ELSE @]
    BY <1>2 DEF T!LeaveRequests
  <2>2. e.request = d.request
    BY <2>1 DEF InFlight
  <2> QED  BY <2>2
<1> QED  BY <1>1, <1>2

\* What the call does to a request changes neither method nor token.
LEMMA CallingRead == TypeInv /\ ReadInv /\ Calling => ReadInv'
<1> SUFFICES ASSUME TypeInv, ReadInv, Calling PROVE ReadInv'
  OBVIOUS
<1>1. call \in CallType /\ received \subseteq InFlight /\ T!CallStep
  BY DEF Calling, TypeInv, T!TransportTypeOK, CallType, InFlight
<1>2. call.step # "idle" /\ call'.request = call.request
  <2>1. call.step # "idle"
    BY <1>1 DEF T!CallStep, T!EnsureReusable, T!OpenStream, T!OpenFails, T!BeginSession, T!BeginFails,
       T!SendRequest, T!ConnectionLost, T!ReadFrames, T!DeadlinePasses
  <2>2. ASSUME NEW status, NEW body, T!Return(status, body) PROVE call'.request = call.request
    BY <1>1, <2>2 DEF T!Return, CallType
  <2>3. CASE T!EnsureReusable \/ T!OpenStream \/ T!OpenFails \/ T!BeginSession \/ T!BeginFails \/ T!SendRequest
    BY <1>1, <2>3 DEF T!EnsureReusable, T!OpenStream, T!OpenFails, T!BeginSession, T!BeginFails,
       T!SendRequest, T!ConnectFailed, CallType
  <2>4. CASE T!ConnectionLost \/ T!DeadlinePasses
    BY <2>1, <2>2, <2>4 DEF T!ConnectionLost, T!DeadlinePasses
  <2>5. CASE T!ReadFrames
    <3>1. call' = call \/ \E status, body : T!Return(status, body)
      BY <2>5 DEF T!ReadFrames
    <3> QED  BY <2>1, <2>2, <3>1
  <2> QED  BY <1>1, <2>1, <2>3, <2>4, <2>5 DEF T!CallStep
<1>3. \A e \in T!Disowned \cup T!LeaveRequests : \E d \in received : d.request = e.request
  BY <1>1, SameRequests
<1>4. \A e \in received' :
        \/ e \in received \cup T!Disowned \cup T!LeaveRequests
        \/ e.request = call.request
  <2>1. CASE T!SendRequest
    BY <2>1 DEF T!SendRequest
  <2>2. CASE ~ T!SendRequest
    <3>1. received' \in {received, T!Disowned, T!LeaveRequests}
      BY <1>1, <2>2 DEF T!CallStep, T!EnsureReusable, T!OpenStream, T!OpenFails, T!BeginSession,
         T!BeginFails, T!ConnectionLost, T!ReadFrames, T!DeadlinePasses
    <3> QED  BY <3>1
  <2> QED  BY <2>1, <2>2
<1> QED  BY <1>2, <1>3, <1>4, ReadKept

\* The loop answers a task it has read, and forgets requests but makes none.
LEMMA TickRead == TypeInv /\ ReadInv /\ (Tick \/ PowerCut) => ReadInv'
<1> SUFFICES ASSUME TypeInv, ReadInv, Tick \/ PowerCut PROVE ReadInv'
  OBVIOUS
<1>1. \A e \in T!Disowned : \E d \in received : d.request = e.request
  BY SameRequests DEF TypeInv, T!TransportTypeOK, InFlight
<1>2. CASE Whoami \/ WhoamiSucceeds \/ WhoamiFails \/ Register \/ RegisterEnds \/ DelayEnds
  <2>1. UNCHANGED <<received, call>>
    BY <1>2 DEF Whoami, WhoamiSucceeds, WhoamiFails, Register, RegisterEnds, DelayEnds, RestUnchanged,
       transportVars
  <2> QED  BY <2>1 DEF ReadInv
<1>3. CASE TickWorkflow \/ TickActivity
  <2>1. received' = received /\ call'.request.method \in PollMethods
    <3>1. PICK method \in PollMethods : T!Invoke(PollRequest(method))
      BY <1>3 DEF TickWorkflow, TickActivity, PollMethods
    <3>2. PollRequest(method) \in Requests /\ PollRequest(method).method = method
      BY DEF PollRequest, Requests
    <3>3. call'.request = PollRequest(method)
      BY <3>1, <3>2, InvokeType
    <3>4. received' = received
      BY <3>1 DEF T!Invoke
    <3> QED  BY <3>2, <3>3, <3>4
  <2>2. OnlyRead(call'.request)
    BY <2>1 DEF OnlyRead, PollMethods, RespondMethods
  <2> QED  BY <2>1, <2>2, ReadKept
<1>4. CASE DispatchTask
  <2>1. received' = received /\ call'.request.token = call.body /\ Parses(call.body.task)
    BY <1>4 DEF DispatchTask, T!Invoke, T!NoCall, RespondRequest
  <2>2. OnlyRead(call'.request)
    BY <2>1 DEF OnlyRead, Parses
  <2> QED  BY <2>1, <2>2, ReadKept
<1>5. CASE PollIdle \/ PollUnreadable \/ RespondLands \/ BackOff
  <2>1. received' = received /\ call'.step = "idle"
    BY <1>5 DEF PollIdle, PollUnreadable, RespondLands, BackOff, EndTick, T!NoCall
  <2> QED  BY <2>1, ReadKept
<1>6. CASE DropWorker \/ WatchdogBites \/ PowerCut
  <2>1. received' = T!Disowned /\ call'.step = "idle"
    BY <1>6 DEF DropWorker, T!CloseTransport, WatchdogBites, PowerCut, Reboot, T!NoCall
  <2> QED  BY <1>1, <2>1, ReadKept
<1> QED  BY <1>2, <1>3, <1>4, <1>5, <1>6 DEF Tick

\* The far end and the service make no request.
LEMMA OthersRead == TypeInv /\ ReadInv /\ (FarEnd \/ Service) => ReadInv'
<1> SUFFICES ASSUME TypeInv, ReadInv, FarEnd \/ Service PROVE ReadInv'
  OBVIOUS
<1>1. /\ \A d \in received : \A x : [d EXCEPT !.stream = x].request = d.request
      /\ \A e \in T!Disowned : \E d \in received : d.request = e.request
  BY SameRequests DEF TypeInv, T!TransportTypeOK, InFlight
<1>2. call' = call
  BY DEF FarEnd, T!PeerStep, T!PeerGoesAway, T!PeerCloses, T!PeerRefuses, Service, ServePollActivity,
     ServePollWorkflow, ServeRespond, ServeUnavailable, LostTaskTimesOut, TaskTimesOutEarly, ActivityTimeout
<1>3. \A e \in received' : \E d \in received : d.request = e.request
  <2>1. CASE FarEnd
    <3>1. received' = received \/ received' = T!Disowned
      BY <2>1 DEF FarEnd, T!PeerStep, T!PeerGoesAway, T!PeerCloses, T!PeerRefuses
    <3> QED  BY <1>1, <3>1
  <2>2. CASE ServePollActivity \/ ServePollWorkflow \/ ServeRespond
    <3>1. received' \subseteq received
      BY <2>2 DEF ServePollActivity, ServePollWorkflow, ServeRespond, T!Reply
    <3> QED  BY <3>1
  <2>3. CASE ServeUnavailable
    <3>1. PICK e \in received :
            received' \in {received \ {e}, (received \ {e}) \cup {[e EXCEPT !.stream = "lost"]}}
      BY <2>3 DEF ServeUnavailable, T!ReplyForService
    <3>2. [e EXCEPT !.stream = "lost"].request = e.request
      BY <1>1
    <3>3. \A d \in received' : d \in received \/ d = [e EXCEPT !.stream = "lost"]
      BY <3>1
    <3> QED  BY <3>2, <3>3
  <2>4. CASE LostTaskTimesOut \/ TaskTimesOutEarly
    BY <2>4 DEF LostTaskTimesOut, TaskTimesOutEarly, ActivityTimeout
  <2> QED  BY <2>1, <2>2, <2>3, <2>4 DEF Service
<1> QED  BY <1>2, <1>3 DEF ReadInv, OnlyRead

\* A step of the queue keeps its books.
LEMMA QueueKeepsBooks ==
  ASSUME ServiceTypeOK, BooksInv, Queue!Next \/ QueueUnchanged
  PROVE  BooksInv'
<1>1. CASE QueueUnchanged
  BY <1>1 DEF QueueUnchanged, BooksInv
<1>2. ASSUME NEW t \in Tasks, Queue!HandOut(t) \/ Queue!TimeOut(t) PROVE BooksInv'
  BY <1>2 DEF Queue!HandOut, Queue!TimeOut, BooksInv, ServiceTypeOK
<1>3. ASSUME NEW t \in Tasks, Queue!End(t) \/ Queue!Refuse(t) PROVE BooksInv'
  BY <1>3 DEF Queue!End, Queue!Refuse, Queue!Answered, BooksInv, ServiceTypeOK
<1>4. ASSUME NEW t \in Tasks, Queue!Report(t) PROVE BooksInv'
  BY <1>4 DEF Queue!Report, BooksInv
<1> QED  BY <1>1, <1>2, <1>3, <1>4 DEF Queue!Next

\* An answer arrives: it ends its task or is refused, or it is one to an
\* attempt the queue has given up on and forgotten.
LEMMA RespondIsQueueStep ==
  ASSUME TypeInv, AnswerInv, QueueInv, ServeRespond
  PROVE  Queue!Next \/ QueueUnchanged
<1>1. PICK e \in received :
        /\ e.request.method \in RespondMethods
        /\ LET t == e.request.token.task
               latest == e.request.token.attempt = attempt[t]
               fits == latest /\ queue[t] = "out"
           IN  /\ queue' = IF fits THEN [queue EXCEPT ![t] = "ended"] ELSE queue
               /\ served' = IF latest THEN [served EXCEPT ![t] = @ + 1] ELSE served
  BY DEF ServeRespond
<1>2. attempt' = attempt /\ reported' = reported
  BY DEF ServeRespond
<1>3. PICK t \in Tasks, n \in Attempts : e.request.token = [task |-> t, attempt |-> n]
  <2>1. e.request.token \in Tokens
    BY <1>1, RequestToken DEF TypeInv, T!TransportTypeOK
  <2> QED  BY <2>1 DEF Tokens
<1>4. ServiceTypeOK /\ n \in Nat /\ n > 0
  BY WorkerAssumption DEF TypeInv, Attempts
<1>5. CASE n # attempt[t]
  BY <1>1, <1>2, <1>3, <1>5 DEF QueueUnchanged
<1>6. CASE n = attempt[t]
  <2>1. e.request.token = Token(t)
    BY <1>3, <1>6 DEF Token
  <2>2. served[t] = 0
    <3>1. AnswerTravels(t)
      BY <2>1 DEF AnswerTravels
    <3>2. served[t] <= 1 /\ served[t] # 1
      BY <3>1 DEF AnswerInv, OneAnswer
    <3>3. served[t] \in Nat
      BY <1>4 DEF ServiceTypeOK
    <3> QED  BY <3>2, <3>3
  <2>3. t \notin Unreadable
    BY <1>1, <1>3 DEF QueueInv, ReadInv, OnlyRead
  <2>4. served' = [served EXCEPT ![t] = 1]
    <3>1. served' = [served EXCEPT ![t] = served[t] + 1]
      BY <1>1, <1>3, <1>6
    <3>2. served[t] + 1 = 1
      BY <2>2
    <3> QED  BY <3>1, <3>2
  <2>5. Queue!Answered(t)
    BY <1>2, <1>4, <1>6, <2>2, <2>3, <2>4 DEF Queue!Answered
  <2>6. CASE queue[t] = "out"
    <3>1. queue' = [queue EXCEPT ![t] = "ended"]
      BY <1>1, <1>3, <1>6, <2>6
    <3> QED  BY <2>5, <2>6, <3>1 DEF Queue!End, Queue!Next
  <2>7. CASE queue[t] # "out"
    <3>1. queue' = queue
      BY <1>1, <1>3, <1>6, <2>7
    <3>2. queue[t] # "ended"
      BY <2>2 DEF QueueInv, BooksInv
    <3>3. queue[t] \in {"queued", "expired"}
      BY <1>4, <2>7, <3>2 DEF ServiceTypeOK
    <3> QED  BY <2>5, <3>1, <3>3 DEF Queue!Refuse, Queue!Next
  <2> QED  BY <2>6, <2>7
<1> QED  BY <1>5, <1>6

\* What else the service does is a delivery, a timeout, or nothing of the
\* queue's.
LEMMA ServiceIsQueueStep ==
  ASSUME TypeInv, AnswerInv, QueueInv, Service
  PROVE  Queue!Next \/ QueueUnchanged
<1>1. CASE ServePollActivity
  <2>1. \/ QueueUnchanged
        \/ \E t \in Tasks : Queue!HandOut(t)
    BY <1>1 DEF ServePollActivity, serviceVars, QueueUnchanged, Queue!HandOut
  <2> QED  BY <2>1 DEF Queue!Next
<1>2. CASE ServePollWorkflow \/ ServeUnavailable
  BY <1>2 DEF ServePollWorkflow, ServeUnavailable, serviceVars, QueueUnchanged
<1>3. CASE LostTaskTimesOut \/ TaskTimesOutEarly
  <2>1. PICK t \in Tasks : ActivityTimeout(t)
    BY <1>3 DEF LostTaskTimesOut, TaskTimesOutEarly
  <2>2. Queue!TimeOut(t)
    BY <2>1 DEF ActivityTimeout, Queue!TimeOut
  <2> QED  BY <2>2 DEF Queue!Next
<1> QED  BY <1>1, <1>2, <1>3, RespondIsQueueStep DEF Service

\* The device's only step the queue's account knows of is the report of a
\* task that has ended.
LEMMA DeviceIsQueueStep ==
  ASSUME TypeInv, AnswerInv, Tick \/ Calling \/ FarEnd \/ PowerCut
  PROVE  Queue!Next \/ QueueUnchanged
<1>1. CASE RespondLands
  <2>1. call.step = "returned" /\ phase = "respond" /\ call.status = "ok"
    BY <1>1 DEF RespondLands, Returned
  <2>2. queue[call.request.token.task] = "ended"
    BY <2>1 DEF AnswerInv, ReportInv
  <2>3. call.request.token.task \in Tasks
    BY <2>1, RequestToken DEF TypeInv, LoopInv, Tokens
  <2>4. reported' = reported \cup {call.request.token.task} /\ UNCHANGED serviceVars
    BY <1>1 DEF RespondLands, EndTick
  <2>5. Queue!Report(call.request.token.task)
    BY <2>2, <2>4 DEF Queue!Report, serviceVars
  <2> QED  BY <2>3, <2>5 DEF Queue!Next
<1>2. CASE Calling \/ FarEnd \/ PowerCut
  BY <1>2 DEF Calling, FarEnd, PowerCut, Reboot, serviceVars, QueueUnchanged
<1>3. CASE Tick /\ ~ RespondLands
  <2>1. UNCHANGED <<serviceVars, reported>>
    BY <1>3 DEF Tick, Whoami, WhoamiSucceeds, WhoamiFails, Register, RegisterEnds, TickWorkflow,
       TickActivity, TickStarts, PollIdle, PollUnreadable, DispatchTask, BackOff, DropWorker, DelayEnds,
       WatchdogBites, Reboot, EndTick
  <2> QED  BY <2>1 DEF serviceVars, QueueUnchanged
<1> QED  BY <1>1, <1>2, <1>3

\* Every step of the system is one of the queue's or none of its business,
\* and keeps the invariant that says so.
LEMMA QueueStep ==
  ASSUME TypeInv, AnswerInv, QueueInv, [Next]_vars
  PROVE  QueueInv' /\ (Queue!Next \/ QueueUnchanged)
<1>1. Queue!Next \/ QueueUnchanged
  <2>1. CASE UNCHANGED vars
    BY <2>1 DEF vars, serviceVars, QueueUnchanged
  <2> QED  BY <2>1, ServiceIsQueueStep, DeviceIsQueueStep DEF Next
<1>2. ReadInv'
  <2>1. CASE UNCHANGED vars
    BY <2>1 DEF vars, transportVars, QueueInv, ReadInv
  <2> QED  BY <2>1, CallingRead, TickRead, OthersRead DEF Next, QueueInv
<1>3. BooksInv'
  BY <1>1, QueueKeepsBooks DEF TypeInv, QueueInv
<1> QED  BY <1>1, <1>2, <1>3 DEF QueueInv

\* The queue's side of the invariant holds at all times.
LEMMA QueueInvariant == Spec => []QueueInv
BY TypeInvariant, AnswerInvariant, InitQueueInv, QueueStep, PTL DEF Spec

\* Whatever is lost, late, repeated or rebooted, to the service's queue the
\* device is a worker that answers each delivery once at most, answers none of
\* a task it cannot read, and calls a task done only when it is.
THEOREM WorkerImplementsQueue == Spec => ImplementsQueue
<1>1. TypeInv /\ AnswerInv /\ QueueInv /\ [Next]_vars
        => [Queue!Next]_<<queue, attempt, served, reported>>
  BY QueueStep DEF QueueUnchanged
<1>2. Init => Queue!Init
  BY InitQueueInv
<1> QED  BY <1>1, <1>2, TypeInvariant, AnswerInvariant, QueueInvariant, PTL
         DEF Spec, ImplementsQueue, Queue!Spec
=============================================================================
