---------------------------- MODULE H2Transport ----------------------------
(***************************************************************************)
(* One gRPC call at a time over one HTTP/2 connection: H2Transport::call   *)
(* (grpc_h2.cpp), the EspTransport under it (the TLS connection and its    *)
(* arbiter slot) and the far end of that connection.  The module has no    *)
(* Next of its own: SoleWorker says who calls and what the service does    *)
(* with a request.                                                         *)
(***************************************************************************)
EXTENDS Integers, Sequences, FiniteSets

CONSTANTS
  Requests,      \* what a caller may send, with a field "method"
  Replies,       \* bodies of answers
  NoRequest,     \* no call is under way
  NoReply,       \* the empty body
  PollMethods,   \* the methods whose last path segment starts with "Poll"
  MaxFaults      \* bound: faults of the network, the service and the power

CONSTANT Slots   \* TLS work slots of the arbiter (kSlots, 2)

VARIABLES
  conn,       \* "none": client_ is null.  Else what the far end makes of it:
              \* "fresh" (TLS up, no byte yet), "serving" (it saw a preface),
              \* "refusing" (it saw something else first), "gone" (it closed)
  session,    \* "none": session_ is null; "alive", "dead": alive_
  connected,  \* connected_
  slots,      \* free arbiter slots
  holding,    \* holding_slot_
  inbox,      \* frames on their way to the device
  received,   \* requests the service has and has not answered
  call,       \* locals of H2Transport::call and GrpcH2Session::call
  faults

connVars == <<conn, session, connected, slots, holding>>
transportVars == <<conn, session, connected, slots, holding, inbox, received, call, faults>>

Statuses == {"ok", "deadline", "unavailable", "refused"}

\* "current" is the stream of the call under way, "earlier" a cancelled one of
\* the same connection, "lost" one whose connection is closed.
Answer(stream, status, body) ==
  [kind |-> "answer", stream |-> stream, status |-> status, body |-> body]
GoAway == [kind |-> "goaway", stream |-> "earlier", status |-> "unavailable", body |-> NoReply]

Frames == [kind : {"answer", "goaway"}, stream : {"current", "earlier"},
           status : Statuses, body : Replies \cup {NoReply}]

NoCall == [request |-> NoRequest, step |-> "idle", reused |-> FALSE, again |-> FALSE,
           status |-> "ok", body |-> NoReply]

Fault == faults > 0 /\ faults' = faults - 1

Usable == connected /\ session = "alive"

TransportInit ==
  /\ conn = "none"
  /\ session = "none"
  /\ connected = FALSE
  /\ slots = Slots
  /\ holding = FALSE
  /\ inbox = <<>>
  /\ received = {}
  /\ call = NoCall
  /\ faults = MaxFaults

-----------------------------------------------------------------------------
(* The call.                                                               *)

\* H2Transport::call starts; wasConnected is read before anything else.
Invoke(r) ==
  /\ call' = [NoCall EXCEPT !.request = r, !.step = "ensure", !.reused = Usable]
  /\ UNCHANGED <<connVars, inbox, received, faults>>

\* Nothing the far end still does reaches this connection any more.
Disowned == {[e EXCEPT !.stream = "lost"] : e \in received}

\* closeStream releases the slot it holds; openStream then takes one.
\* (Slip: closeStream forgets to.)
FreeSlotsLeaking == slots

FreeSlots == slots + (IF holding THEN 1 ELSE 0)

EnsureReusable ==
  /\ call.step = "ensure"
  /\ Usable
  /\ call' = [call EXCEPT !.step = "send"]
  /\ UNCHANGED <<connVars, inbox, received, faults>>

\* ensureSession closes the old stream and openStream brings up the new one:
\* from here on the transport's send and recv talk to the new connection.
OpenStream ==
  /\ call.step = "ensure"
  /\ ~ Usable
  /\ FreeSlots > 0
  /\ conn' = "fresh"
  /\ connected' = FALSE
  /\ slots' = FreeSlots - 1
  /\ holding' = TRUE
  /\ inbox' = <<>>
  /\ received' = Disowned
  /\ call' = [call EXCEPT !.step = "begin"]
  /\ UNCHANGED <<session, faults>>

\* "connect failed": the first attempt has no result yet; after a retry the
\* result of the first attempt stands.
ConnectFailed == [call EXCEPT !.step = "returned", !.status = "unavailable", !.body = NoReply]

OpenFails ==
  /\ call.step = "ensure"
  /\ ~ Usable
  /\ IF FreeSlots > 0 THEN Fault ELSE UNCHANGED faults
  /\ conn' = "none"
  /\ connected' = FALSE
  /\ slots' = FreeSlots
  /\ holding' = FALSE
  /\ inbox' = <<>>
  /\ received' = Disowned
  /\ call' = ConnectFailed
  /\ UNCHANGED session

\* begin(): shutdown() of the old session, if there is one, sends its GOAWAY
\* through the stream that is open now; then comes the preface of the new one.
\* A far end that reads anything before the preface drops the connection.
FirstBytes == IF session = "none" THEN "serving" ELSE "refusing"

BeginSession ==
  /\ call.step = "begin"
  /\ conn = "fresh"
  /\ conn' = FirstBytes
  /\ session' = "alive"
  /\ connected' = TRUE
  /\ call' = [call EXCEPT !.step = "send"]
  /\ UNCHANGED <<slots, holding, inbox, received, faults>>

\* The preface cannot be sent: alive_ is cleared and the stream closed, but
\* session_ stays.
BeginFails ==
  /\ call.step = "begin"
  /\ IF conn = "gone" THEN UNCHANGED faults ELSE Fault
  /\ conn' = "none"
  /\ session' = "dead"
  /\ slots' = FreeSlots
  /\ holding' = FALSE
  /\ call' = ConnectFailed
  /\ UNCHANGED <<connected, inbox, received>>

-----------------------------------------------------------------------------
(* GrpcH2Session::call.                                                    *)

\* The request goes out on a new stream of a connection that stands.
SendRequest ==
  /\ call.step = "send"
  /\ conn \in {"serving", "refusing"}
  /\ call' = [call EXCEPT !.step = "pump"]
  /\ received' = received \cup
       (IF conn = "serving" THEN {[request |-> call.request, stream |-> "current"]} ELSE {})
  /\ UNCHANGED <<connVars, inbox, faults>>

\* Frames and requests of the call's stream, once the call has left it.
Leave(frames) ==
  [i \in DOMAIN frames |-> [frames[i] EXCEPT !.stream = "earlier"]]
LeaveRequests ==
  {[e EXCEPT !.stream = IF @ = "current" THEN "earlier" ELSE @] : e \in received}

\* isIdempotentMethod: only polls are repeated.  (Slip: every method is.)
IsIdempotentAlways(r) == TRUE

IsIdempotent(r) == r.method \in PollMethods

\* GrpcH2Session::call returns; H2Transport::call goes round once more for a
\* poll that met an unavailable service on a connection it reused.
Retries(status, body) ==
  /\ status = "unavailable"
  /\ call.reused
  /\ ~ call.again
  /\ body = NoReply
  /\ IsIdempotent(call.request)

Return(status, body) ==
  call' = IF Retries(status, body)
          THEN [call EXCEPT !.step = "ensure", !.again = TRUE]
          ELSE [call EXCEPT !.step = "returned", !.status = status, !.body = body]

\* fail(): a write or a read finds the connection closed by the far end.
ConnectionLost ==
  /\ conn = "gone"
  /\ \/ call.step = "send"
     \/ call.step = "pump" /\ inbox = <<>>
  /\ session' = "dead"
  /\ Return("unavailable", NoReply)
  /\ inbox' = Leave(inbox)
  /\ received' = LeaveRequests
  /\ UNCHANGED <<conn, connected, slots, holding, faults>>

\* onHeader, onDataChunk and onStreamClose look at the call's own stream only.
\* (Slip: without the check of the stream id.)
OwnAnswersAny(frames) == {f \in frames : f.kind = "answer"}

OwnAnswers(frames) == {f \in frames : f.kind = "answer" /\ f.stream = "current"}

\* One pumpRecv: some of what has arrived is read at once, in order.  A GOAWAY
\* in it ends the call as unavailable, an answer next to it or not.
ReadFrames ==
  /\ call.step = "pump"
  /\ \E n \in 1..Len(inbox) :
       LET read == {inbox[i] : i \in 1..n}
           unread == SubSeq(inbox, n + 1, Len(inbox))
           retired == GoAway \in read
           answered == OwnAnswers(read) # {}
       IN  /\ session' = IF retired THEN "dead" ELSE session
           /\ IF retired \/ answered
              THEN /\ IF retired
                      THEN Return("unavailable", NoReply)
                      ELSE \E f \in OwnAnswers(read) : Return(f.status, f.body)
                   /\ inbox' = Leave(unread)
                   /\ received' = LeaveRequests
              ELSE inbox' = unread /\ UNCHANGED <<call, received>>
  /\ UNCHANGED <<conn, connected, slots, holding, faults>>

\* The backstop deadline: the stream is reset, the session kept.  A service
\* that runs answers before it, with a deadline status of its own.
DeadlinePasses ==
  /\ call.step = "pump"
  /\ Fault
  /\ Return("deadline", NoReply)
  /\ inbox' = Leave(inbox)
  /\ received' = LeaveRequests
  /\ UNCHANGED connVars

\* H2Transport::close and the reset of everything else a transport keeps.
CloseTransport ==
  /\ conn' = "none"
  /\ session' = "none"
  /\ connected' = FALSE
  /\ slots' = FreeSlots
  /\ holding' = FALSE
  /\ inbox' = <<>>
  /\ received' = Disowned
  /\ call' = NoCall

CallStep ==
  \/ EnsureReusable \/ OpenStream \/ OpenFails \/ BeginSession \/ BeginFails
  \/ SendRequest \/ ConnectionLost \/ ReadFrames \/ DeadlinePasses

-----------------------------------------------------------------------------
(* The far end.                                                            *)

\* An answer to request e travels on e's stream while that can be reached.
Sent(e, status, body) ==
  inbox' = IF e.stream = "lost" \/ conn # "serving"
           THEN inbox
           ELSE Append(inbox, Answer(e.stream, status, body))

\* The service is done with request e.
Reply(e, status, body) == received' = received \ {e} /\ Sent(e, status, body)

\* A proxy in front of the service gives up on request e (HTTP 503 or 504);
\* the service may still get to it.
ReplyForService(e) ==
  /\ received' \in {received \ {e}, (received \ {e}) \cup {[e EXCEPT !.stream = "lost"]}}
  /\ Sent(e, "unavailable", NoReply)

\* The service retires the connection; what it has received it may still serve.
PeerGoesAway ==
  /\ conn = "serving"
  /\ GoAway \notin {inbox[i] : i \in DOMAIN inbox}
  /\ Fault
  /\ inbox' = Append(inbox, GoAway)
  /\ UNCHANGED <<connVars, received, call>>

\* The connection breaks, or the service closes it while it is idle.
PeerCloses ==
  /\ conn \in {"fresh", "serving"}
  /\ Fault
  /\ conn' = "gone"
  /\ received' = Disowned
  /\ UNCHANGED <<session, connected, slots, holding, inbox, call>>

\* A connection that does not begin with the preface is an error (RFC 9113,
\* section 3.4): the far end closes it and serves nothing on it.
PeerRefuses ==
  /\ conn = "refusing"
  /\ conn' = "gone"
  /\ UNCHANGED <<session, connected, slots, holding, inbox, received, call, faults>>

PeerStep == PeerGoesAway \/ PeerCloses \/ PeerRefuses

-----------------------------------------------------------------------------
(* Properties.                                                             *)

TransportTypeOK ==
  /\ conn \in {"none", "fresh", "serving", "refusing", "gone"}
  /\ session \in {"none", "alive", "dead"}
  /\ connected \in BOOLEAN
  /\ slots \in 0..Slots
  /\ holding \in BOOLEAN
  /\ inbox \in Seq(Frames)
  /\ received \subseteq [request : Requests, stream : {"current", "earlier", "lost"}]
  /\ call \in [request : Requests \cup {NoRequest},
               step : {"idle", "ensure", "begin", "send", "pump", "returned"},
               reused : BOOLEAN, again : BOOLEAN,
               status : Statuses, body : Replies \cup {NoReply}]
  /\ faults \in 0..MaxFaults

\* "Client preface rides the first send": no connection starts with anything
\* else (grpc_h2.cpp:253, grpc_h2.h:73-74).
PrefaceFirst == conn # "refusing"
=============================================================================
