---------------------------- MODULE PayloadCodec ----------------------------
(***************************************************************************)
(* A value on its way through activities.  Two kinds of workflow send it:  *)
(* this system's own (workflow_loop.cpp), which wraps every value in a     *)
(* fresh context of namespace and execution id and reads results without   *)
(* their metadata, and any other on the same queue, which may send a full  *)
(* context, a plain payload, or none.  A worker (worker_loop.cpp) unwraps  *)
(* the value, runs a handler and answers in the context it has just read,  *)
(* the device within the room its messages have.                           *)
(*                                                                         *)
(* Handlers are device.echo, which puts its argument into an object, a     *)
(* text handler of mwf_worker, by way of jsonUnquote and jsonQuote, and    *)
(* one without a result.  A text is a sequence of character classes.       *)
(***************************************************************************)
EXTENDS Naturals, Sequences, FiniteSets

CONSTANTS
  Texts,        \* texts
  Ids,          \* execution ids, "" among them
  DeviceKeys,   \* metadata keys a payload on the device has room for (8)
  DeviceBytes,  \* the data it has room for (8192 bytes)
  EchoBytes,    \* what device.echo adds to its argument
  MaxEchoes     \* bound: echoes of one value

\* Characters as far as JSON tells them apart.
Characters == {"plain", "quote", "backslash", "newline"}

ASSUME CodecAssumption ==
  /\ Texts \subseteq Seq(Characters)
  /\ "" \in Ids
  /\ DeviceKeys \in Nat /\ DeviceKeys >= 5
  /\ {DeviceBytes, EchoBytes, MaxEchoes} \subseteq Nat

VARIABLE letter   \* [sender, run, activity, value, asked, payload, stage]

Optional == {"root_workflow_exec_id", "parent_workflow_exec_id",
             "__internal_execution_token", "__internal_extensions",
             "__internal_on_behalf_of"}

\* The optional fields that are present, empty or not.
OptionalFields == UNION {[K -> {"", "true"}] : K \in SUBSET Optional}

\* A WorkflowContext: two names, and the optional fields.
Contexts ==
  {[namespace |-> "ns", execution_id |-> id, fields |-> f] : id \in Ids, f \in OptionalFields}

NoContext == [namespace |-> "", execution_id |-> "", fields |-> << >>]

-----------------------------------------------------------------------------
(* Texts in JSON.                                                          *)

jsonQuoteChar(c) ==
  CASE c = "quote"     -> <<"backslash", "quote">>
    [] c = "backslash" -> <<"backslash", "backslash">>
    [] c = "newline"   -> <<"backslash", "n">>
    [] OTHER           -> <<c>>

\* The characters one by one: what a proof can take one step at a time.
jsonQuote(text) ==
  LET quoted[i \in 0..Len(text)] ==
        IF i = 0 THEN << >> ELSE quoted[i - 1] \o jsonQuoteChar(text[i])
  IN  quoted[Len(text)]

\* What follows a backslash; an escape it does not know stays as it is.
Unescaped(c) ==
  CASE c = "n" -> <<"newline">>
    [] c \in {"quote", "backslash"} -> <<c>>
    [] OTHER -> <<"backslash", c>>

\* One turn of the loop, or the second half of one: the character after a
\* backslash.  A backslash at the very end stands for itself.
UnquoteChar(read, c, last) ==
  IF read.escaped
  THEN [text |-> read.text \o Unescaped(c), escaped |-> FALSE]
  ELSE IF c = "backslash" /\ ~ last
  THEN [text |-> read.text, escaped |-> TRUE]
  ELSE [text |-> Append(read.text, c), escaped |-> FALSE]

jsonUnquote(json) ==
  LET read[i \in 0..Len(json)] ==
        IF i = 0 THEN [text |-> << >>, escaped |-> FALSE]
        ELSE UnquoteChar(read[i - 1], json[i], i = Len(json))
  IN  read[Len(json)].text

-----------------------------------------------------------------------------
(* JSON values: null, a text or no bytes at all, inside so many objects of *)
(* device.echo.                                                            *)

JsonText(text) == [is |-> "text", text |-> text, echoes |-> 0]
JsonNull == [is |-> "null", text |-> << >>, echoes |-> 0]
NoBytes == [is |-> "none", text |-> << >>, echoes |-> 0]

isEmptyValue(json) == json \in {JsonNull, NoBytes}

\* A value in JSON, and back.
Written(value) == [value EXCEPT !.text = jsonQuote(@)]
Meaning(json) == IF json = NoBytes THEN JsonNull ELSE [json EXCEPT !.text = jsonUnquote(@)]

-----------------------------------------------------------------------------
(* The envelope.                                                           *)

\* What a context leaves in the metadata: extensions only when there are any,
\* on_behalf_of as one of two words.
Echoed(context) ==
  LET kept == {k \in DOMAIN context.fields :
                 k # "__internal_extensions" \/ context.fields[k] # ""}
  IN  [k \in kept |-> IF k = "__internal_on_behalf_of" /\ context.fields[k] # "true"
                      THEN "false" ELSE context.fields[k]]

Wrapped(metadata, json) == [metadata |-> metadata, data |-> json]

Base(context) ==
  [k \in {"encoding", "namespace", "execution_id", "encoding_options"} |->
     CASE k = "encoding"     -> "json/wf_v1"
       [] k = "namespace"    -> context.namespace
       [] k = "execution_id" -> context.execution_id
       [] OTHER              -> ""]

Merge(f, g) == [k \in DOMAIN f \cup DOMAIN g |-> IF k \in DOMAIN f THEN f[k] ELSE g[k]]

Header(context) == Merge(Base(context), Echoed(context))
Mark == [k \in {"empty_payload"} |-> "0"]
Marked(header, empty) == IF empty THEN Merge(header, Mark) ELSE header

encodeActivityResult(json, context, empty) ==
  Wrapped(Marked(Header(context), empty), json)

PlainMetadata == [k \in {"encoding"} |-> "json/plain"]
plainPayload(json) == Wrapped(PlainMetadata, IF json = NoBytes THEN JsonNull ELSE json)

\* The context that metadata carries.
ContextOf(metadata) ==
  [namespace |-> metadata["namespace"], execution_id |-> metadata["execution_id"],
   fields |-> [k \in DOMAIN metadata \cap Optional |->
                 IF k = "__internal_on_behalf_of"
                 THEN (IF metadata[k] = "true" THEN "true" ELSE "")
                 ELSE metadata[k]]]

\* Refused are an unknown encoding and an envelope without an execution id.
decodeActivityInput(payload) ==
  LET md == payload.metadata
      encoded(as) == "encoding" \in DOMAIN md /\ md["encoding"] = as
      wrapped == encoded("json/wf_v1") /\ md["execution_id"] # ""
  IN  [ok |-> encoded("json/plain") \/ wrapped,
       argument |-> payload.data,
       context |-> IF wrapped THEN ContextOf(md) ELSE NoContext]

\* A task without input.
NoInput == Wrapped(<< >>, NoBytes)

\* Its argument is null and its answer a plain one.
inputOf(payload) ==
  IF payload = NoInput THEN [ok |-> TRUE, argument |-> JsonNull, context |-> NoContext]
  ELSE decodeActivityInput(payload)

\* Neither reader nor writer of the device takes more than there is room for.
Fits(payload) ==
  /\ Cardinality(DOMAIN payload.metadata) <= DeviceKeys
  /\ Len(payload.data.text) + EchoBytes * payload.data.echoes <= DeviceBytes

-----------------------------------------------------------------------------
(* The workers.                                                            *)

Activities == {"device.echo", "shout", "quiet"}

registered(on) == IF on = "device" THEN {"device.echo"} ELSE Activities

Failed == [ok |-> FALSE, value |-> NoBytes]
Success(json) == [ok |-> TRUE, value |-> json]

\* What the handler makes of its argument; quiet stands for any without a result.
invoke(activity, json) ==
  CASE activity = "device.echo" ->
         Success([(IF json = NoBytes THEN JsonNull ELSE json) EXCEPT !.echoes = @ + 1])
    [] activity = "shout" ->
         IF json.is = "text" /\ json.echoes = 0
         THEN Success(JsonText(jsonQuote(jsonUnquote(json.text)))) ELSE Failed
    [] OTHER -> Success(NoBytes)

\* (Slip: the result goes out in a fresh context of the same run.)
respondAnew(input, json) ==
  IF input.context.execution_id # ""
  THEN encodeActivityResult(IF json = NoBytes THEN JsonNull ELSE json,
                            [input.context EXCEPT !.fields = << >>], isEmptyValue(json))
  ELSE plainPayload(json)

\* The worker answers in the encoding and the context it was asked in.
respond(input, json) ==
  IF input.context.execution_id # ""
  THEN encodeActivityResult(IF json = NoBytes THEN JsonNull ELSE json,
                            input.context, isEmptyValue(json))
  ELSE plainPayload(json)

Room(on, payload) == on = "device" => Fits(payload)

\* The device does not take a task that is too large: the poll's response does not
\* parse, and nobody is told.
Unread(on) ==
  /\ letter.stage = "sent" /\ ~ Room(on, letter.payload)
  /\ letter' = [letter EXCEPT !.stage = "unread"]

\* An input that does not decode, an activity the registry does not
\* have, a handler that fails.
respondFailed(on) ==
  LET input == inputOf(letter.payload)
  IN  /\ letter.stage = "sent" /\ Room(on, letter.payload)
      /\ input.ok /\ letter.activity \in registered(on) =>
           ~ invoke(letter.activity, input.argument).ok
      /\ letter' = [letter EXCEPT !.stage = "failed"]

\* What the handlers are for, whatever the JSON: the value a run has after one.
Handled(activity, value) ==
  CASE activity = "device.echo" -> [value EXCEPT !.echoes = @ + 1]
    [] activity = "quiet"       -> JsonNull
    [] OTHER                    -> value

\* The task is read and its handler succeeds.
HandlerRuns(on) ==
  LET input == inputOf(letter.payload)
  IN  /\ letter.stage = "sent" /\ Room(on, letter.payload)
      /\ input.ok /\ letter.activity \in registered(on)
      /\ invoke(letter.activity, input.argument).ok

\* What there is then to be sent.
AnswerTo(payload, activity) ==
  respond(inputOf(payload), invoke(activity, inputOf(payload).argument).value)

AnswersTask(on) ==
  LET answer == AnswerTo(letter.payload, letter.activity)
  IN  /\ HandlerRuns(on) /\ Room(on, answer)
      /\ letter' = [letter EXCEPT !.stage = "answered", !.payload = answer,
                                  !.value = Handled(letter.activity, @)]

\* An answer the device has no room for: the request goes out empty, and the service
\* refuses it.
AnswersNothing(on) ==
  /\ HandlerRuns(on) /\ ~ Room(on, AnswerTo(letter.payload, letter.activity))
  /\ letter' = [letter EXCEPT !.stage = "unanswered"]

\* The service hands out again what nobody answered.
TimesOut ==
  /\ letter.stage \in {"unread", "unanswered"}
  /\ letter' = [letter EXCEPT !.stage = "sent"]

-----------------------------------------------------------------------------
(* The workflows.                                                          *)

\* The context of a run: nothing but the two names.
RunContext(id) == [namespace |-> "ns", execution_id |-> id, fields |-> [k \in {} |-> ""]]

outbound(json, context) == encodeActivityResult(json, context, isEmptyValue(json))

\* A result as the history has it: bytes, whatever their metadata was.
inbound(payload) == decodeActivityInput(Wrapped(PlainMetadata, payload.data)).argument

FirstValues == {JsonText(text) : text \in Texts} \cup {JsonNull}

Letter(sender, run, activity, value, payload) ==
  [sender |-> sender, run |-> run, activity |-> activity, value |-> value,
   asked |-> IF payload = NoInput THEN PlainMetadata ELSE payload.metadata,
   payload |-> payload, stage |-> "sent"]

\* The first activity of a run.
RunStarts ==
  \E id \in Ids \ {""}, activity \in Activities, value \in FirstValues :
    letter = Letter("loop", RunContext(id), activity, value,
                    outbound(Written(value), RunContext(id)))

\* The next one is given the result of the last.
SchedulesNext ==
  /\ letter.stage = "answered" /\ letter.sender = "loop" /\ letter.value.echoes < MaxEchoes
  /\ \E activity \in Activities :
       LET payload == outbound(inbound(letter.payload), letter.run)
       IN  letter' = [letter EXCEPT !.stage = "sent", !.activity = activity,
                                    !.payload = payload, !.asked = payload.metadata]

\* Or the result is the run's own.
CompletesRun ==
  /\ letter.stage = "answered" /\ letter.sender = "loop"
  /\ letter' = [letter EXCEPT !.stage = "closed",
                              !.payload = outbound(inbound(letter.payload), letter.run)]

\* What other workflows send: an envelope with any context, a plain payload, one in an
\* encoding of their own or none, or a task without input.
OthersAsk ==
  \E activity \in Activities, value \in FirstValues :
    \/ \E context \in Contexts :
         letter = Letter("other", context, activity, value, outbound(Written(value), context))
    \/ \E payload \in {plainPayload(Written(value)),
                       Wrapped([k \in {"encoding"} |-> "binary/null"], Written(value)),
                       Wrapped(<< >>, Written(value))} :
         letter = Letter("other", NoContext, activity, value, payload)
    \/ value = JsonNull /\ letter = Letter("other", NoContext, activity, value, NoInput)

CodecInit == RunStarts \/ OthersAsk

CodecNext ==
  \/ \E on \in {"desktop", "device"} : Unread(on) \/ respondFailed(on) \/ AnswersTask(on) \/ AnswersNothing(on)
  \/ TimesOut \/ SchedulesNext \/ CompletesRun

-----------------------------------------------------------------------------

HasMark(metadata) == "empty_payload" \in DOMAIN metadata
Unmarked(metadata) == [k \in DOMAIN metadata \ {"empty_payload"} |-> metadata[k]]

\* Through any number of activities, of redeliveries and of either kind of worker: the
\* bytes say what the handlers have made of the first value; a worker answers in the
\* very metadata it was asked in, whichever optional fields there were; an envelope is
\* marked as empty when its value is null, and only then; and what belongs to a run of
\* this system names that run and is never too many keys for the device.
EnvelopeKeepsItsRun ==
  LET metadata == letter.payload.metadata
      json == letter.payload.data
  IN  /\ Meaning(json) = letter.value
      /\ letter.stage = "answered" => Unmarked(metadata) = Unmarked(letter.asked)
      /\ "execution_id" \in DOMAIN metadata => (HasMark(metadata) <=> isEmptyValue(json))
      /\ letter.sender = "loop" =>
           /\ metadata["execution_id"] = letter.run.execution_id
           /\ metadata["namespace"] = letter.run.namespace
           /\ Cardinality(DOMAIN metadata) <= DeviceKeys
=============================================================================
