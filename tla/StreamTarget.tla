---------------------------- MODULE StreamTarget ----------------------------
(***************************************************************************)
(* From the body of a response to the text and the tool calls the suites    *)
(* judge (cleanr/adapters: sse.go, openai.go, http.go, anthropic.go).       *)
(* A server streams an answer as events, or sends it as one body; it may    *)
(* fail, garble an event or lose the connection at any point.  The target   *)
(* reads all of it and then goes over the events; since nobody sees how far  *)
(* it has come, the model makes each step of that loop when the event        *)
(* arrives.  A piece of text and a fragment of the arguments of a tool call  *)
(* are known by their number.  Garbling changes the data of an event and    *)
(* leaves its name; what decodes to another answer nobody can tell.         *)
(*                                                                          *)
(* Types of events:                                                         *)
(*   "text", "call"   a piece of text, a fragment of tool call index        *)
(*   "done"           the data [DONE]                                       *)
(*   "completed"      response.completed with the whole answer              *)
(*   "garbledEnd"     response.completed whose data does not decode         *)
(*   "headEnd"        response.completed cut before its data                *)
(*   "failed"         the server reports an error, in an object             *)
(*   "bad"            content that does not decode                          *)
(*   "odd"            content in a form that the loop passes over: for HTTP *)
(*                    data that does not begin as an object, for chat a     *)
(*                    content that is neither text nor a list of parts      *)
(*   "other"          an object without content, such as a role or a usage  *)
(*   "empty"          cut before its data                                   *)
(* and of a body that is no stream:                                         *)
(*   "whole"          it has the answer where the target looks for it       *)
(*   "raw"            plain text                                            *)
(*   "bad"            an object that does not decode                        *)
(*   "missing"        the text is not where the target looks for it         *)
(*   "oddCalls"       the tool calls have another form                      *)
(***************************************************************************)
EXTENDS Naturals, Sequences, FiniteSets, SequencesExt

CONSTANTS MaxText,    \* bound: pieces of text in an answer
          Indices,    \* indices of tool calls
          MaxArgs,    \* bound: fragments of a tool call
          MaxNoise,   \* bound: events that are garbled or have no content
          Nothing     \* no result yet

StreamAssumption ==
  /\ MaxText \in Nat /\ MaxArgs \in Nat /\ MaxNoise \in Nat
  /\ Indices \subseteq Nat /\ IsFiniteSet(Indices)

VARIABLES kind,       \* the target: "chat", "responses", "anthropic", "http" or,
                      \* without a response_field, "bareHttp"
          streamed,   \* the content type is text/event-stream
          status,     \* of the response
          meant,      \* the answer of the agent: pieces, fragments per call
          sent,       \* what of it the server has sent
          ending,     \* "no", "finished" or "failed": how the server ended
          conn,       \* "open", "eof" or "broken"
          events,     \* the events parseSSEStream has read, or the one body
          parsed,     \* what the loop over the events has made of them
          result      \* the core.Response

vars == <<kind, streamed, status, meant, sent, ending, conn, events, parsed, result>>

Answers == [text : 0 .. MaxText, calls : [Indices -> 0 .. MaxArgs]]
NothingSent == [text |-> 0, calls |-> [i \in Indices |-> 0]]

Types == {"text", "call", "done", "completed", "garbledEnd", "headEnd", "failed", "bad", "odd",
          "other", "empty", "whole", "raw", "missing", "oddCalls"}
Events == [type : Types, index : Nat, n : Nat]

Event(type, i, n) == [type |-> type, index |-> i, n |-> n]
Mark(type) == Event(type, 0, 0)

UpTo(n) == [k \in 1 .. n |-> k]

\* Stands for text that is no piece of the answer.
Junk == 0

\* The HTTP target; loading requires a response_field, NewHTTPTarget does not.
IsHttp == kind \in {"http", "bareHttp"}

\* The tool calls of the agent, as a map from index to call.
MeantCalls ==
  [i \in {j \in Indices : meant.calls[j] > 0} |->
     [named |-> TRUE, args |-> UpTo(meant.calls[i])]]

-----------------------------------------------------------------------------
\* The assembly of an answer.

Blank == [text |-> <<>>, calls |-> <<>>, completion |-> "", errors |-> 0, parseErr |-> FALSE]

\* Mutant: a decoding error is kept but not counted.
RecordParseErrorUncounted(acc) == [acc EXCEPT !.parseErr = TRUE]

\* recordOpenAIStreamParseError
RecordParseError(acc) == [acc EXCEPT !.errors = @ + 1, !.parseErr = TRUE]

\* Mutant: a fragment goes to the call that was extended last.
MergeCallIntoLatest(calls, e) ==
  LET i == IF calls = <<>> \/ e.n = 1 THEN e.index ELSE Max(DOMAIN calls)
      old == IF i \in DOMAIN calls THEN calls[i] ELSE [named |-> FALSE, args |-> <<>>]
  IN  [j \in DOMAIN calls \cup {i} |->
         IF j = i THEN [named |-> old.named \/ e.n = 1, args |-> Append(old.args, e.n)]
         ELSE calls[j]]

\* mergeOpenAIChatStreamToolCall: the first fragment carries the name.
MergeCall(calls, e) ==
  LET old == IF e.index \in DOMAIN calls THEN calls[e.index]
             ELSE [named |-> FALSE, args |-> <<>>]
  IN  [i \in DOMAIN calls \cup {e.index} |->
         IF i = e.index
         THEN [named |-> old.named \/ e.n = 1, args |-> Append(old.args, e.n)]
         ELSE calls[i]]

\* The place of an index among those of a set.
Place(i, S) == Cardinality({j \in S : j <= i})

\* orderedOpenAIStreamToolCalls: by index.
OrderedCalls(calls) ==
  [k \in 1 .. Cardinality(DOMAIN calls) |->
     calls[CHOOSE i \in DOMAIN calls : Place(i, DOMAIN calls) = k]]

\* Content that is neither text nor a list of parts is passed over: OTHER.
ChatStep(acc, e) ==
  CASE e.type = "done" -> [acc EXCEPT !.completion = "completed"]
    [] e.type = "bad"  -> RecordParseError(acc)
    [] e.type = "text" -> [acc EXCEPT !.text = Append(@, e.n)]
    [] e.type = "call" -> [acc EXCEPT !.calls = MergeCall(@, e)]
    [] OTHER           -> acc

\* Only response.completed brings tool calls; its text is used when no piece
\* was read before.
ResponsesStep(acc, e) ==
  CASE e.type = "done"                  -> [acc EXCEPT !.completion = "completed"]
    [] e.type \in {"bad", "garbledEnd"} -> RecordParseError(acc)
    [] e.type = "text"                  -> [acc EXCEPT !.text = Append(@, e.n)]
    [] e.type = "completed" ->
         [acc EXCEPT !.text = IF @ = <<>> THEN UpTo(meant.text) ELSE @,
                     !.calls = MeantCalls,
                     !.parseErr = @ \/ meant = NothingSent,
                     !.completion = "completed"]
    [] e.type = "failed"                -> [acc EXCEPT !.completion = "error"]
    [] OTHER                            -> acc

\* What does not begin as an object is passed over with a response_field, and
\* without one all that has no text is text itself.
PassedOver == {"odd"}
TakenAsText == IF kind = "bareHttp" THEN {"bad", "odd", "other", "failed"} ELSE {}

\* Mutant: an event without text is not counted.
HttpStepUncounted(acc, e) ==
  CASE e.type = "text"         -> [acc EXCEPT !.text = Append(@, e.n)]
    [] e.type \in TakenAsText  -> [acc EXCEPT !.text = Append(@, Junk)]
    [] OTHER                   -> acc

\* collectHTTPStreamText: an object without text is an error too.
HttpStep(acc, e) ==
  CASE e.type = "text"        -> [acc EXCEPT !.text = Append(@, e.n)]
    [] e.type \in TakenAsText -> [acc EXCEPT !.text = Append(@, Junk)]
    [] e.type \in {"bad", "other", "failed"} \ TakenAsText -> [acc EXCEPT !.errors = @ + 1]
    [] OTHER                  -> acc

\* What the loop of the target in use makes of an event.
Step(acc, e) ==
  CASE kind = "chat" -> ChatStep(acc, e)
    [] kind = "responses" -> ResponsesStep(acc, e)
    [] OTHER -> HttpStep(acc, e)

LastIn(ks) == {k \in ks : \A j \in ks : j <= k}

\* Mutant: a stream that ends without a mark counts as complete.
StateOfLastMarkOptimistic(completing, failing) ==
  LET marks == {k \in DOMAIN events : events[k].type \in completing \cup failing}
  IN  IF \A k \in LastIn(marks) : events[k].type \in completing THEN "completed" ELSE "error"

\* fallbackOpenAIStreamCompletionState and httpStreamCompletionState
StateOfLastMark(completing, failing) ==
  LET marks == {k \in DOMAIN events : events[k].type \in completing \cup failing}
  IN  IF marks = {} THEN "eof"
      ELSE IF \E k \in LastIn(marks) : events[k].type \in completing THEN "completed" ELSE "error"

ChatCompletion(acc) ==
  IF acc.completion # "" THEN acc.completion ELSE StateOfLastMark({"done"}, {})

ResponsesCompletion(acc) ==
  IF acc.completion # "" THEN acc.completion
  ELSE StateOfLastMark({"done", "completed", "garbledEnd", "headEnd"}, {"failed"})

HttpCompletion ==
  IF events = <<>> THEN "" ELSE StateOfLastMark({"done"}, {"failed"})

Response(err, extractErr, text, calls, completion, errors) ==
  [err |-> err, extractErr |-> extractErr, text |-> text, calls |-> calls,
   completion |-> completion, errors |-> errors,
   recovered |-> completion = "completed" /\ errors > 0]

Broken == Response(TRUE, FALSE, <<>>, <<>>, "", IF streamed THEN 1 ELSE 0)

\* An OpenAI or Anthropic response of status 400 and above is an error.
StatusIsError == ~IsHttp /\ status >= 400

\* invokeStream
StreamResponse ==
  IF IsHttp
  THEN Response(FALSE, FALSE, parsed.text, <<>>, HttpCompletion, parsed.errors)
  ELSE LET calls == OrderedCalls(parsed.calls)
           nothing == parsed.text = <<>> /\ calls = <<>>
       IN  Response(StatusIsError, ~StatusIsError /\ (parsed.parseErr \/ nothing),
                    parsed.text, calls,
                    IF kind = "chat" THEN ChatCompletion(parsed) ELSE ResponsesCompletion(parsed),
                    parsed.errors)

\* One body.  The HTTP target takes one that does not decode as the text, and
\* what it reports of a stream behind it is left out; the others find an error
\* only when there is neither text nor a tool call.
BodyResponse ==
  LET body == Head(events).type
      text == CASE body \in {"whole", "raw", "oddCalls"} -> UpTo(meant.text)
                [] body = "bad" /\ IsHttp -> <<Junk>>
                [] OTHER -> <<>>
      calls == IF body \in {"whole", "missing"} THEN OrderedCalls(MeantCalls) ELSE <<>>
      missing == IF IsHttp THEN body = "missing" ELSE text = <<>> /\ calls = <<>>
  IN  Response(StatusIsError, ~StatusIsError /\ missing, text, calls, "", 0)

-----------------------------------------------------------------------------
Init ==
  /\ kind \in {"chat", "responses", "http", "bareHttp", "anthropic"}
  /\ streamed \in (IF kind = "anthropic" THEN {FALSE} ELSE BOOLEAN)
  /\ status \in {200, 500}
  /\ meant \in {a \in Answers : IsHttp /\ streamed => a.calls = NothingSent.calls}
  /\ sent = NothingSent
  /\ ending = "no"
  /\ conn = "open"
  /\ events = <<>>
  /\ parsed = Blank
  /\ result = Nothing

Noise ==
  Cardinality({k \in DOMAIN events : events[k].type \in {"bad", "odd", "other", "garbledEnd"}})
Garbled(types, n) == IF Noise < MaxNoise THEN {Event(type, 0, n) : type \in types} ELSE {}

\* What may become of content; the Responses API has no content of another form.
Damaged == IF kind = "responses" THEN {"bad"} ELSE {"bad", "odd"}

Streaming == streamed /\ conn = "open"

Arrive(e) == events' = Append(events, e) /\ parsed' = Step(parsed, e)

\* The server sends the next piece of text, ...
SendText ==
  /\ Streaming /\ ending = "no" /\ sent.text < meant.text
  /\ sent' = [sent EXCEPT !.text = @ + 1]
  /\ \E e \in {Event("text", 0, sent.text + 1)} \cup Garbled(Damaged, sent.text + 1) : Arrive(e)
  /\ UNCHANGED <<kind, streamed, status, meant, ending, conn, result>>

\* ... the next fragment of a tool call, in a chat stream only, ...
SendCall(i) ==
  /\ Streaming /\ ending = "no" /\ kind = "chat" /\ sent.calls[i] < meant.calls[i]
  /\ sent' = [sent EXCEPT !.calls[i] = @ + 1]
  /\ \E e \in {Event("call", i, sent.calls[i] + 1)} \cup Garbled({"bad"}, 0) : Arrive(e)
  /\ UNCHANGED <<kind, streamed, status, meant, ending, conn, result>>

\* ... something without content, ...
SendOther ==
  /\ Streaming /\ ending = "no"
  /\ \E e \in Garbled({"other"} \cup Damaged, 0) : Arrive(e)
  /\ UNCHANGED <<kind, streamed, status, meant, sent, ending, conn, result>>

AllSent == sent.text = meant.text /\ (kind = "chat" => sent.calls = meant.calls)

\* ... its end mark, ...
Finish ==
  /\ Streaming /\ ending = "no" /\ AllSent
  /\ ending' = "finished"
  /\ \E e \in IF kind = "responses" THEN {Mark("completed")} \cup Garbled({"garbledEnd"}, 0)
              ELSE {Mark("done")} : Arrive(e)
  /\ UNCHANGED <<kind, streamed, status, meant, sent, conn, result>>

\* ... an error, ...
Fail ==
  /\ Streaming /\ ending = "no"
  /\ ending' = "failed"
  /\ Arrive(Mark("failed"))
  /\ UNCHANGED <<kind, streamed, status, meant, sent, conn, result>>

\* ... and, as gateways do, [DONE] behind either.
SendDone ==
  /\ Streaming /\ ending # "no" /\ Last(events).type # "done"
  /\ Arrive(Mark("done"))
  /\ UNCHANGED <<kind, streamed, status, meant, sent, ending, conn, result>>

\* The body that is no stream arrives.  Without a response_field no object has
\* the text, and plain text has no tool calls.
Bodies ==
  {"bad", "missing"} \cup (IF kind = "bareHttp" THEN {} ELSE {"whole"})
    \cup (IF kind = "http" THEN {"oddCalls"} ELSE {})
    \cup (IF IsHttp /\ meant.calls = NothingSent.calls THEN {"raw"} ELSE {})

SendBody ==
  /\ ~streamed /\ conn = "open"
  /\ \E body \in Bodies : events' = <<Mark(body)>>
  /\ conn' = "eof"
  /\ UNCHANGED <<kind, streamed, status, meant, sent, ending, parsed, result>>

\* The connection ends between two events, ...
Close ==
  /\ Streaming
  /\ conn' = "eof"
  /\ UNCHANGED <<kind, streamed, status, meant, sent, ending, events, parsed, result>>

\* ... within one, which parseSSEStream still takes as an event, ...
Cut ==
  /\ Streaming /\ ending = "no"
  /\ \E type \in {"bad", "empty"} \cup (IF IsHttp THEN {"odd"} ELSE {}) \cup
                 (IF kind = "responses" /\ AllSent THEN {"garbledEnd", "headEnd"} ELSE {}) : Arrive(Mark(type))
  /\ conn' = "eof"
  /\ UNCHANGED <<kind, streamed, status, meant, sent, ending, result>>

\* ... or with an error of the transport.
Break ==
  /\ conn = "open"
  /\ conn' = "broken"
  /\ UNCHANGED <<kind, streamed, status, meant, sent, ending, events, parsed, result>>

\* The target has read to the end.
Assemble ==
  /\ conn # "open" /\ result = Nothing
  /\ result' = IF conn = "broken" THEN Broken
               ELSE IF streamed THEN StreamResponse ELSE BodyResponse
  /\ UNCHANGED <<kind, streamed, status, meant, sent, ending, conn, events, parsed>>

Next ==
  \/ SendText \/ (\E i \in Indices : SendCall(i)) \/ SendOther \/ Finish \/ Fail \/ SendDone
  \/ SendBody \/ Close \/ Cut \/ Break \/ Assemble

Spec == Init /\ [][Next]_vars

-----------------------------------------------------------------------------
Assembled == result # Nothing /\ ~result.err

\* responseFindings: an extraction error counts when there is no tool call.
HasFindings ==
  result.err \/ status >= 400 \/ (result.extractErr /\ result.calls = <<>>)

Arrived(type) == \E k \in DOMAIN events : events[k].type = type

\* The server reported an error and still sent the mark of a complete stream:
\* the targets believe the mark.
FailureIsOverridden == ending = "failed" /\ Arrived("done")

\* response.completed was cut after its name: the state comes from the name,
\* the tool calls would have come from the data.
EndWithoutData == Arrived("headEnd")

\* The numbers of the events of some types, of the pieces, and of the fragments
\* of a call, that arrived.
Numbers(types) == {events[k].n : k \in {j \in DOMAIN events : events[j].type \in types}}
Pieces == Numbers({"text"})
Fragments(i) ==
  {events[k].n : k \in {j \in DOMAIN events : events[j].type = "call" /\ events[j].index = i}}

\* The sequence has the numbers of the set in their order; junk may be anywhere.
InOrder(s, S) ==
  /\ {s[k] : k \in DOMAIN s} = S
  /\ \A j, k \in DOMAIN s : j < k /\ s[k] # Junk => s[j] < s[k]

\* The pieces that are gone without a trace: an event that was passed over or
\* taken as text, and a body without its text, to which responseFindings does
\* not object when there is a tool call.
LostInSilence ==
  IF streamed THEN Numbers(PassedOver \cup TakenAsText)
  ELSE IF Arrived("missing") \/ Arrived("bad") THEN 1 .. meant.text ELSE {}

\* Data that did not decode and is in the text as it came.
JunkTaken ==
  IF \/ streamed /\ \E type \in TakenAsText : Arrived(type)
     \/ ~streamed /\ IsHttp /\ Arrived("bad")
  THEN {Junk} ELSE {}

\* The tool calls of a body are gone with what does not decode.
CallsLostInSilence == ~streamed /\ (Arrived("oddCalls") \/ Arrived("bad"))

\* An answer in which the suites find nothing, and whose stream is complete
\* without an error, is the answer of the agent, every piece and every tool
\* call with all its arguments in order, except for exactly what the targets
\* lose or take for text without counting it: nothing that was counted, cut or
\* interleaved is missing from it (parseOpenAIChatStream,
\* parseOpenAIResponsesStream, collectHTTPStreamText,
\* shouldCountHTTPStreamParseError, extractResponseField).
CleanAnswerIsWhole ==
  /\ Assembled /\ ~HasFindings /\ ~FailureIsOverridden /\ ~EndWithoutData
  /\ streamed => result.completion = "completed" /\ result.errors = 0
  => /\ InOrder(result.text, (1 .. meant.text \ LostInSilence) \cup JunkTaken)
     /\ result.calls = IF CallsLostInSilence THEN <<>> ELSE OrderedCalls(MeantCalls)

\* Whatever is lost, the rest is in place: the text is the pieces that arrived
\* in their order, and every tool call of a chat stream, in the order of the
\* indices, has the fragments of its own that arrived in their order, however
\* the calls were interleaved (mergeOpenAIChatStreamToolCall).
ArrivedIsInPlace ==
  Assembled /\ streamed =>
    /\ \/ InOrder(result.text, Pieces \cup JunkTaken)
       \/ kind = "responses" /\ Pieces = {} /\ Arrived("completed")
    /\ kind = "chat" =>
         LET used == {i \in Indices : Fragments(i) # {}}
         IN  /\ Len(result.calls) = Cardinality(used)
             /\ \A i \in used :
                  LET call == result.calls[Place(i, used)]
                  IN  InOrder(call.args, Fragments(i)) /\ (call.named <=> 1 \in Fragments(i))

\* A stream counts as completed only when the server had sent the whole
\* answer before it ended: one that was cut or that failed never does
\* (fallbackOpenAIStreamCompletionState, httpStreamCompletionState).
CompletedMeansAllSent ==
  Assembled /\ streamed /\ result.completion = "completed" /\ ~FailureIsOverridden
    => AllSent /\ ending # "failed"

=============================================================================
