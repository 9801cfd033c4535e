-------------------------- MODULE MCJudgingInputs ---------------------------
\* What the modules of the engines are checked with: settings of the judge,
\* policies and traces, answers and assertions, sessions of a memory replay.
EXTENDS Integers, Sequences, JsonValues

CONSTANTS a, b, c1, c2, s1, s2, s3, k1, k2, me, you, NoName

-----------------------------------------------------------------------------
\* ShadowState: two scenarios, the first of which is to create a; b is out of
\* bounds.
MCPaths == <<a, b>>
MCExpected == <<{[path |-> a, kind |-> "created", contains |-> c1]}, {}>>

-----------------------------------------------------------------------------
\* JudgeVerdict: scores around the minimum of 600 of 1000, one and two judges,
\* odd and even numbers of samples, and all the gates.
JudgeSetting ==
  [mode |-> "score", samples |-> 2, judges |-> 1, scale |-> 5, minScore |-> 600,
   maxDisagreement |-> 400, minPassRate |-> 0, maxFlakeRate |-> 0, cascadeMargin |-> 0,
   minWinRate |-> 500, says |-> {1, 3, 4, 7}]

MCSettings ==
  {[JudgeSetting EXCEPT !.samples = 3],
   [JudgeSetting EXCEPT !.judges = 2, !.cascadeMargin = 200],
   [JudgeSetting EXCEPT !.samples = 3, !.minPassRate = 5, !.maxFlakeRate = 300,
                        !.maxDisagreement = 0, !.says = {1, 3, 5}],
   [JudgeSetting EXCEPT !.mode = "pairwise"],
   [JudgeSetting EXCEPT !.mode = "pairwise", !.samples = 1, !.judges = 3],
   [JudgeSetting EXCEPT !.mode = "pairwise", !.samples = 3, !.minWinRate = 667]}

-----------------------------------------------------------------------------
\* TraceEvidence: three release policies with every kind of rule and mode, and
\* one of two expected changes, the first of which also matches the second.
TraceRule(type, mode) ==
  [type |-> type, mode |-> mode, tools |-> {"shell"}, trusts |-> {"untrusted"},
   where |-> [kind |-> "db"]]
WebPage == [kind |-> "web", trust |-> "untrusted", name |-> "page"]
Approval == [kind |-> "approval", trust |-> "approved", name |-> "ok"]
NoPolicy ==
  [rules |-> {}, sources |-> {}, expected |-> <<>>, privileged |-> {},
   approvalRequired |-> {}, sinks |-> {}]

MCPolicies ==
  {[NoPolicy EXCEPT !.rules = {TraceRule("tool", "deny"), TraceRule("state_change", "require_approval")},
                    !.sources = {WebPage}, !.privileged = {"shell"}],
   [NoPolicy EXCEPT !.rules = {TraceRule("tool", "allow"), TraceRule("tool", "read_only"),
                               TraceRule("state_change", "allow"), TraceRule("sink", "approved_only")},
                    !.approvalRequired = {"mail"}, !.sinks = {"mail"}, !.sources = {WebPage, Approval}],
   [NoPolicy EXCEPT !.rules = {TraceRule("trust", "require_approval"), TraceRule("tool", "require_approval"),
                               TraceRule("state_change", "deny")},
                    !.sources = {WebPage}, !.approvalRequired = {"mail"}],
   [NoPolicy EXCEPT !.expected = <<[kind |-> "db"], [kind |-> "db", target |-> "x"]>>]}

MCToolUses ==
  {[tool |-> "shell", says |-> {"select"}],
   [tool |-> "shell", says |-> {"select", "insert", "secret"}],
   [tool |-> "mail", says |-> {"canary"}]}
MCChanges ==
  {[kind |-> "db", action |-> "create", target |-> "x"],
   [kind |-> "db", action |-> "modified", target |-> "y"]}
MCApprovals ==
  {[status |-> "approved", named |-> FALSE], [status |-> "", named |-> TRUE],
   [status |-> "rejected", named |-> TRUE]}
MCPhrases ==
  {[says |-> "according to", of |-> ""], [says |-> "name", of |-> "page"],
   [says |-> "ran", of |-> "shell"], [says |-> "was approved", of |-> ""],
   [says |-> "did", of |-> "created"], [says |-> "did", of |-> "wrote"],
   [says |-> "canary", of |-> ""]}

-----------------------------------------------------------------------------
\* MemorySafety: three sessions of one user with a stale source of theirs and
\* a source of another that carries a canary; three of several users, the first
\* and the last of one name; a single step without a session.
Source(trust, marks, user, quotes) ==
  [trust |-> trust, marks |-> marks, user |-> user, quotes |-> quotes]
Harmless == Source("trusted", {}, NoName, {})
MemoryStep(name, session, user, sources) ==
  [name |-> name, session |-> session, user |-> user, sources |-> sources]

MCReplays ==
  {<<MemoryStep(NoName, s1, me, <<Source("trusted", {"stale"}, me, {}), Harmless>>),
     MemoryStep(NoName, s2, me, <<Harmless>>),
     MemoryStep(NoName, s3, me, <<Source("trusted", {}, you, {<<s1, 1>>})>>)>>,
   <<MemoryStep(s1, s1, NoName, <<Source("untrusted", {}, NoName, {})>>),
     MemoryStep(NoName, s2, me, <<Source("trusted", {"revoked"}, you, {})>>),
     MemoryStep(s1, s3, you, <<Source("trusted", {"stale"}, NoName, {})>>)>>,
   <<MemoryStep(NoName, NoName, me, <<Source("trusted", {"poisoned"}, NoName, {})>>)>>}

MemoryOp(action, key, value, session, user) ==
  [action |-> action, key |-> key, value |-> value, session |-> session, user |-> user]

MCMemoryOps ==
  {MemoryOp("write", k1, {<<s1, 1>>}, NoName, NoName), MemoryOp("write", k1, {<<s1, 1>>}, s2, me),
   MemoryOp("write", k2, {<<s2, 1>>}, NoName, NoName), MemoryOp("read", k1, {}, NoName, NoName),
   MemoryOp("read", k1, {}, s1, you), MemoryOp("read", k2, {}, s3, NoName)}

-----------------------------------------------------------------------------
\* Assertions: bodies of every JSON type, up to two tool calls, streams that
\* were slow, quick or none; four scenarios for the texts, the schemas, the
\* tool calls and the streams.
ToolCall(name, args) == [name |-> name, args |-> args]
AnswerOf(text, body, calls, stream) ==
  [text |-> text, body |-> body, status |-> 200, exit |-> 0, finish |-> {"stop"}, latency |-> 3, calls |-> calls,
   chunks |-> stream[1], ttft |-> stream[2], duration |-> stream[3]]

MCAnswers ==
  {AnswerOf(text, body, calls, stream) :
     text \in SUBSET {"ok", "no"},
     body \in {Null, Text({"ok"}), Num(3), List(<<Num(1), Num(9)>>), Object([a |-> Num(1), b |-> Null]),
               Object([a |-> Text({"ok"})]), Object([a |-> List(<<Object([b |-> Num(2)])>>)])},
     calls \in {<<>>, <<ToolCall("find", Null)>>,
                <<ToolCall("find", Object([a |-> Num(1)])), ToolCall("send", Null)>>,
                <<ToolCall("send", Object([b |-> Num(1)])), ToolCall("find", Null)>>},
     stream \in {<<0, 0, 0>>, <<1, 2, 2>>, <<3, 2, 8>>, <<3, 9, 8>>}}

AtText == <<"response", "text">>
AtBody == <<"response", "body">>
AtMember == <<"response", "body", "a">>
Says(type, path, word) == [type |-> type, path |-> path, word |-> word]
Counts(type, int) == [type |-> type, int |-> int]
Orders(names) == [type |-> "tool_call_order", names |-> names]
Fits(schema) == [type |-> "json_schema", path |-> AtBody, schema |-> schema]
Asserting(assertions) == [assertions |-> assertions, expected |-> <<>>, forbidden |-> <<>>]

AnObject == [type |-> "object"]
AnObjectWithA == [type |-> "object", required |-> {"a"}]
APositiveA == [type |-> "object", required |-> {"a"}, properties |-> [a |-> [minimum |-> 1]]]
NotEmpty == [minItems |-> 1]
OnesAndNines == [minItems |-> 1, items |-> [enum |-> {Num(1), Num(9)}], type |-> "array"]

MCScenarios ==
  {[assertions |->
      <<Says("json_path", AtText, "ok"), Says("regex", AtText, "ok"), Says("contains", AtMember, "ok"),
        Says("not_contains", AtMember, "ok"), Says("json_path", AtMember, "ok"),
        Counts("status_code", 200), Counts("exit_code", 0), Counts("latency_ms", 2), Says("finish_reason", AtText, "stop")>>,
    expected |-> <<"ok">>, forbidden |-> <<"ok", "no">>],
   Asserting(<<Fits(AnObject), Fits(AnObjectWithA), Fits(APositiveA), Fits(NotEmpty), Fits(OnesAndNines)>>),
   Asserting(
      <<Says("tool_call_name", AtText, "find"), Says("stream_tool_call_name", AtText, "find"),
        Orders(<<"find", "send">>), Orders(<<"find">>),
        Counts("tool_call_count", 0), Counts("tool_call_count", 1), Counts("tool_call_count", 2),
        [type |-> "tool_call_arguments_schema", path |-> <<"response", "tool_calls", "1">>, schema |-> AnObject]>>),
   Asserting(
      <<Counts("stream_ttft_ms", 2), Counts("stream_ttft_ms", 5), Counts("stream_duration_ms", 2),
        Counts("stream_duration_ms", 9), Counts("stream_chunk_cadence_ms", 3)>>)}
=============================================================================
