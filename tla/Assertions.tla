----------------------------- MODULE Assertions -----------------------------
(***************************************************************************)
(* The assertions of a scenario (cleanr/engines/assertions.go): an answer is  *)
(* made into a tree that paths lead through, and every assertion is held      *)
(* against the tree or the answer, one after the other.                       *)
(***************************************************************************)
EXTENDS Integers, Sequences, FiniteSets, Functions, JsonValues

CONSTANTS Answers,   \* the responses of the target
          Scenarios  \* [assertions, expected, forbidden]

\* The types of the Go structs.
AssertionsAssumption ==
  /\ \A s \in Scenarios :
       /\ s.assertions \in Seq(Range(s.assertions))
       /\ s.expected \in Seq(Range(s.expected)) /\ s.forbidden \in Seq(Range(s.forbidden))
       /\ \A a \in Range(s.assertions) :
            /\ a.type \in {"stream_ttft_ms", "stream_duration_ms"} => a.int \in Int
            /\ a.type = "tool_call_arguments_schema" => a.path \in Seq(Range(a.path))
  /\ \A r \in Answers : r.calls \in Seq(Range(r.calls)) /\ r.ttft \in Int /\ r.duration \in Int

VARIABLES scenario, answer, next, findings
vars == <<scenario, answer, next, findings>>

-----------------------------------------------------------------------------
\* buildAssertionView, the members that differ: an empty or garbled body is null, arguments that do not
\* parse are no member.
buildAssertionView(resp) ==
  LET call(c) == NonZero([name |-> Text({c.name}), parsed_arguments |-> c.args])
  IN  Object([response |-> Object(
        [text |-> Text(resp.text), body |-> resp.body, status_code |-> Num(resp.status), exit_code |-> Num(resp.exit),
         finish_reason |-> Text(resp.finish), tool_call_count |-> Num(Len(resp.calls)),
         stream |-> NonZero([ttft_ms |-> Num(resp.ttft), duration_ms |-> Num(resp.duration),
                             chunk_count |-> Num(resp.chunks)]),
         tool_calls |-> IF resp.calls = <<>> THEN Null
                        ELSE List([i \in DOMAIN resp.calls |-> call(resp.calls[i])])])])

resolveAssertionPath(root, path) ==
  LET at[k \in 0 .. Len(path)] ==
        IF k = 0 THEN root
        ELSE IF path[k] \in Members(at[k - 1]) THEN at[k - 1].of[path[k]] ELSE Missing
  IN  at[Len(path)]

-----------------------------------------------------------------------------
(* Schemas: functions from the keywords that are given.                      *)
Given(schema, keyword) == keyword \in DOMAIN schema

\* validateJSONSchemaRequired and AdditionalProperties.
MembersFit(v, schema) ==
  /\ Given(schema, "required") => schema.required \subseteq Members(v)
  /\ Given(schema, "closed") => Members(v) \subseteq (IF Given(schema, "properties") THEN DOMAIN schema.properties ELSE {})

\* The bounds of numbers, texts and lists hold only for values of their type.
BoundsFit(v, schema) ==
  \A k \in {"minimum", "maximum", "minLength", "maxLength", "minItems", "maxItems"} \cap DOMAIN schema :
    /\ k = "minimum" /\ v.t = "number" => v.n >= schema[k]
    /\ k = "maximum" /\ v.t = "number" => v.n <= schema[k]
    /\ k = "minLength" /\ v.t = "string" => v.n >= schema[k]
    /\ k = "maxLength" /\ v.t = "string" => v.n <= schema[k]
    /\ k = "minItems" /\ v.t = "array" => v.n >= schema[k]
    /\ k = "maxItems" /\ v.t = "array" => v.n <= schema[k]

\* What validateJSONSchema demands of a value itself.  A null const and an
\* empty enum say nothing; no value is of type "integer".
ValueFits(v, schema) ==
  /\ Given(schema, "type") => v.t = schema.type
  /\ Given(schema, "const") => schema.const = Null \/ v = schema.const
  /\ Given(schema, "enum") => schema.enum = {} \/ v \in schema.enum
  /\ BoundsFit(v, schema)
  /\ v.t = "object" => MembersFit(v, schema)

\* What it is called for next: the items of a list and the properties of an
\* object, each with the schema it has to fit.
FurtherChecks(check) ==
  LET v == check[1]
      schema == check[2]
      ofList == IF v.t = "array" /\ Given(schema, "items") THEN Members(v) ELSE {}
      ofObject == IF v.t = "object" /\ Given(schema, "properties")
                  THEN Members(v) \cap DOMAIN schema.properties ELSE {}
  IN  {<<v.of[i], schema.items>> : i \in ofList}
      \cup {<<v.of[key], schema.properties[key]>> : key \in ofObject}

validateJSONSchema(v, schema) ==
  \A check \in Within({<<v, schema>>}, FurtherChecks) : ValueFits(check[1], check[2])

-----------------------------------------------------------------------------
(* Assertions: what an answer must be for each type.                         *)
At(a, resp) == resolveAssertionPath(buildAssertionView(resp), a.path)
HasWord(a, resp) == At(a, resp) # Missing /\ a.word \in Words(At(a, resp))
IsWord(v, word) == v.t = "string" /\ v.has = {word}
Called(name, resp) == \E i \in DOMAIN resp.calls : resp.calls[i].name = name

\* Mutant: the names are in order, whatever else was called.
OrderOfCalledNames(a, resp) ==
  LET asked == SelectSeq(resp.calls, LAMBDA c : c.name \in Range(a.names))
  IN  [i \in DOMAIN asked |-> asked[i].name] = a.names

OrderMatches(a, resp) == [i \in DOMAIN resp.calls |-> resp.calls[i].name] = a.names

\* An answer without a duration or a first chunk has no timing.
StreamWithin(measured, limit) == measured # 0 /\ measured <= limit

CadenceFits(resp, limit) ==
  /\ resp.chunks >= 2 /\ resp.duration # 0 /\ resp.ttft # 0
  /\ LET gap == resp.duration - resp.ttft
     IN  (IF gap < 0 THEN 0 ELSE gap) \div (resp.chunks - 1) <= limit

\* The parsed arguments of a call, the whole call when they do not parse.
ArgumentsFit(a, resp) ==
  LET v == At(a, resp)
  IN  /\ v # Missing
      /\ validateJSONSchema(IF "parsed_arguments" \in Members(v) THEN v.of["parsed_arguments"] ELSE v, a.schema)

\* assertionEvaluators.
Holds(a, resp) ==
  CASE a.type = "contains" -> HasWord(a, resp)
    [] a.type = "not_contains" -> ~HasWord(a, resp)
    [] a.type = "regex" -> At(a, resp) # Missing /\ a.word \in Words(At(a, resp))
    [] a.type = "json_path" -> At(a, resp) # Missing /\ (a.word = "" \/ IsWord(At(a, resp), a.word))
    [] a.type = "json_schema" -> At(a, resp) # Missing /\ validateJSONSchema(At(a, resp), a.schema)
    [] a.type = "status_code" -> resp.status = a.int
    [] a.type = "exit_code" -> resp.exit = a.int
    [] a.type = "latency_ms" -> resp.latency <= a.int
    [] a.type = "stream_ttft_ms" -> StreamWithin(resp.ttft, a.int)
    [] a.type = "stream_duration_ms" -> StreamWithin(resp.duration, a.int)
    [] a.type = "stream_chunk_cadence_ms" -> CadenceFits(resp, a.int)
    [] a.type = "finish_reason" -> resp.finish = {a.word}
    [] a.type = "tool_call_count" -> Len(resp.calls) = a.int
    [] a.type = "tool_call_name" -> Called(a.word, resp)
    [] a.type = "stream_tool_call_name" -> resp.chunks # 0 /\ Called(a.word, resp)
    [] a.type = "tool_call_order" -> OrderMatches(a, resp)
    [] a.type = "tool_call_arguments_schema" -> ArgumentsFit(a, resp)
    [] OTHER -> TRUE

\* scenarioAssertions: the phrases of a scenario come after its assertions.
Phrase(type, words) == [i \in DOMAIN words |-> [type |-> type, path |-> <<"response", "text">>, word |-> words[i]]]
scenarioAssertions(s) == s.assertions \o Phrase("contains", s.expected) \o Phrase("not_contains", s.forbidden)

-----------------------------------------------------------------------------
Init ==
  /\ scenario \in Scenarios /\ answer \in Answers
  /\ next = 1 /\ findings = {}

\* One round of the loop of evaluateScenarioAssertions.
Evaluate ==
  LET asked == scenarioAssertions(scenario)
  IN  /\ next <= Len(asked)
      /\ next' = next + 1
      /\ findings' = IF Holds(asked[next], answer) THEN findings ELSE findings \cup {next}
      /\ UNCHANGED <<scenario, answer>>

Next == Evaluate
Spec == Init /\ [][Next]_vars

-----------------------------------------------------------------------------
\* A schema that only adds keywords to another (closing it aside).
Narrows(schema, other) ==
  /\ DOMAIN other \subseteq DOMAIN schema \ {"closed"}
  /\ \A keyword \in DOMAIN other : schema[keyword] = other[keyword]

\* What a passed assertion says about another one of the scenario.
Implies(a, b) ==
  \/ a.type = "stream_tool_call_name" /\ b.type = "tool_call_name" /\ a.word = b.word
  \/ a.type = "tool_call_order" /\ b.type = "tool_call_name" /\ b.word \in Range(a.names)
  \/ a.type = "tool_call_order" /\ b.type = "tool_call_count" /\ b.int = Len(a.names)
  \/ a.type = "json_path" /\ b.type \in {"contains", "regex"} /\ a.path = b.path /\ a.word = b.word /\ a.word # ""
  \/ a.type = "json_schema" /\ b.type = "json_schema" /\ a.path = b.path /\ Narrows(a.schema, b.schema)
  \/ a.type \in {"stream_ttft_ms", "stream_duration_ms"} /\ b.type = a.type /\ a.int <= b.int

\* A path into one of the tool calls.
ToACall(path) == Len(path) >= 3 /\ path[1] = "response" /\ path[2] = "tool_calls"

Excludes(a, b) ==
  \/ a.type = "contains" /\ b.type = "not_contains" /\ a.path = b.path /\ a.word = b.word
  \/ a.type = "tool_call_order" /\ b.type = "tool_call_count" /\ b.int # Len(a.names)
  \/ a.type = "tool_call_arguments_schema" /\ b.type = "tool_call_count" /\ b.int = 0 /\ ToACall(a.path)

\* The verdicts on one answer do not contradict each other: assertions of
\* different types that demand the same agree (a streamed call is a call, an
\* order is a number of calls and their names, a value at a path is contained
\* there, a narrower schema or limit accepts less), and those that demand
\* opposite things never both pass, whatever of the answer is missing, null or
\* garbled.
AssertionsAgree ==
  LET asked == scenarioAssertions(scenario)
  IN  next > Len(asked) =>
        \A i, j \in DOMAIN asked :
          /\ Implies(asked[i], asked[j]) => (i \in findings \/ j \notin findings)
          /\ Excludes(asked[i], asked[j]) => i \in findings \/ j \in findings
          /\ asked[i].type = "contains" /\ asked[j].type = "not_contains"
               /\ asked[i].path = asked[j].path /\ asked[i].word = asked[j].word
               => (i \in findings) # (j \in findings)

=============================================================================
