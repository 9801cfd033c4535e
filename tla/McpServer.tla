----------------------------- MODULE McpServer -----------------------------
(***************************************************************************)
(* cleanr as an MCP server (internal/mcpserver): one loop reads a line of    *)
(* JSON-RPC, handles it to the end, writes the answer and reads the next.     *)
(* The client writes lines whenever it likes, closes its end, possibly in the *)
(* middle of a line, or stops reading the answers.                            *)
(***************************************************************************)
EXTENDS Naturals, Sequences

CONSTANTS Lines,       \* bound: how many lines the client sends
          ExecAllowed, \* CLEANR_MCP_ALLOW_EXEC
          NoId, Nothing, ToolCall

VARIABLES sent,        \* the complete lines the client has written
          open,        \* the client has not closed its end
          read,        \* how many lines the server has taken
          handling,    \* Nothing, ToolCall or the answer about to be written
          initialized, \* Server.initialized
          answers,     \* what the server has written
          verdicts,    \* [lines whose tool ran suites -> report.Passed]
          status       \* "serving", "ended" or "failed": what Serve returned

vars == <<sent, open, read, handling, initialized, answers, verdicts, status>>

\* A line: its kind, its id, and for tools/call the tool and the configuration
\* it is called with; undecodable arguments name none.  A line that is not
\* JSON has no id.
Plain == {"blank", "garbage", "version", "initialize", "badInitialize", "initialized",
          "notification", "ping", "list", "unknown", "badCall"}
handlers == {"cleanr_run", "cleanr_generate_dataset", "cleanr_validate_config", "cleanr_render_report"}
Configs == {"undecodable", "invalid", "executes", "plain"}
LineOf(kind, id, tool, cfg) == [kind |-> kind, id |-> id, tool |-> tool, cfg |-> cfg]

NewLines(n) ==
  {LineOf(kind, NoId, Nothing, Nothing) : kind \in
     {"blank", "garbage", "notification", "initialize", "initialized", "ping", "list"}}
  \cup {LineOf(kind, n, Nothing, Nothing) : kind \in Plain \ {"blank", "garbage", "notification"}}
  \cup {LineOf("call", n, tool, "plain") : tool \in handlers \cup {"nosuch"}}
  \cup {LineOf("call", n, "cleanr_run", cfg) : cfg \in Configs}
  \cup {LineOf("call", n, "cleanr_generate_dataset", "executes")}

\* An answer has a result or the code of an error.
Codes == {"ok", "parse", "request", "params", "method", "server", "internal"}
AnswerRecords == [id : Nat \cup {NoId}, code : Codes, exit : {Nothing, 0, 1, 2}]

ServerAssumption ==
  /\ Lines \in Nat /\ ExecAllowed \in BOOLEAN
  /\ NoId \notin Nat /\ Nothing \notin Nat
  /\ ToolCall # Nothing /\ {Nothing, ToolCall} \cap AnswerRecords = {}

Answer(id, code) == [id |-> id, code |-> code, exit |-> Nothing]
Success == "ok"

\* GuardMCPConfig: a cli target or a plugin runs code of the configuration.
GuardMCPConfig(cfg) == ExecAllowed \/ cfg # "executes"

\* requireInitialized.
Session(id, answer) == IF initialized THEN answer ELSE Answer(id, "server")

\* Mutant: every notification is answered, like a request without an id.
HandleRequestAlways(line) ==
  CASE line.kind = "garbage" -> Answer(NoId, "parse")
    [] line.kind = "version" -> Answer(line.id, "request")
    [] line.kind \in {"initialize", "ping", "initialized", "notification"} -> Answer(line.id, Success)
    [] line.kind = "badInitialize" -> Answer(line.id, "params")
    [] line.kind = "list" -> Session(line.id, Answer(line.id, Success))
    [] line.kind = "badCall" -> Session(line.id, Answer(line.id, "params"))
    [] line.kind = "call" -> Session(line.id, ToolCall)
    [] OTHER -> Answer(line.id, "method")

\* HandleLine and HandleRequest: the answer, Nothing, or a tool to be called.
HandleRequest(line) ==
  CASE line.kind = "garbage" -> Answer(NoId, "parse")
    [] line.kind = "version" -> Answer(line.id, "request")
    [] line.kind \in {"initialize", "ping"} -> Answer(line.id, Success)
    [] line.kind = "badInitialize" -> Answer(line.id, "params")
    [] line.kind = "list" -> Session(line.id, Answer(line.id, Success))
    [] line.kind = "badCall" -> Session(line.id, Answer(line.id, "params"))
    [] line.kind = "call" -> Session(line.id, ToolCall)
    [] line.kind \in {"initialized", "notification"} -> Nothing
    [] OTHER -> Answer(line.id, "method")

-----------------------------------------------------------------------------
Init ==
  /\ sent = <<>> /\ open = TRUE /\ read = 0
  /\ handling = Nothing /\ initialized = FALSE
  /\ answers = <<>> /\ verdicts = <<>> /\ status = "serving"

Send ==
  /\ open /\ Len(sent) < Lines
  /\ \E line \in NewLines(Len(sent) + 1) : sent' = Append(sent, line)
  /\ UNCHANGED <<open, read, handling, initialized, answers, verdicts, status>>

\* The client closes its end, after a line or within one.
CloseInput ==
  /\ open /\ open' = FALSE
  /\ UNCHANGED <<sent, read, handling, initialized, answers, verdicts, status>>

\* Serve takes a line; a blank one is skipped.
ReadLine ==
  /\ status = "serving" /\ handling = Nothing /\ read < Len(sent)
  /\ read' = read + 1
  /\ LET line == sent[read + 1]
     IN  /\ handling' = IF line.kind = "blank" THEN Nothing ELSE HandleRequest(line)
         /\ initialized' = (initialized \/ line.kind = "initialized")
  /\ UNCHANGED <<sent, open, answers, verdicts, status>>

\* Mutant: the end of the input ends the server while an answer is due.
ReadEndAtOnce ==
  /\ status = "serving" /\ ~open /\ read = Len(sent)
  /\ status' = "ended"
  /\ UNCHANGED <<sent, open, read, handling, initialized, answers, verdicts>>

\* ReadBytes returns io.EOF, with what there is of a last line without its
\* newline, which Serve drops; or another error.
ReadEnd ==
  /\ status = "serving" /\ handling = Nothing /\ ~open /\ read = Len(sent)
  /\ status' = "ended"
  /\ UNCHANGED <<sent, open, read, handling, initialized, answers, verdicts>>

ReadFails ==
  /\ status = "serving" /\ handling = Nothing
  /\ status' = "failed"
  /\ UNCHANGED <<sent, open, read, handling, initialized, answers, verdicts>>

\* What a tool answers: for a run the exit code of RunWithConfig, 2 when there
\* was no run; an error of a tool is an internal error.
Answers(line, passed) ==
  LET refused == line.cfg = "invalid" \/ ~GuardMCPConfig(line.cfg)
      failed == Answer(line.id, "internal")
      exits(code) == [Answer(line.id, Success) EXCEPT !.exit = code]
  IN  IF line.tool = "nosuch" \/ line.cfg = "undecodable" THEN {failed}
      ELSE CASE line.tool = "cleanr_run" ->
                  IF refused THEN {exits(2)} ELSE {exits(IF passed THEN 0 ELSE 1), failed}
             [] line.tool = "cleanr_generate_dataset" ->
                  IF refused THEN {failed} ELSE {Answer(line.id, Success), failed}
             [] line.tool = "cleanr_validate_config" -> {Answer(line.id, Success)}
             [] OTHER -> {Answer(line.id, Success), failed}

RunsSuites(line) ==
  line.tool = "cleanr_run" /\ line.cfg \notin {"undecodable", "invalid"} /\ GuardMCPConfig(line.cfg)

\* Mutant: the run goes on although the guard refused the configuration.
CallToolUnguarded ==
  /\ status = "serving" /\ handling = ToolCall
  /\ LET line == sent[read]
     IN  \E passed \in BOOLEAN :
           /\ handling' \in Answers(line, passed)
           /\ verdicts' = IF line.tool = "cleanr_run" /\ line.cfg \notin {"undecodable", "invalid"}
                            THEN Append(verdicts, [line |-> read, passed |-> passed]) ELSE verdicts
  /\ UNCHANGED <<sent, open, read, initialized, answers, status>>

\* handleToolCall, to the end of the tool.
CallTool ==
  /\ status = "serving" /\ handling = ToolCall
  /\ LET line == sent[read]
     IN  \E passed \in BOOLEAN :
           /\ handling' \in Answers(line, passed)
           /\ verdicts' = IF RunsSuites(line)
                            THEN Append(verdicts, [line |-> read, passed |-> passed]) ELSE verdicts
  /\ UNCHANGED <<sent, open, read, initialized, answers, status>>

WriteAnswer ==
  /\ status = "serving" /\ handling \notin {Nothing, ToolCall}
  /\ answers' = Append(answers, handling)
  /\ handling' = Nothing
  /\ UNCHANGED <<sent, open, read, initialized, verdicts, status>>

WriteFails ==
  /\ status = "serving" /\ handling \notin {Nothing, ToolCall}
  /\ status' = "failed"
  /\ UNCHANGED <<sent, open, read, handling, initialized, answers, verdicts>>

Serve == ReadLine \/ ReadEnd \/ CallTool \/ WriteAnswer
Next == Send \/ CloseInput \/ Serve \/ ReadFails \/ WriteFails

\* The server runs; the client may do nothing.
Spec == Init /\ [][Next]_vars /\ WF_vars(Serve)

-----------------------------------------------------------------------------
\* A request that wants an answer: it has an id and is no notification.
IsRequest(line) == line.id # NoId /\ line.kind \notin {"initialized", "notification"}
Handled == IF handling = Nothing THEN read ELSE read - 1
Requests == {n \in 1 .. Handled : IsRequest(sent[n])}
Replies == {i \in DOMAIN answers : answers[i].id # NoId}

\* Every request that was handled has one answer with its id, which is the
\* number of its line, in the order of the requests, and a notification has
\* none (HandleRequest).
AnswersMatchRequests ==
  /\ {answers[i].id : i \in Replies} = Requests
  /\ \A i, j \in Replies : i < j => answers[i].id < answers[j].id

\* The exit code of an answer is that of the run of its line.
ExitIsOfRun(answer) ==
  \/ /\ answer.exit = 2
     /\ \A i \in DOMAIN verdicts : verdicts[i].line # answer.id
  \/ \E i \in DOMAIN verdicts :
       /\ verdicts[i].line = answer.id
       /\ answer.exit = IF verdicts[i].passed THEN 0 ELSE 1

\* Suites run at most once for a request, only in a session, only for a
\* configuration the guard lets pass, and the answer has the exit code of that
\* run: 0 when it passed, 1 when it did not, 2 when there was none (Run,
\* RunWithConfig).
RunAnswersAreTrue ==
  /\ \A i \in DOMAIN verdicts :
       LET n == verdicts[i].line
       IN  /\ GuardMCPConfig(sent[n].cfg)
           /\ \E m \in 1 .. n - 1 : sent[m].kind = "initialized"
  /\ \A i, j \in DOMAIN verdicts : i < j => verdicts[i].line < verdicts[j].line
  /\ \A n \in DOMAIN answers :
       answers[n].exit # Nothing => ExitIsOfRun(answers[n])

\* Every complete line is handled and answered, even when the client has
\* closed its end, unless a read or a write fails; then Serve returns.
EveryLineIsHandled ==
  /\ \A n \in 1 .. Lines : Len(sent) >= n ~> Handled >= n \/ status = "failed"
  /\ ~open ~> status # "serving"

=============================================================================
